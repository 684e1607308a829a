SPECIFICATION Spec
CONSTANTS
  Resource = {r1}
  ResponseId = {f1}
  NoResource = NoResource
  NoResponseId = NoResponseId
  Periods <- MCPeriods
  EntryTimes <- MCEntryTimes
  EntrySources <- MCEntrySources
  StatusChoices <- MCStatusChoices
  MaxRequests = 1
  MaxReservations = 4
  Staff = {s1, s2}
  Thread = {}
  Worker = {}
  OneAtATime = FALSE
INVARIANTS
  NoSlotHeldTwice
CHECK_DEADLOCK FALSE
