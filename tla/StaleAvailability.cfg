SPECIFICATION Spec
CONSTANTS
  Resource = {r1}
  ResponseId = {f1}
  NoResource = NoResource
  NoResponseId = NoResponseId
  Periods <- MCPeriods
  EntryTimes <- MCEntryTimes
  EntrySources <- MCEntrySources
  StatusChoices <- MCStatusChoices
  MaxRequests = 2
  MaxReservations = 4
  Staff = {s1}
  Thread = {}
  Worker = {w1}
  OneAtATime = FALSE
INVARIANTS
  NoSilentOverlap
CHECK_DEADLOCK FALSE
