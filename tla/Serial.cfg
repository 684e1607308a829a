SPECIFICATION Spec
CONSTANTS
  Resource = {r1}
  ResponseId = {f1}
  NoResource = NoResource
  NoResponseId = NoResponseId
  Periods <- MCPeriods
  EntryTimes <- MCEntryTimes
  EntrySources <- MCEntrySources
  StatusChoices <- MCStatusChoices
  MaxRequests = 2
  MaxReservations = 3
  Staff = {s1}
  Thread = {t1}
  Worker = {w1}
  OneAtATime = TRUE
PROPERTIES
  ImplementsService
CHECK_DEADLOCK FALSE
