SPECIFICATION Spec
CONSTANTS
  Resource = {r1}
  ResponseId = {f1}
  NoResource = NoResource
  NoResponseId = NoResponseId
  Periods <- MCPeriods
  EntryTimes <- MCEntryTimes
  EntrySources <- MCEntrySources
  LessonBatches <- MCLessonBatches
  StatusChoices <- MCStatusChoices
  RobotLists <- MCOneRobotLists
  MaxRequests = 2
  MaxReservations = 4
INVARIANTS
  TypeOK
  NoSilentOverlap
  ApprovedHoldsSlots
  NoSlotHeldTwice
  UniqueLiveResponseId
PROPERTIES
  HistoryKept
CHECK_DEADLOCK FALSE
