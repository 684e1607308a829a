SPECIFICATION Spec
CONSTANTS
  Resource = {r1}
  ResponseId = {}
  NoResource = NoResource
  NoResponseId = NoResponseId
  Periods <- MCStarts
  EntryTimes <- MCEntryTimes
  EntrySources <- MCEntrySources
  StatusChoices = {}
  MaxRequests = 2
  MaxReservations = 4
  Staff = {s1}
  Thread = {}
  Worker = {w1}
  OneAtATime = FALSE

INVARIANTS
  ApprovedHoldsSlots
  SlotsMatchRequest
  NoSlotHeldTwice
  DatesInOrder
PROPERTIES
  WorkerBooksOnlyFreeSlots
CHECK_DEADLOCK FALSE
