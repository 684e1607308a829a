SPECIFICATION Spec
CONSTANTS
  Resource = {r1}
  ResponseId = {}
  NoResource = NoResource
  NoResponseId = NoResponseId
  Periods <- MCForms
  EntryTimes <- MCEntryTimes
  EntrySources <- MCEntrySources
  StatusChoices <- MCStatusChoices
  MaxRequests = 1
  MaxReservations = 2
  Staff = {s1, s2}
  Thread = {t1}
  Worker = {}
  OneAtATime = FALSE
SYMMETRY StaffSymmetry
PROPERTIES
  DatesBreakOnlyByOvertaking
  BookingsBreakOnlyByOvertaking
  StaffBookInService
  HistoryKept
CHECK_DEADLOCK FALSE
