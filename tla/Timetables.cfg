SPECIFICATION SideBySide
CONSTANTS
  Resource = {r1, r2}
  ResponseId = {}
  NoResource = NoResource
  NoResponseId = NoResponseId
  Periods <- MCPeriods
  EntryTimes <- MCEntryTimes
  EntrySources <- MCEntrySources
  LessonBatches <- MCLessonBatches
  StatusChoices <- MCStatusChoices
  RobotLists <- MCRobotLists
  Tab = {tab}
  Nobody = Nobody
  Anchors <- MCAnchors
  Loans <- MCLoans
  Course = {"ME1", "ME2"}
  AsWritten = "as written"
  NoCourse = "none"
  Lines <- MCLines
  Barred <- MCBarred
  MaxLines = 4
  Clock <- MCClock
  MaxRequests = 1
  MaxReservations = 3
INVARIANTS
  NoSilentOverlap
  SlotsMatchRequest
  NothingHidden
  FreeCellIsFree
  HandBackIsRight
  TimesAsWritten
  NoDateDropped
  CourseOfTheTable
PROPERTIES
  DecisionIsWhole
  LessonsKeepApart
  UnseenClashIsNewer
CHECK_DEADLOCK FALSE
