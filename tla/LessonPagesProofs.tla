------------------------- MODULE LessonPagesProofs -------------------------
(***************************************************************************)
(* Proofs about the lesson import and the calendar pages: the two-step     *)
(* import implements the one-step decision of BookingService, so what is   *)
(* proved of the decisions holds of it; an import overlaps unseen only     *)
(* what came after its check; and the week page hides nothing and shows as *)
(* free only what is.                                                      *)
(***************************************************************************)
EXTENDS LessonPages, BookingSlotsProofs

-----------------------------------------------------------------------------
(* The import between its check and its commit                             *)

\* The import being written still passes the checks of its handler, which no
\* thread can undo: the status of a robot is changed by the event loop only.
InProgress ==
  importing # Nobody =>
    /\ importing.lessons \in LessonBatches
    /\ importing.robots \in RobotLists
    /\ importing.tab \in Tab
    /\ importing.known \in Nat
    /\ importing.known <= Len(reservation)
    /\ Importable(importing.lessons, importing.robots)

\* The page is a step of nobody's table, the commit is ImportLessons, and the
\* other steps are decisions.
LEMMA EveryStepDecides ==
  ASSUME InProgress, [LessonNext]_lessonVars
  PROVE  [Next]_vars
<1>1. ASSUME NEW t \in Tab, PageStep(t)
      PROVE  UNCHANGED vars
  BY <1>1 DEF PageStep, Parse, ReturnRows, ShowClashes, CheckImport, vars
<1>2. CASE CommitImport
  <2>1. ImportLessons(importing.robots, importing.lessons)
    BY <1>2 DEF CommitImport, InProgress, Complete, Importable, ImportLessons
  <2>2. importing.robots \in RobotLists /\ importing.lessons \in LessonBatches
    BY <1>2 DEF CommitImport, InProgress
  <2>. QED
    BY <2>1, <2>2 DEF Next
<1>3. CASE LoseImport
  BY <1>3 DEF LoseImport, vars
<1>4. CASE DeskStep
  <2>1. CASE \E q \in DOMAIN request : RequestStep(q)
    BY <2>1 DEF Next
  <2>2. ASSUME NEW p \in Periods, NEW rid \in ResponseId \union {NoResponseId},
               CreateRequest(p, rid)
        PROVE  Next
    BY <2>2 DEF Next
  <2>3. ASSUME NEW r \in Resource, NEW status \in StatusChoices,
               SetResourceStatus(r, status)
        PROVE  Next
    BY <2>3 DEF Next
  <2>. QED
    BY <1>4, <2>1, <2>2, <2>3 DEF DeskStep
<1>5. CASE OutsideStep
  <2>1. ASSUME NEW p \in Periods, NEW rid \in ResponseId \union {NoResponseId},
               NEW r \in Resource, ImportApproved(p, rid, r)
        PROVE  Next
    BY <2>1 DEF Next
  <2>2. ASSUME NEW i \in DOMAIN reservation, CancelReservation(i)
        PROVE  Next
    BY <2>2 DEF Next
  <2>3. ASSUME NEW r \in Resource, NEW source \in EntrySources,
               NEW interval \in EntryTimes, CreateManual(r, source, interval)
        PROVE  Next
    BY <2>3 DEF Next
  <2>. QED
    BY <1>5, <2>1, <2>2, <2>3 DEF OutsideStep
<1>6. CASE UNCHANGED lessonVars
  BY <1>6 DEF lessonVars, vars
<1>. QED
  BY <1>1, <1>2, <1>3, <1>4, <1>5, <1>6 DEF LessonNext

\* No step shortens the table.
LEMMA TableGrows ==
  ASSUME TypeOK, TypeOK', [Next]_vars
  PROVE  /\ Len(reservation) \in Nat /\ Len(reservation') \in Nat
         /\ Len(reservation) <= Len(reservation')
         /\ DOMAIN reservation = 1 .. Len(reservation)
         /\ DOMAIN reservation' = 1 .. Len(reservation')
<1>1. /\ Len(reservation) \in Nat /\ Len(reservation') \in Nat
      /\ DOMAIN reservation = 1 .. Len(reservation)
      /\ DOMAIN reservation' = 1 .. Len(reservation')
  BY LenProperties DEF TypeOK
<1>2. \A i \in DOMAIN reservation : i \in DOMAIN reservation'
  BY StepsKeepHistory DEF KeepsHistory
<1>3. Len(reservation) <= Len(reservation')
  <2>1. CASE Len(reservation) = 0
    BY <1>1, <2>1
  <2>2. CASE Len(reservation) # 0
    <3>1. Len(reservation) \in DOMAIN reservation
      BY <1>1, <2>2
    <3>. QED
      BY <1>1, <1>2, <3>1
  <2>. QED
    BY <2>1, <2>2
<1>. QED
  BY <1>1, <1>3

\* A page or an import that a step leaves alone.
LEMMA OthersLeavePages ==
  ASSUME [LessonNext]_lessonVars, importing # Nobody
  PROVE  \/ importing' = Nobody
         \/ /\ UNCHANGED <<page, importing, resourceStatus>>
            /\ OutsideStep \/ UNCHANGED reservation
BY DEF LessonNext, PageStep, Parse, ReturnRows, ShowClashes, CheckImport, LoopIsFree,
       CommitImport, LoseImport, DeskStep, OutsideStep, pages, lessonVars,
       ImportApproved, CancelReservation, CreateManual

\* The handler's checks hold until it commits.
LEMMA ImportStaysValid ==
  ASSUME TypeOK, TypeOK', InProgress, [LessonNext]_lessonVars
  PROVE  InProgress'
<1>. SUFFICES ASSUME importing' # Nobody
              PROVE  /\ importing'.lessons \in LessonBatches
                     /\ importing'.robots \in RobotLists
                     /\ importing'.tab \in Tab
                     /\ importing'.known \in Nat
                     /\ importing'.known <= Len(reservation')
                     /\ Importable(importing.lessons, importing.robots)'
  BY DEF InProgress
<1>0. /\ Len(reservation) \in Nat /\ Len(reservation') \in Nat
      /\ Len(reservation) <= Len(reservation')
  BY EveryStepDecides, TableGrows
<1>1. CASE importing # Nobody
  <2>1. UNCHANGED <<importing, resourceStatus>>
    BY <1>1, OthersLeavePages
  <2>2. Importable(importing.lessons, importing.robots)'
    BY <1>1, <2>1 DEF InProgress, Importable
  <2>. QED
    BY <1>0, <1>1, <2>1, <2>2 DEF InProgress
<1>2. CASE importing = Nobody
  <2>1. PICK t \in Tab, lessons \in LessonBatches, robots \in RobotLists :
          CheckImport(t, lessons, robots)
    BY <1>2 DEF LessonNext, PageStep, Parse, ReturnRows, ShowClashes, CommitImport,
                LoseImport, DeskStep, OutsideStep, pages, lessonVars
  <2>2. /\ importing' = [tab |-> t, lessons |-> lessons, robots |-> robots,
                         known |-> Len(reservation)]
        /\ Importable(lessons, robots)
        /\ UNCHANGED <<resourceStatus, reservation>>
    BY <2>1 DEF CheckImport
  <2>3. /\ importing'.lessons = lessons /\ importing'.robots = robots
        /\ importing'.tab = t /\ importing'.known = Len(reservation)
    BY <2>2
  <2>4. Importable(importing.lessons, importing.robots)'
    BY <2>2, <2>3 DEF Importable
  <2>. QED
    BY <1>0, <2>2, <2>3, <2>4
<1>. QED
  BY <1>1, <1>2

\* Two steps of the handler, with the threads between them, are one decision of
\* BookingService: every behaviour of the pages is one of the decisions.
THEOREM ImportIsADecision == LessonSpec => Spec
<1>1. LessonInit => Init /\ InProgress
  BY DEF LessonInit, InProgress
<1>2. InProgress /\ TypeOK /\ TypeOK' /\ [LessonNext]_lessonVars => InProgress'
  BY ImportStaysValid
<1>3. InProgress /\ [LessonNext]_lessonVars => [Next]_vars
  BY EveryStepDecides
<1>4. Init => TypeOK
  BY EmptySeq DEF Init, TypeOK, ResourceStatus, Missing
<1>5. TypeOK /\ [Next]_vars => TypeOK'
  BY StepsKeepTypes
<1>. QED
  BY <1>1, <1>2, <1>3, <1>4, <1>5, PTL DEF LessonSpec, Spec

\* So what every decision keeps, the pages keep: nothing overlaps in silence, slots
\* are those asked for, and a decision is whole, whoever comes between a check and
\* its commit.
THEOREM PagesKeepTheRules ==
  LessonSpec => []NoSilentOverlap /\ []SlotsMatchRequest /\ DecisionIsWhole
BY ImportIsADecision, OverlapsAreAnnounced, SlotsAreThoseAskedFor, DecisionsAreWhole

-----------------------------------------------------------------------------
(* The rows of the calendar                                                *)

\* The rows are rows.
LEMMA RowType ==
  ASSUME TypeOK, NEW i \in DOMAIN reservation
  PROVE  reservation[i] \in ReservationRow
BY LenProperties, ElementOfSeq DEF TypeOK

ProperRow(row) == row.start < row.end

\* What the calendar form makes of its fields.
EnteredRow(row) ==
  \E r \in Resource, source \in EntrySources, interval \in EntryTimes :
    interval.start < interval.end /\ row = EntryRow(r, source, interval)

\* A row that is not imported from a timetable is a booking or comes from the
\* calendar form.
LEMMA OthersAddNoLessons ==
  ASSUME TypeOK, DeskStep \/ OutsideStep,
         NEW j \in DOMAIN reservation', j \notin DOMAIN reservation
  PROVE  \/ reservation'[j].source = "BOOKING" /\ ProperRow(reservation'[j])
         \/ EnteredRow(reservation'[j])
<1>. DEFINE Goal == \/ reservation'[j].source = "BOOKING" /\ ProperRow(reservation'[j])
                    \/ EnteredRow(reservation'[j])
<1>0. /\ reservation \in Seq(ReservationRow) /\ Len(reservation) \in Nat
      /\ DOMAIN reservation = 1 .. Len(reservation)
      /\ Len(request) + 1 \in Nat
      /\ \A q \in DOMAIN request : q \in Nat /\ request[q].period \in Period
      /\ \A p \in Periods : p \in Period
  <2>1. /\ reservation \in Seq(ReservationRow) /\ Len(reservation) \in Nat
        /\ DOMAIN reservation = 1 .. Len(reservation)
        /\ DOMAIN request = 1 .. Len(request) /\ Len(request) \in Nat
        /\ \A q \in DOMAIN request : request[q] \in RequestRow
    BY LenProperties, ElementOfSeq DEF TypeOK
  <2>. QED
    BY <2>1, InputAssumption DEF RequestRow
<1>1. ASSUME NEW old \in Seq(ReservationRow), Len(old) = Len(reservation),
             NEW q \in Nat, NEW r \in Resource, NEW p \in Period, NEW conflicts,
             reservation' = old \o BookingRows(q, r, ExpandSlots(p), conflicts)
      PROVE  Goal
  <2>. DEFINE rows == BookingRows(q, r, ExpandSlots(p), conflicts)
              k == j - Len(reservation)
  <2>1. /\ rows \in Seq(ReservationRow) /\ DOMAIN rows = DOMAIN ExpandSlots(p)
        /\ \A n \in DOMAIN rows : /\ rows[n].source = "BOOKING"
                                  /\ rows[n].start = ExpandSlots(p)[n].start
                                  /\ rows[n].end = ExpandSlots(p)[n].end
    <3>1. rows \in Seq(ReservationRow)
      BY RowsForPeriod
    <3>2. /\ DOMAIN rows = DOMAIN ExpandSlots(p)
          /\ \A n \in DOMAIN ExpandSlots(p) :
               rows[n] = [resource |-> r, source |-> "BOOKING", request |-> q,
                          start |-> ExpandSlots(p)[n].start, end |-> ExpandSlots(p)[n].end,
                          status |-> "ACTIVE", note |-> conflicts[n] # {}]
      BY Zenon DEF BookingRows
    <3>. HIDE DEF rows
    <3>. QED
      BY <3>1, <3>2
  <2>2. \A n \in DOMAIN rows : ProperRow(rows[n])
    BY <2>1, SlotsAreProper DEF ProperRow
  <2>3. reservation' = old \o rows
    BY <1>1
  <2>. HIDE DEF rows
  <2>4. /\ k \in DOMAIN rows /\ reservation'[j] = rows[k]
    BY <1>0, <1>1, <2>1, <2>3, ConcatProperties, LenProperties
  <2>. QED
    BY <2>1, <2>2, <2>4
<1>2. ASSUME NEW q \in DOMAIN request, RequestStep(q)
      PROVE  Goal
  <2>1. ASSUME NEW p \in Periods, NEW rid, NEW r \in Resource, NEW allow,
               Amend(q, p, rid, r, allow)
        PROVE  Goal
    <3>1. reservation' = Released(reservation, q) \o
            BookingRows(q, r, ExpandSlots(p),
                        SlotConflicts(reservation, r, ExpandSlots(p), q))
      BY <2>1 DEF Amend
    <3>2. /\ Released(reservation, q) \in Seq(ReservationRow)
          /\ Len(Released(reservation, q)) = Len(reservation)
      BY <1>0, ReleasedType
    <3>. HIDE DEF Goal
    <3>. QED
      BY <1>0, <1>1, <3>1, <3>2
  <2>2. ASSUME NEW r \in Resource, NEW allow, Approve(q, r, allow)
        PROVE  Goal
    <3>. DEFINE p == request[q].period
    <3>1. reservation' = reservation \o
            BookingRows(q, r, ExpandSlots(p),
                        SlotConflicts(reservation, r, ExpandSlots(p), q))
      BY <2>2 DEF Approve
    <3>2. p \in Period
      BY <1>0
    <3>. HIDE DEF Goal, p
    <3>. QED
      BY <1>0, <1>1, <3>1, <3>2
  <2>3. CASE DOMAIN reservation' = DOMAIN reservation
    BY <2>3
  <2>. QED
    BY <1>2, <2>1, <2>2, <2>3
    DEF RequestStep, EditRequest, Reject, Cancel, Reopen, Released
<1>3. ASSUME NEW p \in Periods, NEW rid, NEW r \in Resource,
             ImportApproved(p, rid, r)
      PROVE  Goal
  <2>. DEFINE q == Len(request) + 1
  <2>1. reservation' = reservation \o
          BookingRows(q, r, ExpandSlots(p),
                      SlotConflicts(reservation, r, ExpandSlots(p), q))
    BY <1>3 DEF ImportApproved
  <2>. HIDE DEF Goal, q
  <2>. QED
    BY <1>0, <1>1, <2>1 DEF q
<1>4. ASSUME NEW r \in Resource, NEW source \in EntrySources,
             NEW interval \in EntryTimes, CreateManual(r, source, interval)
      PROVE  Goal
  <2>. DEFINE row == EntryRow(r, source, interval)
              rows == <<row>>
  <2>1. /\ reservation' = reservation \o rows
        /\ interval.start < interval.end
    BY <1>4 DEF CreateManual
  <2>2. row \in ReservationRow
    BY InputAssumption, EntryRowType
  <2>. HIDE DEF row
  <2>3. rows \in Seq(ReservationRow) /\ DOMAIN rows = {1} /\ rows[1] = row
    BY <2>2
  <2>. HIDE DEF rows
  <2>4. reservation'[j] = row
    BY <1>0, <2>1, <2>3, ConcatProperties, LenProperties
  <2>. QED
    BY <2>1, <2>4 DEF row, EnteredRow
<1>. QED
  BY <1>2, <1>3, <1>4
  DEF DeskStep, OutsideStep, CreateRequest, SetResourceStatus, CancelReservation

\* What an import adds.
LEMMA ImportAddsItsRows ==
  ASSUME TypeOK, InProgress, CommitImport,
         NEW j \in DOMAIN reservation', j \notin DOMAIN reservation
  PROVE  \E a \in DOMAIN importing.robots, b \in DOMAIN importing.lessons :
           reservation'[j] = EntryRow(importing.robots[a], "LESSON", importing.lessons[b])
<1>. DEFINE robots == importing.robots
            lessons == importing.lessons
            rows == LessonRows(robots, lessons)
<1>1. /\ robots \in Seq(Resource) /\ robots # << >>
      /\ lessons \in Seq(Slot) /\ lessons # << >>
  BY InputAssumption DEF CommitImport, InProgress, Complete, Importable
<1>2. reservation' = reservation \o rows
  BY DEF CommitImport
<1>. HIDE DEF robots, lessons
<1>3. /\ rows \in Seq(ReservationRow)
      /\ \A k \in 1 .. Len(rows) :
           \E a \in DOMAIN robots, b \in DOMAIN lessons :
             rows[k] = EntryRow(robots[a], "LESSON", lessons[b])
  BY <1>1, LessonRowsType
<1>. HIDE DEF rows
<1>4. /\ j - Len(reservation) \in 1 .. Len(rows)
      /\ reservation'[j] = rows[j - Len(reservation)]
  BY <1>2, <1>3, ConcatProperties, LenProperties DEF TypeOK
<1>. QED
  BY <1>3, <1>4 DEF robots, lessons

RowsAreProper == \A i \in DOMAIN reservation : ProperRow(reservation[i])

\* Forms and imports with their times the wrong way round are refused, so every
\* row of the calendar begins before it ends.
LEMMA RowsStayProper ==
  ASSUME TypeOK, InProgress, RowsAreProper, [LessonNext]_lessonVars
  PROVE  RowsAreProper'
<1>. SUFFICES ASSUME NEW j \in DOMAIN reservation'
              PROVE  ProperRow(reservation'[j])
  BY DEF RowsAreProper
<1>1. CASE j \in DOMAIN reservation
  <2>1. reservation'[j] \in {reservation[j],
                             [reservation[j] EXCEPT !.status = "CANCELLED"]}
    BY <1>1, EveryStepDecides, StepsKeepHistory DEF KeepsHistory
  <2>2. reservation[j] \in ReservationRow
    BY <1>1, LenProperties, ElementOfSeq DEF TypeOK
  <2>. QED
    BY <1>1, <2>1, <2>2 DEF RowsAreProper, ProperRow, ReservationRow
<1>2. CASE j \notin DOMAIN reservation
  <2>1. CASE DeskStep \/ OutsideStep
    BY <1>2, <2>1, OthersAddNoLessons DEF EnteredRow, EntryRow, ProperRow
  <2>2. CASE CommitImport
    <3>1. \A b \in DOMAIN importing.lessons :
            importing.lessons[b].start < importing.lessons[b].end
      BY <2>2 DEF CommitImport, InProgress, Complete, Importable
    <3>. QED
      BY <1>2, <2>2, <3>1, ImportAddsItsRows DEF EntryRow, ProperRow
  <2>3. CASE UNCHANGED reservation
    BY <1>2, <2>3
  <2>. QED
    BY <2>1, <2>2, <2>3
    DEF LessonNext, PageStep, Parse, ReturnRows, ShowClashes, CheckImport, LoseImport,
        lessonVars
<1>. QED
  BY <1>1, <1>2

-----------------------------------------------------------------------------
(* The calendar pages                                                      *)

\* Every instant of a week is in a cell of its day.
LEMMA CellsCoverTheWeek ==
  ASSUME NEW anchor \in Int, NEW t \in Int,
         WeekStart(anchor) * DayMinutes <= t, t < (WeekStart(anchor) + 7) * DayMinutes
  PROVE  \E day \in WeekDays(anchor), s \in Session :
           BucketWindow(day, s).start <= t /\ t < BucketWindow(day, s).end
<1>. DEFINE day == t \div DayMinutes
            s == IF t < day * DayMinutes + BucketSplit THEN "AM" ELSE "PM"
            first == WeekStart(anchor)
<1>1. day \in Int /\ day * DayMinutes <= t /\ t < (day + 1) * DayMinutes
  BY DEF DayMinutes
<1>2. first \in Int
  BY DEF WeekStart
<1>. HIDE DEF day, first
<1>3. day \in first .. first + 6
  BY <1>1, <1>2 DEF DayMinutes, first
<1>4. day \in WeekDays(anchor)
  BY <1>3 DEF WeekDays, first
<1>5. s \in Session
  BY DEF Session
<1>6. BucketWindow(day, s).start <= t /\ t < BucketWindow(day, s).end
  BY <1>1 DEF BucketWindow, BucketSplit, DayMinutes
<1>. QED
  BY <1>4, <1>5, <1>6

\* A slot lies in the cell of its session, on a day of its week.
LEMMA SlotsLieInTheirCells ==
  ASSUME NEW day \in Int, NEW s \in Session
  PROVE  LET slot == SlotOn(day, s)
         IN  /\ DayOf(slot) = day /\ SessionOf(slot) = s
             /\ day \in WeekDays(day)
             /\ BucketWindow(day, s).start <= slot.start
             /\ slot.end <= BucketWindow(day, s).end
             /\ WeekStart(day) \in Int
             /\ WeekStart(day) * DayMinutes <= slot.start
             /\ slot.end <= (WeekStart(day) + 7) * DayMinutes
<1>. DEFINE slot == SlotOn(day, s)
            first == WeekStart(day)
<1>1. s = "AM" \/ s = "PM"
  BY DEF Session
<1>2. /\ slot.start = day * 1440 + (IF s = "AM" THEN 510 ELSE 810)
      /\ slot.end = day * 1440 + (IF s = "AM" THEN 720 ELSE 1020)
  BY DEF SlotOn, SessionStart, SessionEnd, DayMinutes
<1>3. DayOf(slot) = day
  <2>. HIDE DEF slot
  <2>. QED
    BY <1>2 DEF DayOf, DayMinutes
<1>4. SessionOf(slot) = s
  <2>1. \A o \in Session : slot = SlotOn(day, o) => o = s
    BY DEF SlotOn, SessionStart, DayMinutes, Session
  <2>. QED
    BY <1>3, <2>1 DEF SessionOf
<1>5. first \in Int /\ first <= day /\ day <= first + 6
  BY DEF WeekStart
<1>. HIDE DEF slot, first
<1>6. day \in WeekDays(day)
  BY <1>5 DEF WeekDays, first
<1>7. BucketWindow(day, s).start <= slot.start /\ slot.end <= BucketWindow(day, s).end
  BY <1>1, <1>2 DEF BucketWindow, BucketSplit, DayMinutes
<1>8. first * DayMinutes <= slot.start /\ slot.end <= (first + 7) * DayMinutes
  BY <1>2, <1>5 DEF DayMinutes
<1>. QED
  BY <1>3, <1>4, <1>5, <1>6, <1>7, <1>8 DEF slot, first

\* A cell that the week page shows as free can be booked: what the availability
\* engine finds in the way of a slot is in the cell of that slot, although the one
\* goes by session times and the other by half-days.
THEOREM FreeCellsAreFree == LessonSpec => []FreeCellIsFree
<1>1. ASSUME TypeOK, NEW p \in Loans, NEW r \in ShownResources(resourceStatus, Engaged),
             NEW k \in DOMAIN ExpandSlots(p),
             NEW i \in SlotConflicts(reservation, r, ExpandSlots(p), NoRequest)[k]
      PROVE  LET day == DayOf(ExpandSlots(p)[k])
             IN  i \in WeekGrid(reservation, resourceStatus, day, Resource,
                                SourceType)[<<r, day, SessionOf(ExpandSlots(p)[k])>>]
  <2>. DEFINE slot == ExpandSlots(p)[k]
              row  == reservation[i]
  <2>1. /\ i \in DOMAIN reservation /\ row.resource = r /\ ActiveRow(row)
        /\ Overlaps(slot, row)
    BY DEF SlotConflicts, ActiveReservations
  <2>2. row \in ReservationRow
    BY <1>1, <2>1, RowType
  <2>3. PICK day \in Int, s \in Session : slot = SlotOn(day, s)
    BY PageAssumption, SlotsAreSessions
  <2>4. /\ DayOf(slot) = day /\ SessionOf(slot) = s
        /\ day \in WeekDays(day)
        /\ BucketWindow(day, s).start <= slot.start
        /\ slot.end <= BucketWindow(day, s).end
        /\ WeekStart(day) \in Int
        /\ WeekStart(day) * DayMinutes <= slot.start
        /\ slot.end <= (WeekStart(day) + 7) * DayMinutes
    BY <2>3, SlotsLieInTheirCells
  <2>5. /\ slot.start \in Int /\ slot.end \in Int
        /\ row.start \in Int /\ row.end \in Int
        /\ BucketWindow(day, s).start \in Int /\ BucketWindow(day, s).end \in Int
    <3>1. slot \in Slot
      BY <2>3, SlotOnType
    <3>. QED
      BY <2>2, <3>1 DEF Slot, ReservationRow, BucketWindow, BucketSplit, DayMinutes
  <2>6. r \in ShownResources(resourceStatus, Resource)
    <3>1. r \in Resource
      BY <2>1, <2>2 DEF ReservationRow
    <3>. QED
      BY <3>1 DEF ShownResources
  <2>. HIDE DEF slot, row
  <2>7. slot.start < row.end /\ slot.end > row.start
    BY <2>1 DEF Overlaps
  <2>8. Overlaps(row, BucketWindow(day, s))
    BY <2>4, <2>5, <2>7 DEF Overlaps
  <2>9. i \in WeekReservations(reservation, day, SourceType)
    <3>1. /\ row.start < (WeekStart(day) + 7) * DayMinutes
          /\ row.end > WeekStart(day) * DayMinutes
      BY <2>4, <2>5, <2>7 DEF DayMinutes
    <3>2. row.source \in SourceType
      BY <2>2 DEF ReservationRow
    <3>. QED
      BY <2>1, <3>1, <3>2 DEF WeekReservations, row
  <2>10. i \in WeekGrid(reservation, resourceStatus, day, Resource, SourceType)[<<r, day, s>>]
    BY <2>1, <2>4, <2>6, <2>8, <2>9 DEF WeekGrid, row
  <2>. QED
    BY <2>4, <2>10 DEF slot
<1>2. TypeOK => FreeCellIsFree
  BY <1>1 DEF FreeCellIsFree
<1>. QED
  BY <1>2, ImportIsADecision, TypeCorrect, PTL

\* An active entry of a robot that is not retired is in a cell of every week it
\* touches, however unusual its hours.
THEOREM NoEntryIsHidden == LessonSpec => []NothingHidden
<1>1. ASSUME TypeOK, RowsAreProper, NEW anchor \in Anchors,
             NEW i \in WeekReservations(reservation, anchor, SourceType),
             reservation[i].resource \in ShownResources(resourceStatus, Resource)
      PROVE  LET grid == WeekGrid(reservation, resourceStatus, anchor, Resource, SourceType)
             IN  \E cell \in DOMAIN grid :
                   cell[1] = reservation[i].resource /\ i \in grid[cell]
  <2>. DEFINE row  == reservation[i]
              from == WeekStart(anchor) * DayMinutes
              t    == IF row.start < from THEN from ELSE row.start
              shown == ShownResources(resourceStatus, Resource)
              grid == WeekGrid(reservation, resourceStatus, anchor, Resource, SourceType)
  <2>1. /\ i \in DOMAIN reservation
        /\ row.start < (WeekStart(anchor) + 7) * DayMinutes
        /\ row.end > from
    BY DEF WeekReservations
  <2>2. row \in ReservationRow
    BY <1>1, <2>1, RowType
  <2>3. row.start \in Int /\ row.end \in Int /\ row.start < row.end
    BY <1>1, <2>1, <2>2 DEF RowsAreProper, ProperRow, ReservationRow
  <2>4. anchor \in Int /\ WeekStart(anchor) \in Int /\ from \in Int
    BY PageAssumption DEF WeekStart, DayMinutes
  <2>5. /\ t \in Int /\ from <= t /\ t < (WeekStart(anchor) + 7) * DayMinutes
        /\ row.start <= t /\ t < row.end
    BY <2>1, <2>3, <2>4 DEF DayMinutes
  <2>. HIDE DEF t, row, grid, shown
  <2>6. PICK day \in WeekDays(anchor), s \in Session :
          BucketWindow(day, s).start <= t /\ t < BucketWindow(day, s).end
    BY <2>4, <2>5, CellsCoverTheWeek
  <2>7. BucketWindow(day, s).start \in Int /\ BucketWindow(day, s).end \in Int
    <3>1. day \in Int
      BY <2>4 DEF WeekDays
    <3>. QED
      BY <3>1 DEF BucketWindow, BucketSplit, DayMinutes
  <2>8. Overlaps(row, BucketWindow(day, s))
    BY <2>3, <2>5, <2>6, <2>7 DEF Overlaps
  <2>9. row.resource \in shown
    BY <1>1 DEF row, shown
  <2>10. /\ <<row.resource, day, s>> \in DOMAIN grid
         /\ i \in grid[<<row.resource, day, s>>]
    BY <2>8, <2>9 DEF WeekGrid, grid, row, shown
  <2>. QED
    BY <2>10 DEF grid, row
<1>2. TypeOK /\ RowsAreProper => NothingHidden
  BY <1>1 DEF NothingHidden
<1>3. LessonInit => RowsAreProper /\ InProgress
  BY DEF LessonInit, Init, RowsAreProper, InProgress
<1>4. InProgress /\ TypeOK /\ TypeOK' /\ RowsAreProper /\ [LessonNext]_lessonVars
        => InProgress' /\ RowsAreProper'
  BY ImportStaysValid, RowsStayProper
<1>. QED
  BY <1>2, <1>3, <1>4, ImportIsADecision, TypeCorrect, PTL DEF LessonSpec

-----------------------------------------------------------------------------
(* The clashes of an import                                                *)

\* Of what was on the calendar when the check was made, everything that is still
\* in the way of a lesson is among the clashes.
Answered(table, lessons, robots, known, clashes) ==
  \A i \in DOMAIN table, k \in DOMAIN robots, l \in DOMAIN lessons :
    /\ i <= known
    /\ ActiveRow(table[i])
    /\ table[i].resource = robots[k]
    /\ Overlaps(table[i], lessons[l])
    => \E c \in clashes : c.entry = i /\ c.robot = robots[k]

\* What the tabs display is complete as of the time it was displayed.
PagesAnswer ==
  /\ DOMAIN page = Tab
  /\ \A t \in Tab :
       /\ page[t].known \in Nat /\ page[t].known <= Len(reservation)
       /\ Confirmed(t)
            => Answered(reservation, page[t].lessons, page[t].robots,
                        page[t].known, page[t].clashes)

\* An import that needed no confirmation had no clash, and no other import has
\* come in between.
ImportAnswers ==
  importing # Nobody /\ ~ Confirmed(importing.tab) =>
    /\ Answered(reservation, importing.lessons, importing.robots, importing.known, {})
    /\ \A i \in DOMAIN reservation :
         i > importing.known /\ ActiveRow(reservation[i])
           /\ reservation[i].source = "LESSON"
         => LessonByHand(reservation[i])

\* The check of a submission finds everything that is in its way.
LEMMA CheckIsComplete ==
  ASSUME TypeOK, NEW lessons \in Seq(Slot), NEW robots \in Seq(Resource), lessons # << >>
  PROVE  Answered(reservation, lessons, robots, Len(reservation),
                  LessonClashes(reservation, lessons, robots))
<1>. SUFFICES ASSUME NEW i \in DOMAIN reservation, NEW k \in DOMAIN robots,
                     NEW l \in DOMAIN lessons,
                     ActiveRow(reservation[i]), reservation[i].resource = robots[k],
                     Overlaps(reservation[i], lessons[l])
              PROVE  \E c \in LessonClashes(reservation, lessons, robots) :
                       c.entry = i /\ c.robot = robots[k]
  BY DEF Answered
<1>. DEFINE c == [robot |-> robots[k], lesson |-> l, entry |-> i]
            row == reservation[i]
<1>1. /\ row.start \in Int /\ row.end \in Int
      /\ lessons[l].start \in Int /\ lessons[l].end \in Int
  <2>1. row \in ReservationRow /\ lessons[l] \in Slot
    BY RowType, LenProperties, ElementOfSeq
  <2>. QED
    BY <2>1 DEF ReservationRow, Slot
<1>2. row.start < lessons[l].end /\ row.end > lessons[l].start
  BY DEF Overlaps
<1>3. Overlaps(lessons[l], row)
  BY <1>1, <1>2 DEF Overlaps
<1>4. row.start < WindowEnd(lessons) /\ row.end > WindowStart(lessons)
  BY <1>1, <1>2, WindowCovers
<1>5. i \in ActiveReservations(reservation, robots[k], WindowStart(lessons),
                               WindowEnd(lessons), NoRequest)
  BY <1>4 DEF ActiveReservations
<1>6. c \in LessonClashes(reservation, lessons, robots)
  BY <1>3, <1>5 DEF LessonClashes
<1>. QED
  BY <1>6

\* Whatever is complete stays so: rows are added after it, or cancelled.
LEMMA AnswersLast ==
  ASSUME TypeOK, TypeOK', [Next]_vars, NEW lessons, NEW robots, NEW clashes,
         NEW known \in Nat, known <= Len(reservation),
         Answered(reservation, lessons, robots, known, clashes)
  PROVE  Answered(reservation', lessons, robots, known, clashes)
<1>. SUFFICES ASSUME NEW i \in DOMAIN reservation', NEW k \in DOMAIN robots,
                     NEW l \in DOMAIN lessons,
                     i <= known, ActiveRow(reservation'[i]),
                     reservation'[i].resource = robots[k],
                     Overlaps(reservation'[i], lessons[l])
              PROVE  \E c \in clashes : c.entry = i /\ c.robot = robots[k]
  BY DEF Answered
<1>1. i \in DOMAIN reservation
  BY TableGrows
<1>2. reservation'[i] = reservation[i]
  <2>1. reservation'[i] \in {reservation[i],
                             [reservation[i] EXCEPT !.status = "CANCELLED"]}
    BY <1>1, StepsKeepHistory DEF KeepsHistory
  <2>. QED
    BY <1>1, <2>1, RowType DEF ActiveRow, ReservationRow
<1>. QED
  BY <1>1, <1>2 DEF Answered

\* The pages stay complete through every step.
LEMMA PagesStayAnswered ==
  ASSUME TypeOK, TypeOK', InProgress, PagesAnswer, [LessonNext]_lessonVars
  PROVE  PagesAnswer'
<1>0. [Next]_vars
  BY EveryStepDecides
<1>n. /\ Len(reservation) \in Nat /\ Len(reservation') \in Nat
      /\ Len(reservation) <= Len(reservation')
  BY <1>0, TableGrows
<1>1. ASSUME UNCHANGED page
      PROVE  PagesAnswer'
  <2>1. ASSUME NEW t \in Tab
        PROVE  /\ page'[t].known \in Nat /\ page'[t].known <= Len(reservation')
               /\ Confirmed(t)'
                    => Answered(reservation', page'[t].lessons, page'[t].robots,
                                page'[t].known, page'[t].clashes)
    <3>1. /\ page[t].known \in Nat /\ page[t].known <= Len(reservation)
          /\ Confirmed(t)
               => Answered(reservation, page[t].lessons, page[t].robots,
                           page[t].known, page[t].clashes)
      BY DEF PagesAnswer
    <3>2. Confirmed(t)' = Confirmed(t)
      BY <1>1 DEF Confirmed
    <3>3. Answered(reservation, page[t].lessons, page[t].robots,
                   page[t].known, page[t].clashes)
            => Answered(reservation', page'[t].lessons, page'[t].robots,
                        page'[t].known, page'[t].clashes)
      BY <1>0, <1>1, <3>1, AnswersLast
    <3>. QED
      BY <1>n, <1>1, <3>1, <3>2, <3>3
  <2>. QED
    BY <1>1, <2>1 DEF PagesAnswer
<1>2. ASSUME NEW t \in Tab, UNCHANGED reservation,
             page' = [page EXCEPT ![t] = page'[t]],
             page'[t].known \in Nat, page'[t].known <= Len(reservation),
             page'[t].clashes # {} =>
               Answered(reservation, page'[t].lessons, page'[t].robots,
                        page'[t].known, page'[t].clashes)
      PROVE  PagesAnswer'
  <2>1. DOMAIN page' = Tab
    BY <1>2 DEF PagesAnswer
  <2>2. ASSUME NEW o \in Tab
        PROVE  /\ page'[o].known \in Nat /\ page'[o].known <= Len(reservation')
               /\ Confirmed(o)'
                    => Answered(reservation', page'[o].lessons, page'[o].robots,
                                page'[o].known, page'[o].clashes)
    <3>1. CASE o = t
      BY <1>2, <3>1 DEF Confirmed, Answered
    <3>2. CASE o # t
      <4>1. page'[o] = page[o]
        BY <1>2, <3>2 DEF PagesAnswer
      <4>. QED
        BY <1>2, <4>1 DEF PagesAnswer, Confirmed, Answered
    <3>. QED
      BY <3>1, <3>2
  <2>. QED
    BY <2>1, <2>2 DEF PagesAnswer
<1>3. ASSUME NEW t \in Tab, UNCHANGED reservation, page' = [page EXCEPT ![t] = NoClashes]
      PROVE  PagesAnswer'
  <2>1. page'[t] = NoClashes
    BY <1>3 DEF PagesAnswer
  <2>2. page' = [page EXCEPT ![t] = page'[t]]
    BY <1>3, <2>1, Zenon
  <2>3. /\ page'[t].known \in Nat /\ page'[t].known <= Len(reservation)
        /\ page'[t].clashes = {}
    BY <1>n, <2>1 DEF NoClashes
  <2>. QED
    BY <1>2, <1>3, <2>2, <2>3
<1>4. ASSUME NEW t \in Tab, NEW lessons \in LessonBatches, NEW robots \in RobotLists,
             ShowClashes(t, lessons, robots)
      PROVE  PagesAnswer'
  <2>. DEFINE clashes == LessonClashes(reservation, lessons, robots)
  <2>1. /\ page' = [page EXCEPT ![t] = Displays(lessons, robots, clashes)]
        /\ UNCHANGED reservation /\ lessons # << >>
    BY <1>4 DEF ShowClashes, Complete
  <2>2. page'[t] = Displays(lessons, robots, clashes)
    BY <2>1 DEF PagesAnswer
  <2>3. Answered(reservation, lessons, robots, Len(reservation), clashes)
    BY <2>1, InputAssumption, CheckIsComplete
  <2>. HIDE DEF clashes
  <2>4. /\ page'[t].lessons = lessons /\ page'[t].robots = robots
        /\ page'[t].clashes = clashes /\ page'[t].known = Len(reservation)
    BY <2>2 DEF Displays
  <2>. QED
    BY <1>n, <1>2, <2>1, <2>2, <2>3, <2>4
<1>. QED
  BY <1>1, <1>3, <1>4
  DEF LessonNext, PageStep, Parse, ReturnRows, CheckImport, CommitImport, LoseImport,
      DeskStep, OutsideStep, pages, lessonVars

\* So does an import that is being written.
LEMMA ImportStaysAnswered ==
  ASSUME TypeOK, TypeOK', InProgress, ImportAnswers, [LessonNext]_lessonVars
  PROVE  ImportAnswers'
<1>0. [Next]_vars
  BY EveryStepDecides
<1>. SUFFICES ASSUME importing' # Nobody, ~ Confirmed(importing.tab)'
              PROVE  /\ Answered(reservation', importing'.lessons, importing'.robots,
                                 importing'.known, {})
                     /\ \A i \in DOMAIN reservation' :
                          i > importing'.known /\ ActiveRow(reservation'[i])
                            /\ reservation'[i].source = "LESSON"
                          => LessonByHand(reservation'[i])
  BY DEF ImportAnswers
<1>1. CASE importing # Nobody
  <2>1. /\ UNCHANGED <<page, importing>>
        /\ OutsideStep \/ UNCHANGED reservation
    BY <1>1, OthersLeavePages
  <2>2. ~ Confirmed(importing.tab)
    BY <2>1 DEF Confirmed
  <2>3. /\ Answered(reservation, importing.lessons, importing.robots, importing.known, {})
        /\ importing.known \in Nat /\ importing.known <= Len(reservation)
    BY <1>1, <2>2 DEF ImportAnswers, InProgress
  <2>4. Answered(reservation', importing'.lessons, importing'.robots,
                 importing'.known, {})
    BY <1>0, <2>1, <2>3, AnswersLast
  <2>5. ASSUME NEW i \in DOMAIN reservation', i > importing.known,
               ActiveRow(reservation'[i]), reservation'[i].source = "LESSON"
        PROVE  LessonByHand(reservation'[i])
    <3>1. CASE i \in DOMAIN reservation
      <4>1. reservation'[i] \in {reservation[i],
                                 [reservation[i] EXCEPT !.status = "CANCELLED"]}
        BY <1>0, <3>1, StepsKeepHistory DEF KeepsHistory
      <4>2. reservation'[i] = reservation[i]
        BY <2>5, <3>1, <4>1, RowType DEF ActiveRow, ReservationRow
      <4>. QED
        BY <1>1, <2>2, <2>5, <3>1, <4>2 DEF ImportAnswers
    <3>2. CASE i \notin DOMAIN reservation
      <4>1. EnteredRow(reservation'[i])
        BY <2>1, <2>5, <3>2, OthersAddNoLessons
      <4>2. PICK r \in Resource, source \in EntrySources, interval \in EntryTimes :
              reservation'[i] = EntryRow(r, source, interval)
        BY <4>1 DEF EnteredRow
      <4>3. source = "LESSON" /\ reservation'[i].resource = r
        BY <2>5, <4>2 DEF EntryRow
      <4>. QED
        BY <4>2, <4>3 DEF LessonByHand
    <3>. QED
      BY <3>1, <3>2
  <2>. QED
    BY <2>1, <2>4, <2>5
<1>2. CASE importing = Nobody
  <2>1. PICK t \in Tab, lessons \in LessonBatches, robots \in RobotLists :
          CheckImport(t, lessons, robots)
    BY <1>2 DEF LessonNext, PageStep, Parse, ReturnRows, ShowClashes, CommitImport,
                LoseImport, DeskStep, OutsideStep, pages, lessonVars
  <2>2. /\ importing'.lessons = lessons /\ importing'.robots = robots
        /\ importing'.tab = t /\ importing'.known = Len(reservation)
        /\ UNCHANGED <<page, reservation>> /\ lessons # << >>
        /\ Confirmed(t) \/ LessonClashes(reservation, lessons, robots) = {}
    BY <2>1 DEF CheckImport, Complete, Importable
  <2>3. LessonClashes(reservation, lessons, robots) = {}
    BY <2>2 DEF Confirmed
  <2>4. Answered(reservation, lessons, robots, Len(reservation), {})
    BY <2>2, <2>3, InputAssumption, CheckIsComplete
  <2>5. \A i \in DOMAIN reservation : ~ (i > Len(reservation))
    BY LenProperties DEF TypeOK
  <2>. QED
    BY <2>2, <2>4, <2>5 DEF Answered
<1>. QED
  BY <1>1, <1>2

\* Rows appear as an import ends only if that is its commit.
LEMMA OnlyCommitsImport ==
  ASSUME [LessonNext]_lessonVars, ImportCommits
  PROVE  CommitImport
BY DEF LessonNext, PageStep, Parse, ReturnRows, ShowClashes, CheckImport, LoopIsFree,
       LoseImport, DeskStep, OutsideStep, pages, lessonVars, ImportCommits

\* An import that staff were not asked to confirm never overlaps a lesson but one
\* entered by hand after its check: a timetable submitted twice finds itself.
THEOREM ImportsKeepApart == LessonSpec => LessonsKeepApart
<1>1. TypeOK /\ InProgress /\ ImportAnswers /\ [LessonNext]_lessonVars
        => [ImportCommits /\ ~ Confirmed(importing.tab)
              => \A n \in Imported : \A i \in OverlappedBy(n) :
                   reservation[i].source = "LESSON"
                     => i > importing.known /\ LessonByHand(reservation[i])]_lessonVars
  <2>. SUFFICES ASSUME TypeOK, InProgress, ImportAnswers, [LessonNext]_lessonVars,
                       ImportCommits, ~ Confirmed(importing.tab),
                       NEW n \in Imported, NEW i \in OverlappedBy(n),
                       reservation[i].source = "LESSON"
                PROVE  i > importing.known /\ LessonByHand(reservation[i])
    OBVIOUS
  <2>1. PICK a \in DOMAIN importing.robots, b \in DOMAIN importing.lessons :
          reservation'[n] = EntryRow(importing.robots[a], "LESSON", importing.lessons[b])
    BY OnlyCommitsImport, ImportAddsItsRows DEF ImportCommits, Imported
  <2>2. /\ i \in DOMAIN reservation /\ ActiveRow(reservation[i])
        /\ reservation[i].resource = importing.robots[a]
        /\ Overlaps(reservation[i], importing.lessons[b])
    BY <2>1 DEF OverlappedBy, EntryRow, Overlaps
  <2>3. ~ (i <= importing.known)
    BY <2>2 DEF ImportCommits, ImportAnswers, Answered
  <2>4. i \in Int /\ importing.known \in Int
    BY <2>2, LenProperties DEF ImportCommits, InProgress, TypeOK
  <2>5. i > importing.known
    BY <2>3, <2>4
  <2>. QED
    BY <2>2, <2>5 DEF ImportCommits, ImportAnswers
<1>2. LessonInit => InProgress /\ ImportAnswers
  BY DEF LessonInit, InProgress, ImportAnswers
<1>3. InProgress /\ ImportAnswers /\ TypeOK /\ TypeOK' /\ [LessonNext]_lessonVars
        => InProgress' /\ ImportAnswers'
  BY ImportStaysValid, ImportStaysAnswered
<1>. QED
  BY <1>1, <1>2, <1>3, ImportIsADecision, TypeCorrect, PTL DEF LessonSpec, LessonsKeepApart

\* What an import overlaps without having shown it came after the check of the
\* submission, or after the page whose clashes were confirmed, unless the rows
\* were corrected on that page.
THEOREM UnseenClashesAreNewer == LessonSpec => UnseenClashIsNewer
<1>1. TypeOK /\ InProgress /\ PagesAnswer /\ ImportAnswers /\ [LessonNext]_lessonVars
        => [ImportCommits =>
              LET shown == page[importing.tab]
              IN  \A n \in Imported : \A i \in OverlappedBy(n) :
                    \/ i > importing.known
                    \/ /\ Confirmed(importing.tab)
                       /\ \/ <<shown.lessons, shown.robots>>
                                # <<importing.lessons, importing.robots>>
                          \/ i > shown.known
                          \/ \E c \in shown.clashes :
                               c.entry = i /\ c.robot = reservation'[n].resource]_lessonVars
  <2>. DEFINE shown == page[importing.tab]
  <2>. SUFFICES ASSUME TypeOK, InProgress, PagesAnswer, ImportAnswers,
                       [LessonNext]_lessonVars, ImportCommits,
                       NEW n \in Imported, NEW i \in OverlappedBy(n),
                       ~ (i > importing.known)
                PROVE  /\ Confirmed(importing.tab)
                       /\ \/ <<shown.lessons, shown.robots>>
                                # <<importing.lessons, importing.robots>>
                          \/ i > shown.known
                          \/ \E c \in shown.clashes :
                               c.entry = i /\ c.robot = reservation'[n].resource
    OBVIOUS
  <2>1. PICK a \in DOMAIN importing.robots, b \in DOMAIN importing.lessons :
          reservation'[n] = EntryRow(importing.robots[a], "LESSON", importing.lessons[b])
    BY OnlyCommitsImport, ImportAddsItsRows DEF ImportCommits, Imported
  <2>2. /\ i \in DOMAIN reservation /\ ActiveRow(reservation[i])
        /\ reservation[i].resource = importing.robots[a]
        /\ reservation'[n].resource = importing.robots[a]
        /\ Overlaps(reservation[i], importing.lessons[b])
    BY <2>1 DEF OverlappedBy, EntryRow, Overlaps
  <2>3. /\ i \in Int /\ importing.known \in Int /\ importing.tab \in Tab
        /\ shown.known \in Int
    BY <2>2, LenProperties DEF ImportCommits, InProgress, PagesAnswer, TypeOK
  <2>4. Confirmed(importing.tab)
    BY <2>2, <2>3 DEF ImportCommits, ImportAnswers, Answered
  <2>5. ASSUME shown.lessons = importing.lessons, shown.robots = importing.robots,
               i <= shown.known
        PROVE  \E c \in shown.clashes : c.entry = i /\ c.robot = reservation'[n].resource
    <3>1. Answered(reservation, shown.lessons, shown.robots, shown.known, shown.clashes)
      BY <2>3, <2>4 DEF PagesAnswer
    <3>. QED
      BY <2>2, <2>5, <3>1 DEF Answered
  <2>. QED
    BY <2>3, <2>4, <2>5
<1>2. LessonInit => InProgress /\ PagesAnswer /\ ImportAnswers
  BY EmptySeq DEF LessonInit, Init, InProgress, PagesAnswer, ImportAnswers, NoClashes,
                  Confirmed
<1>3. InProgress /\ PagesAnswer /\ ImportAnswers /\ TypeOK /\ TypeOK'
        /\ [LessonNext]_lessonVars
        => InProgress' /\ PagesAnswer' /\ ImportAnswers'
  BY ImportStaysValid, PagesStayAnswered, ImportStaysAnswered
<1>. QED
  BY <1>1, <1>2, <1>3, ImportIsADecision, TypeCorrect, PTL
  DEF LessonSpec, UnseenClashIsNewer

-----------------------------------------------------------------------------
(* The hand-back notice                                                    *)

\* A set of numbers has a least one.
LEMMA LeastNumber ==
  ASSUME NEW T \in SUBSET Nat, T # {}
  PROVE  \E m \in T : \A n \in T : m <= n
<1>1. PICK m \in T : \A n \in T : <<n, m>> \notin OpToRel(<, Nat)
  BY NatLessThanWellFounded, WFMin
<1>2. ASSUME NEW n \in T
      PROVE  m <= n
  <2>1. ~ (n < m)
    BY <1>1 DEF OpToRel
  <2>. QED
    BY <2>1
<1>. QED
  BY <1>2

\* f is defined step by step, on 0..N.
TakesSteps(N, base, step, f) ==
  f = [n \in 0 .. N |-> IF n = 0 THEN base ELSE step[n][f[n - 1]]]

\* There is such a function, and if every step leads from one set to the next, its
\* values lie in these sets.
LEMMA RecursiveFunction ==
  ASSUME NEW N \in Nat, NEW S, NEW base \in S[0], NEW step,
         \A n \in 1 .. N : \A x \in S[n - 1] : step[n][x] \in S[n]
  PROVE  \E f : TakesSteps(N, base, step, f) /\ \A n \in 0 .. N : f[n] \in S[n]
<1> DEFINE Upto(m, f) == /\ DOMAIN f = 0 .. m
                         /\ f = [n \in DOMAIN f |-> f[n]]
                         /\ f[0] = base
                         /\ \A n \in 1 .. m : f[n] = step[n][f[n - 1]]
           Built == {m \in 0 .. N : \E f : Upto(m, f)}
           Lacking == (0 .. N) \ Built
<1>1. Lacking = {}
  <2>1. SUFFICES ASSUME Lacking # {} PROVE FALSE
    OBVIOUS
  <2>2. PICK m \in Lacking : \A n \in Lacking : m <= n
    <3>1. Lacking \in SUBSET Nat
      OBVIOUS
    <3>. HIDE DEF Lacking
    <3>. QED
      BY <2>1, <3>1, LeastNumber
  <2>3. CASE m = 0
    <3>1. Upto(0, [n \in 0 .. 0 |-> base])
      OBVIOUS
    <3> QED
      BY <2>3, <3>1, <2>2
  <2>4. CASE m # 0
    <3>1. PICK f : Upto(m - 1, f)
      BY <2>2, <2>4
    <3> DEFINE g == [n \in 0 .. m |-> IF n = m THEN step[m][f[m - 1]] ELSE f[n]]
    <3>2. Upto(m, g)
      BY <3>1, <2>4
    <3> QED
      BY <3>2, <2>2
  <2> QED
    BY <2>3, <2>4
<1>2. PICK f : Upto(N, f)
  BY <1>1
<1>3. f = [n \in 0 .. N |-> IF n = 0 THEN base ELSE step[n][f[n - 1]]]
  BY <1>2
<1>4. \A n \in 0 .. N : f[n] \in S[n]
  <2> DEFINE Outside == {n \in 0 .. N : f[n] \notin S[n]}
  <2>1. SUFFICES ASSUME Outside # {} PROVE FALSE
    OBVIOUS
  <2>2. PICK m \in Outside : \A n \in Outside : m <= n
    <3>1. Outside \in SUBSET Nat
      OBVIOUS
    <3>. HIDE DEF Outside
    <3>. QED
      BY <2>1, <3>1, LeastNumber
  <2>3. f[0] = base
    BY <1>3
  <2>4. m # 0
    BY <2>3, <2>2
  <2>5. f[m - 1] \in S[m - 1]
    BY <2>2, <2>4
  <2>6. f[m] = step[m][f[m - 1]]
    BY <1>3, <2>4
  <2> QED
    BY <2>2, <2>4, <2>5, <2>6
<1> QED
  BY <1>3, <1>4 DEF TakesSteps

\* The slots of a loan fall on days from that of the first to that of the last.
LEMMA SlotsStayInTheirDays ==
  ASSUME NEW p \in Period, NEW k \in DOMAIN ExpandSlots(p)
  PROVE  LET slots == ExpandSlots(p)
         IN  /\ DayOf(slots[k]) \in Int
             /\ DayOf(slots[1]) \in Int /\ DayOf(slots[Len(slots)]) \in Int
             /\ DayOf(slots[1]) <= DayOf(slots[k])
             /\ DayOf(slots[k]) <= DayOf(slots[Len(slots)])
<1>. DEFINE slots == ExpandSlots(p)
            last == Len(slots)
<1>1. slots \in Seq(Slot) /\ last \in Nat /\ DOMAIN slots = 1 .. last
  BY ExpandSlotsType, LenProperties
<1>2. k \in 1 .. last /\ 1 \in DOMAIN slots /\ last \in DOMAIN slots
  BY <1>1
<1>3. p.startDate \in Int
  BY DEF Period
<1>. HIDE DEF slots, last
<1>4. CASE OneSessionADay(slots, p.startDate)
  <2>1. PICK s \in Session : \A n \in DOMAIN slots : slots[n] = SlotOn(p.startDate + (n - 1), s)
    BY <1>4 DEF OneSessionADay
  <2>2. \A n \in DOMAIN slots : DayOf(slots[n]) = p.startDate + (n - 1)
    <3>. SUFFICES ASSUME NEW n \in DOMAIN slots
                  PROVE  DayOf(slots[n]) = p.startDate + (n - 1)
      OBVIOUS
    <3>1. p.startDate + (n - 1) \in Int
      BY <1>1, <1>3
    <3>. QED
      BY <2>1, <3>1, SlotsLieInTheirCells
  <2>3. /\ DayOf(slots[1]) = p.startDate + (1 - 1)
        /\ DayOf(slots[k]) = p.startDate + (k - 1)
        /\ DayOf(slots[last]) = p.startDate + (last - 1)
    BY <1>1, <1>2, <2>2
  <2>. QED
    BY <1>1, <1>2, <1>3, <2>3 DEF slots, last
<1>5. CASE BothSessionsADay(slots, p.startDate)
  <2>1. \A n \in DOMAIN slots : DayOf(slots[n]) = p.startDate + ((n - 1) \div 2)
    <3>. SUFFICES ASSUME NEW n \in DOMAIN slots
                  PROVE  DayOf(slots[n]) = p.startDate + ((n - 1) \div 2)
      OBVIOUS
    <3>1. p.startDate + ((n - 1) \div 2) \in Int
      BY <1>1, <1>3
    <3>2. PICK s \in Session : slots[n] = SlotOn(p.startDate + ((n - 1) \div 2), s)
      BY <1>5 DEF BothSessionsADay, Session
    <3>. QED
      BY <3>1, <3>2, SlotsLieInTheirCells
  <2>2. /\ DayOf(slots[1]) = p.startDate + ((1 - 1) \div 2)
        /\ DayOf(slots[k]) = p.startDate + ((k - 1) \div 2)
        /\ DayOf(slots[last]) = p.startDate + ((last - 1) \div 2)
    BY <1>1, <1>2, <2>1
  <2>. QED
    BY <1>1, <1>2, <1>3, <2>2 DEF slots, last
<1>. QED
  BY <1>4, <1>5, SlotsByDay DEF slots, last

\* The slots that something is in the way of.
BlockedSlots(slots, conflicts) == {k \in DOMAIN slots : conflicts[k] # {}}

\* The blocked slots that a run speaks of.
Held(slots, conflicts, run) ==
  {k \in BlockedSlots(slots, conflicts) : DayOf(slots[k]) \in run.start .. run.end}

KindsOf(table, conflicts, held) == {table[i].source : i \in UNION {conflicts[k] : k \in held}}

\* A run is a stretch of blocked days that cannot begin earlier, with the sessions
\* and the kinds of its slots.
RunIsRight(table, slots, conflicts, run) ==
  /\ run.start \in Int /\ run.end \in Int /\ run.start <= run.end
  /\ run.start - 1 \notin BlockedDays(slots, conflicts)
  /\ run.start .. run.end \subseteq BlockedDays(slots, conflicts)
  /\ run.sessions = {SessionOf(slots[k]) : k \in Held(slots, conflicts, run)}
  /\ run.kinds = KindsOf(table, conflicts, Held(slots, conflicts, run))

\* No restriction on what a run names.
BlockedRun(table, slots, conflicts) ==
  [start : Int, end : Int,
   sessions : SUBSET {SessionOf(slots[k]) : k \in DOMAIN slots},
   kinds : SUBSET KindsOf(table, conflicts, DOMAIN slots)]

\* The blocked days before a certain one are in runs.
RunsBefore(table, slots, conflicts, day) ==
  {runs \in Seq(BlockedRun(table, slots, conflicts)) :
     /\ \A n \in DOMAIN runs :
          RunIsRight(table, slots, conflicts, runs[n]) /\ runs[n].end < day
     /\ \A d \in BlockedDays(slots, conflicts) : d < day =>
          /\ \E n \in DOMAIN runs : d \in runs[n].start .. runs[n].end
          /\ runs # << >> /\ d <= runs[Len(runs)].end}

\* A day on its own.
LEMMA OneDayRun ==
  ASSUME NEW table, NEW slots, NEW conflicts, NEW day \in BlockedDays(slots, conflicts),
         day \in Int
  PROVE  LET run == BlockedDay(table, slots, conflicts, day)
         IN  /\ run \in BlockedRun(table, slots, conflicts)
             /\ run.start = day /\ run.end = day
             /\ run.sessions = {SessionOf(slots[k]) : k \in Held(slots, conflicts, run)}
             /\ run.kinds = KindsOf(table, conflicts, Held(slots, conflicts, run))
<1>. DEFINE run == BlockedDay(table, slots, conflicts, day)
            held == {k \in DOMAIN slots : DayOf(slots[k]) = day /\ conflicts[k] # {}}
<1>1. /\ run.start = day /\ run.end = day
      /\ run.sessions = {SessionOf(slots[k]) : k \in held}
      /\ run.kinds = KindsOf(table, conflicts, held)
      /\ run = [start |-> day, end |-> day, sessions |-> run.sessions, kinds |-> run.kinds]
  BY DEF BlockedDay, KindsOf
<1>. HIDE DEF run
<1>2. day .. day = {day}
  OBVIOUS
<1>3. Held(slots, conflicts, run) = held
  <2>1. \A d : d \in run.start .. run.end <=> d = day
    BY <1>1, <1>2
  <2>. QED
    BY <2>1, Zenon DEF Held, BlockedSlots
<1>4. /\ run.sessions \subseteq {SessionOf(slots[k]) : k \in DOMAIN slots}
      /\ run.kinds \subseteq KindsOf(table, conflicts, DOMAIN slots)
  BY <1>1 DEF KindsOf
<1>. HIDE DEF held
<1>5. run \in BlockedRun(table, slots, conflicts)
  BY <1>1, <1>4 DEF BlockedRun
<1>. QED
  BY <1>1, <1>3, <1>5 DEF run

\* A run that ends on the day before goes on.
LEMMA RunGoesOn ==
  ASSUME NEW table, NEW slots, NEW conflicts, NEW day \in BlockedDays(slots, conflicts),
         day \in Int, NEW run \in BlockedRun(table, slots, conflicts),
         RunIsRight(table, slots, conflicts, run), day - run.end = 1,
         NEW longer,
         LET blocked == BlockedDay(table, slots, conflicts, day)
         IN  /\ longer.start = run.start /\ longer.end = day
             /\ longer.sessions = run.sessions \union blocked.sessions
             /\ longer.kinds = run.kinds \union blocked.kinds
  PROVE  RunIsRight(table, slots, conflicts, longer)
<1>. DEFINE blocked == BlockedDay(table, slots, conflicts, day)
            H(r) == Held(slots, conflicts, r)
<1>1. /\ blocked \in BlockedRun(table, slots, conflicts)
      /\ blocked.start = day /\ blocked.end = day
      /\ blocked.sessions = {SessionOf(slots[k]) : k \in H(blocked)}
      /\ blocked.kinds = KindsOf(table, conflicts, H(blocked))
  BY OneDayRun
<1>2. /\ longer.start = run.start /\ longer.end = day
      /\ longer.sessions = run.sessions \union blocked.sessions
      /\ longer.kinds = run.kinds \union blocked.kinds
  OBVIOUS
<1>. HIDE DEF blocked
<1>3. /\ run.start \in Int /\ run.end \in Int /\ run.start <= run.end
      /\ run.start - 1 \notin BlockedDays(slots, conflicts)
      /\ run.start .. run.end \subseteq BlockedDays(slots, conflicts)
      /\ run.sessions = {SessionOf(slots[k]) : k \in H(run)}
      /\ run.kinds = KindsOf(table, conflicts, H(run))
  BY DEF RunIsRight
<1>4. longer.start \in Int /\ longer.end \in Int /\ longer.start <= longer.end
  BY <1>2, <1>3
<1>5. \A d : d \in longer.start .. longer.end <=>
               d \in run.start .. run.end \/ d \in blocked.start .. blocked.end
  BY <1>1, <1>2, <1>3
<1>6. H(longer) = H(run) \union H(blocked)
  BY <1>5, Zenon DEF Held
<1>7. longer.sessions = {SessionOf(slots[k]) : k \in H(longer)}
  BY <1>1, <1>2, <1>3, <1>6
<1>8. longer.kinds = KindsOf(table, conflicts, H(longer))
  <2>1. \A a, b : KindsOf(table, conflicts, a \union b)
                   = KindsOf(table, conflicts, a) \union KindsOf(table, conflicts, b)
    BY DEF KindsOf
  <2>. QED
    BY <1>1, <1>2, <1>3, <1>6, <2>1
<1>9. longer.start .. longer.end \subseteq BlockedDays(slots, conflicts)
  BY <1>1, <1>3, <1>5
<1>. QED
  BY <1>2, <1>3, <1>4, <1>7, <1>8, <1>9 DEF RunIsRight

\* A day with nothing in the way changes nothing.
LEMMA RunsSkipADay ==
  ASSUME NEW table, NEW slots, NEW conflicts, NEW day \in Int,
         \A d \in BlockedDays(slots, conflicts) : d \in Int,
         day \notin BlockedDays(slots, conflicts),
         NEW runs \in RunsBefore(table, slots, conflicts, day)
  PROVE  runs \in RunsBefore(table, slots, conflicts, day + 1)
<1>1. \A n \in DOMAIN runs : runs[n].end \in Int
  BY DEF RunsBefore, RunIsRight
<1>2. \A d \in BlockedDays(slots, conflicts) : d < day + 1 => d < day
  OBVIOUS
<1>. QED
  BY <1>1, <1>2 DEF RunsBefore

\* A blocked day goes with the last run or begins another.
LEMMA RunsTakeADay ==
  ASSUME NEW table, NEW slots, NEW conflicts, NEW day \in BlockedDays(slots, conflicts),
         \A d \in BlockedDays(slots, conflicts) : d \in Int,
         NEW runs \in RunsBefore(table, slots, conflicts, day)
  PROVE  Grow(runs, BlockedDay(table, slots, conflicts, day))
           \in RunsBefore(table, slots, conflicts, day + 1)
<1>. DEFINE blocked == BlockedDay(table, slots, conflicts, day)
            days == BlockedDays(slots, conflicts)
            Run == BlockedRun(table, slots, conflicts)
            Right(run) == RunIsRight(table, slots, conflicts, run)
            last == runs[Len(runs)]
            grown == Grow(runs, blocked)
<1>1. /\ blocked \in Run
      /\ blocked.start = day /\ blocked.end = day
      /\ blocked.sessions = {SessionOf(slots[k]) : k \in Held(slots, conflicts, blocked)}
      /\ blocked.kinds = KindsOf(table, conflicts, Held(slots, conflicts, blocked))
  BY OneDayRun
<1>2. /\ runs \in Seq(Run) /\ day \in Int
      /\ \A n \in DOMAIN runs : Right(runs[n]) /\ runs[n].end < day
      /\ \A d \in days : d < day =>
           /\ \E n \in DOMAIN runs : d \in runs[n].start .. runs[n].end
           /\ runs # << >> /\ d <= last.end
  BY DEF RunsBefore
<1>3. /\ DOMAIN runs = 1 .. Len(runs) /\ Len(runs) \in Nat
      /\ \A n \in DOMAIN runs : /\ runs[n] \in Run
                                /\ runs[n].start \in Int /\ runs[n].end \in Int
      /\ runs # << >> => Len(runs) \in DOMAIN runs
  <2>1. DOMAIN runs = 1 .. Len(runs) /\ Len(runs) \in Nat
    BY <1>2, LenProperties
  <2>2. \A n \in DOMAIN runs : runs[n] \in Run
    BY <1>2, <2>1, ElementOfSeq
  <2>3. \A n \in DOMAIN runs : runs[n].start \in Int /\ runs[n].end \in Int
    BY <1>2 DEF RunIsRight
  <2>4. runs # << >> => Len(runs) \in DOMAIN runs
    BY <1>2, <2>1, EmptySeq
  <2>. QED
    BY <2>1, <2>2, <2>3, <2>4
<1>4. \A d \in days : d < day + 1 => d < day \/ d = day
  BY <1>2
<1>. HIDE DEF blocked, Run, Right, last, grown, days
<1>5. CASE runs # << >> /\ blocked.start - last.end = 1
  <2>. DEFINE longer == [last EXCEPT !.end = blocked.end,
                                     !.sessions = @ \union blocked.sessions,
                                     !.kinds = @ \union blocked.kinds]
  <2>1. last \in Run /\ Right(last) /\ last.end \in Int /\ last.start \in Int
    BY <1>2, <1>3, <1>5 DEF last
  <2>2. longer \in Run /\ Right(longer) /\ longer.start = last.start /\ longer.end = day
    <3>1. /\ longer.start = last.start /\ longer.end = day
          /\ longer.sessions = last.sessions \union blocked.sessions
          /\ longer.kinds = last.kinds \union blocked.kinds
      BY <1>1, <2>1 DEF Run, BlockedRun
    <3>2. longer \in Run
      BY <1>1, <2>1 DEF Run, BlockedRun
    <3>. HIDE DEF longer
    <3>3. Right(longer)
      BY <1>1, <1>2, <1>5, <2>1, <3>1, RunGoesOn DEF Run, Right, blocked
    <3>. QED
      BY <3>1, <3>2, <3>3
  <2>3. grown = [runs EXCEPT ![Len(runs)] = longer]
    <3>1. grown = [runs EXCEPT ![Len(runs)].end = blocked.end,
                               ![Len(runs)].sessions = @ \union blocked.sessions,
                               ![Len(runs)].kinds = @ \union blocked.kinds]
      BY <1>1, <1>5 DEF grown, Grow, last
    <3>. QED
      BY <1>2, <1>3, <1>5, <3>1 DEF last
  <2>. HIDE DEF longer
  <2>5. /\ grown \in Seq(Run) /\ DOMAIN grown = DOMAIN runs /\ Len(grown) = Len(runs)
        /\ \A n \in DOMAIN runs : grown[n] = IF n = Len(runs) THEN longer ELSE runs[n]
    BY <1>2, <1>3, <1>5, <2>2, <2>3
  <2>6. \A n \in DOMAIN grown : Right(grown[n]) /\ grown[n].end < day + 1
    BY <1>2, <1>3, <2>2, <2>5
  <2>7. ASSUME NEW d \in days, d < day + 1
        PROVE  \E n \in DOMAIN grown : d \in grown[n].start .. grown[n].end
    <3>1. CASE d = day
      <4>1. longer.start <= day
        BY <2>2 DEF Right, RunIsRight
      <4>. QED
        BY <1>2, <1>3, <1>5, <2>1, <2>2, <2>5, <3>1, <4>1
    <3>2. CASE d < day
      <4>1. PICK n \in DOMAIN runs : d \in runs[n].start .. runs[n].end
        BY <1>2, <3>2
      <4>2. CASE n = Len(runs)
        BY <1>2, <1>3, <2>1, <2>2, <2>5, <3>2, <4>1, <4>2 DEF last
      <4>3. CASE n # Len(runs)
        BY <2>5, <4>1, <4>3
      <4>. QED
        BY <4>2, <4>3
    <3>. QED
      BY <1>4, <2>7, <3>1, <3>2
  <2>8. \A d \in days : d < day + 1 => grown # << >> /\ d <= grown[Len(grown)].end
    <3>1. grown # << >>
      BY <1>3, <1>5, <2>5
    <3>2. grown[Len(grown)].end = day
      BY <1>3, <1>5, <2>2, <2>5
    <3>. QED
      BY <1>2, <1>4, <3>1, <3>2
  <2>. QED
    BY <2>5, <2>6, <2>7, <2>8 DEF RunsBefore, Run, Right, days, grown, blocked
<1>6. CASE ~ (runs # << >> /\ blocked.start - last.end = 1)
  <2>1. grown = Append(runs, blocked)
    BY <1>6, Zenon DEF grown, Grow, last
  <2>2. day - 1 \notin days
    <3>. SUFFICES ASSUME day - 1 \in days
                  PROVE  FALSE
      OBVIOUS
    <3>1. runs # << >> /\ day - 1 <= last.end
      BY <1>2
    <3>2. last.end < day /\ last.end \in Int
      BY <1>2, <1>3, <3>1 DEF last
    <3>3. day - last.end = 1
      BY <1>2, <3>1, <3>2
    <3>. QED
      BY <1>1, <1>6, <3>1, <3>3
  <2>3. Right(blocked)
    <3>1. day .. day = {day} /\ day \in days
      BY <1>2 DEF days
    <3>. QED
      BY <1>1, <1>2, <2>2, <3>1 DEF Right, RunIsRight, days
  <2>4. /\ grown \in Seq(Run) /\ DOMAIN grown = 1 .. (Len(runs) + 1)
        /\ Len(grown) = Len(runs) + 1 /\ grown # << >>
        /\ \A n \in DOMAIN runs : grown[n] = runs[n]
        /\ grown[Len(runs) + 1] = blocked
    BY <1>1, <1>2, <1>3, <2>1
  <2>5. \A n \in DOMAIN grown : n \in DOMAIN runs \/ n = Len(runs) + 1
    BY <1>3, <2>4
  <2>6. \A n \in DOMAIN grown : Right(grown[n]) /\ grown[n].end < day + 1
    BY <1>1, <1>2, <1>3, <2>3, <2>4, <2>5
  <2>7. ASSUME NEW d \in days, d < day + 1
        PROVE  \E n \in DOMAIN grown : d \in grown[n].start .. grown[n].end
    <3>1. CASE d = day
      BY <1>1, <1>2, <1>3, <2>4, <3>1
    <3>2. CASE d < day
      <4>1. PICK n \in DOMAIN runs : d \in runs[n].start .. runs[n].end
        BY <1>2, <3>2
      <4>. QED
        BY <1>3, <2>4, <4>1
    <3>. QED
      BY <1>4, <2>7, <3>1, <3>2
  <2>8. \A d \in days : d < day + 1 => grown # << >> /\ d <= grown[Len(grown)].end
    BY <1>1, <1>2, <1>4, <2>4
  <2>. QED
    BY <2>4, <2>6, <2>7, <2>8 DEF RunsBefore, Run, Right, days, grown, blocked
<1>. QED
  BY <1>5, <1>6

\* What RunsOfDays is defined by.
IsRunsOfDays(table, slots, conflicts, f) ==
  f = [n \in 0 .. Length(slots) |->
         CASE n = 0 -> << >>
           [] n # 0 /\ NthDay(slots, n) \in BlockedDays(slots, conflicts) ->
                Grow(f[n - 1], BlockedDay(table, slots, conflicts, NthDay(slots, n)))
           [] OTHER -> f[n - 1]]

\* One day further.
NextRuns(table, slots, conflicts, n, runs) ==
  IF NthDay(slots, n) \in BlockedDays(slots, conflicts)
    THEN Grow(runs, BlockedDay(table, slots, conflicts, NthDay(slots, n)))
    ELSE runs

\* Days are numbers, and none is before the first slot.
DaysAreNumbers(slots, conflicts) ==
  /\ DayOf(slots[1]) \in Int /\ Length(slots) \in Nat
  /\ \A d \in BlockedDays(slots, conflicts) : d \in Int /\ DayOf(slots[1]) <= d

\* One more blocked day either lengthens the last run or opens a new one, and
\* the runs stay right.
LEMMA NextRunsAreRight ==
  ASSUME NEW table, NEW slots, NEW conflicts, DaysAreNumbers(slots, conflicts),
         NEW n \in 1 .. Length(slots),
         NEW runs \in RunsBefore(table, slots, conflicts, NthDay(slots, n))
  PROVE  NextRuns(table, slots, conflicts, n, runs)
           \in RunsBefore(table, slots, conflicts, NthDay(slots, n + 1))
<1>. DEFINE day == NthDay(slots, n)
<1>1. day \in Int /\ NthDay(slots, n + 1) = day + 1
  BY DEF NthDay, DaysAreNumbers
<1>2. \A d \in BlockedDays(slots, conflicts) : d \in Int
  BY DEF DaysAreNumbers
<1>. HIDE DEF day
<1>3. runs \in RunsBefore(table, slots, conflicts, day)
  BY DEF day
<1>4. CASE day \in BlockedDays(slots, conflicts)
  <2>1. NextRuns(table, slots, conflicts, n, runs)
          = Grow(runs, BlockedDay(table, slots, conflicts, day))
    BY <1>4 DEF NextRuns, day
  <2>. QED
    BY <1>1, <1>2, <1>3, <1>4, <2>1, RunsTakeADay
<1>5. CASE day \notin BlockedDays(slots, conflicts)
  <2>1. NextRuns(table, slots, conflicts, n, runs) = runs
    BY <1>5 DEF NextRuns, day
  <2>. QED
    BY <1>1, <1>2, <1>3, <1>5, <2>1, RunsSkipADay
<1>. QED
  BY <1>4, <1>5

\* Before the first day of the period there is no run, and that is right.
LEMMA NoRunsBeforeTheFirstDay ==
  ASSUME NEW table, NEW slots, NEW conflicts, DaysAreNumbers(slots, conflicts)
  PROVE  << >> \in RunsBefore(table, slots, conflicts, NthDay(slots, 1))
<1>1. NthDay(slots, 1) = DayOf(slots[1])
  BY DEF NthDay, DaysAreNumbers
<1>2. \A d \in BlockedDays(slots, conflicts) : ~ (d < NthDay(slots, 1))
  BY <1>1 DEF DaysAreNumbers
<1>. QED
  BY <1>2 DEF RunsBefore

\* The recursion of RunsOfDays is well defined.
LEMMA RunsOfDaysExist ==
  ASSUME NEW table, NEW slots, NEW conflicts, DaysAreNumbers(slots, conflicts)
  PROVE  IsRunsOfDays(table, slots, conflicts, RunsOfDays(table, slots, conflicts))
<1>. DEFINE N == Length(slots)
            S == [n \in 0 .. N |-> RunsBefore(table, slots, conflicts, NthDay(slots, n + 1))]
            Next1(n, runs) == NextRuns(table, slots, conflicts, n, runs)
            base == << >>
            step == [n \in 1 .. N |-> [runs \in S[n - 1] |-> Next1(n, runs)]]
<1>1. N \in Nat
  BY DEF DaysAreNumbers
<1>2. base \in S[0]
  BY <1>1, NoRunsBeforeTheFirstDay
<1>3. ASSUME NEW n \in 1 .. N, NEW runs \in S[n - 1]
      PROVE  step[n][runs] \in S[n]
  <2>1. /\ runs \in RunsBefore(table, slots, conflicts, NthDay(slots, n))
        /\ S[n] = RunsBefore(table, slots, conflicts, NthDay(slots, n + 1))
    <3>1. (n - 1) + 1 = n /\ n - 1 \in 0 .. N /\ n \in 0 .. N
      BY <1>1
    <3>2. S[n - 1] = RunsBefore(table, slots, conflicts, NthDay(slots, (n - 1) + 1))
      BY <3>1
    <3>. QED
      BY <3>1, <3>2
  <2>2. step[n][runs] = Next1(n, runs)
    OBVIOUS
  <2>3. Next1(n, runs) \in RunsBefore(table, slots, conflicts, NthDay(slots, n + 1))
    BY <2>1, NextRunsAreRight
  <2>. QED
    BY <2>1, <2>2, <2>3
<1>4. PICK f : TakesSteps(N, base, step, f) /\ \A n \in 0 .. N : f[n] \in S[n]
  <2>. HIDE DEF N, S, step, base, Next1
  <2>1. \A n \in 1 .. N : \A runs \in S[n - 1] : step[n][runs] \in S[n]
    BY <1>3
  <2>. QED
    BY <1>1, <1>2, <2>1, RecursiveFunction
<1>5. \A n \in 1 .. N : step[n][f[n - 1]] = Next1(n, f[n - 1])
  <2>. SUFFICES ASSUME NEW n \in 1 .. N
                PROVE  step[n][f[n - 1]] = Next1(n, f[n - 1])
    OBVIOUS
  <2>1. n - 1 \in 0 .. N
    BY <1>1
  <2>2. f[n - 1] \in S[n - 1]
    BY <1>4, <2>1
  <2>. QED
    BY <2>2
<1>6. IsRunsOfDays(table, slots, conflicts, f)
  <2>. DEFINE F(n) == IF n = 0 THEN base ELSE step[n][f[n - 1]]
              G(n) == CASE n = 0 -> << >>
                        [] n # 0 /\ NthDay(slots, n) \in BlockedDays(slots, conflicts) ->
                             Grow(f[n - 1], BlockedDay(table, slots, conflicts, NthDay(slots, n)))
                        [] OTHER -> f[n - 1]
  <2>1. \A n \in 0 .. N : F(n) = G(n)
    <3>. HIDE DEF N, S, step, Next1
    <3>1. \A n \in 0 .. N : n # 0 => n \in 1 .. N
      BY <1>1
    <3>2. \A n \in 0 .. N : n # 0 => G(n) = Next1(n, f[n - 1])
      BY DEF NextRuns, Next1
    <3>. QED
      BY <1>5, <3>1, <3>2
  <2>2. f = [n \in 0 .. N |-> F(n)]
    BY <1>4 DEF TakesSteps
  <2>3. f = [n \in 0 .. N |-> G(n)]
    <3>. HIDE DEF F, G, N
    <3>. QED
      BY <2>1, <2>2
  <2>. QED
    BY <2>3 DEF IsRunsOfDays
<1>. QED
  BY <1>6 DEF RunsOfDays, IsRunsOfDays

\* All of its values are right.
LEMMA RunsOfDaysAreRight ==
  ASSUME NEW table, NEW slots, NEW conflicts, DaysAreNumbers(slots, conflicts)
  PROVE  RunsOfDays(table, slots, conflicts)[Length(slots)]
           \in RunsBefore(table, slots, conflicts, NthDay(slots, Length(slots) + 1))
<1>. DEFINE N == Length(slots)
            f == RunsOfDays(table, slots, conflicts)
            Next1(n, runs) == NextRuns(table, slots, conflicts, n, runs)
            S(n) == RunsBefore(table, slots, conflicts, NthDay(slots, n + 1))
            Outside == {n \in 0 .. N : f[n] \notin S(n)}
<1>1. N \in Nat
  BY DEF DaysAreNumbers
<1>2. f = [n \in 0 .. N |->
             CASE n = 0 -> << >>
               [] n # 0 /\ NthDay(slots, n) \in BlockedDays(slots, conflicts) ->
                    Grow(f[n - 1], BlockedDay(table, slots, conflicts, NthDay(slots, n)))
               [] OTHER -> f[n - 1]]
  <2>1. IsRunsOfDays(table, slots, conflicts, f)
    BY RunsOfDaysExist
  <2>. HIDE DEF f
  <2>. QED
    BY <2>1 DEF IsRunsOfDays
<1>. HIDE DEF f
<1>3. f[0] = << >>
  <2>1. 0 \in 0 .. N
    BY <1>1
  <2>. QED
    BY <1>2, <2>1
<1>4. \A n \in 1 .. N : f[n] = Next1(n, f[n - 1])
  <2>. SUFFICES ASSUME NEW n \in 1 .. N PROVE f[n] = Next1(n, f[n - 1])
    OBVIOUS
  <2>1. n \in 0 .. N /\ n # 0
    BY <1>1
  <2>. QED
    BY <1>2, <2>1 DEF NextRuns
<1>. HIDE DEF N
<1>5. << >> \in S(0)
  BY NoRunsBeforeTheFirstDay
<1>6. \A n, runs : n \in 1 .. N /\ runs \in S(n - 1) => Next1(n, runs) \in S(n)
  <2>. SUFFICES ASSUME NEW n \in 1 .. N, NEW runs \in S(n - 1)
                PROVE  Next1(n, runs) \in S(n)
    OBVIOUS
  <2>1. (n - 1) + 1 = n
    OBVIOUS
  <2>2. runs \in RunsBefore(table, slots, conflicts, NthDay(slots, n))
    BY <2>1
  <2>. QED
    BY <2>2, NextRunsAreRight DEF N
<1>. HIDE DEF Next1, S
<1>7. Outside = {}
  <2>1. SUFFICES ASSUME Outside # {} PROVE FALSE
    OBVIOUS
  <2>2. Outside \in SUBSET Nat
    OBVIOUS
  <2>3. PICK m \in Outside : \A n \in Outside : m <= n
    <3>. HIDE DEF Outside
    <3>. QED
      BY <2>1, <2>2, LeastNumber
  <2>4. m \in 1 .. N
    BY <1>1, <1>3, <1>5, <2>3
  <2>5. f[m - 1] \in S(m - 1)
    BY <1>1, <2>3, <2>4
  <2>. QED
    BY <1>4, <1>6, <2>3, <2>4, <2>5
<1>8. f[N] \in S(N)
  <2>1. N \in 0 .. N
    BY <1>1
  <2>. QED
    BY <1>7, <2>1
<1>. QED
  BY <1>8 DEF f, N, S

\* The runs of a robot in service, when something is in the way.
LEMMA NoticeIsRight ==
  ASSUME NEW p \in Period, NEW table, NEW conflicts,
         BlockedDays(ExpandSlots(p), conflicts) # {}
  PROVE  LET slots == ExpandSlots(p)
             runs  == BlockedPeriods(table, "Active", slots, conflicts)
             days  == BlockedDays(slots, conflicts)
         IN  /\ runs # << >>
             /\ days = UNION {runs[n].start .. runs[n].end : n \in DOMAIN runs}
             /\ \A n \in DOMAIN runs : RunIsRight(table, slots, conflicts, runs[n])
<1>. DEFINE slots == ExpandSlots(p)
            runs  == BlockedPeriods(table, "Active", slots, conflicts)
            days  == BlockedDays(slots, conflicts)
            N == Length(slots)
            past == NthDay(slots, N + 1)
<1>1. \A k \in DOMAIN slots :
        /\ DayOf(slots[k]) \in Int
        /\ DayOf(slots[1]) \in Int /\ DayOf(slots[Len(slots)]) \in Int
        /\ DayOf(slots[1]) <= DayOf(slots[k])
        /\ DayOf(slots[k]) <= DayOf(slots[Len(slots)])
  BY SlotsStayInTheirDays
<1>2. PICK k \in DOMAIN slots : conflicts[k] # {}
  BY DEF BlockedDays
<1>. HIDE DEF slots
<1>3. days \in SUBSET {DayOf(slots[n]) : n \in DOMAIN slots}
  BY DEF BlockedDays
<1>4. DaysAreNumbers(slots, conflicts)
  BY <1>1, <1>2, <1>3 DEF DaysAreNumbers, Length
<1>5. \A d \in days : d < past
  BY <1>1, <1>2, <1>3 DEF NthDay, Length
<1>6. runs = RunsOfDays(table, slots, conflicts)[N]
  BY DEF BlockedPeriods, slots
<1>7. runs \in RunsBefore(table, slots, conflicts, past)
  BY <1>4, <1>6, RunsOfDaysAreRight
<1>. HIDE DEF runs, past, days
<1>8. /\ \A n \in DOMAIN runs : RunIsRight(table, slots, conflicts, runs[n])
      /\ \A d \in days : /\ \E n \in DOMAIN runs : d \in runs[n].start .. runs[n].end
                         /\ runs # << >>
  BY <1>5, <1>7 DEF RunsBefore, days
<1>9. \A n \in DOMAIN runs : runs[n].start .. runs[n].end \subseteq days
  BY <1>8 DEF RunIsRight, days
<1>10. days # {}
  BY DEF days, slots
<1>. QED
  BY <1>8, <1>9, <1>10 DEF runs, days, slots

\* The hand-back notice names each stretch of blocked days once and in full, with
\* its sessions, the robot is back on a day that is not blocked, and "our lesson"
\* is only said if nothing but lessons is in the way: for any loan, and whatever
\* is on the calendar.
THEOREM NoticesAreRight == LessonSpec => []HandBackIsRight
<1>1. ASSUME NEW p \in Loans, NEW r \in Engaged, resourceStatus[r] = "Active"
      PROVE  LET slots     == ExpandSlots(p)
                 conflicts == SlotConflicts(reservation, r, slots, NoRequest)
                 runs      == BlockedPeriods(reservation, resourceStatus[r], slots, conflicts)
                 blocked   == {k \in DOMAIN slots : conflicts[k] # {}}
                 days      == {DayOf(slots[k]) : k \in blocked}
                 Within(n) == runs[n].start .. runs[n].end
             IN  /\ days = UNION {Within(n) : n \in DOMAIN runs}
                 /\ \A n \in DOMAIN runs :
                      /\ ReturnBy(runs[n]) \notin days
                      /\ runs[n].sessions =
                           {SessionOf(slots[k]) : k \in {b \in blocked : DayOf(slots[b]) \in Within(n)}}
                 /\ SpeaksOfOurLesson(runs) <=>
                      /\ blocked # {}
                      /\ \A k \in blocked : \A i \in conflicts[k] :
                           reservation[i].source = "LESSON"
  <2>. DEFINE slots     == ExpandSlots(p)
              conflicts == SlotConflicts(reservation, r, slots, NoRequest)
              runs      == BlockedPeriods(reservation, "Active", slots, conflicts)
              blocked   == {k \in DOMAIN slots : conflicts[k] # {}}
              days      == {DayOf(slots[k]) : k \in blocked}
  <2>1. p \in Period
    BY PageAssumption
  <2>2. days = BlockedDays(slots, conflicts) /\ blocked = BlockedSlots(slots, conflicts)
    BY DEF BlockedDays, BlockedSlots
  <2>3. CASE blocked = {}
    <3>1. days = {}
      BY <2>3
    <3>2. runs = << >>
      BY <2>2, <3>1 DEF BlockedPeriods
    <3>. HIDE DEF runs, days, conflicts, slots
    <3>3. ~ SpeaksOfOurLesson(runs) /\ DOMAIN runs = {}
      BY <3>2 DEF SpeaksOfOurLesson
    <3>. QED
      BY <1>1, <2>3, <3>1, <3>3 DEF runs, days, conflicts, slots
  <2>4. CASE blocked # {}
    <3>1. days # {}
      BY <2>4
    <3>2. /\ runs # << >>
          /\ days = UNION {runs[n].start .. runs[n].end : n \in DOMAIN runs}
          /\ \A n \in DOMAIN runs : RunIsRight(reservation, slots, conflicts, runs[n])
      <4>. HIDE DEF conflicts, days, blocked
      <4>. QED
        BY <2>1, <2>2, <3>1, NoticeIsRight
    <3>. HIDE DEF runs, days, conflicts, slots
    <3>3. ASSUME NEW n \in DOMAIN runs
          PROVE  /\ runs[n].start - 1 \notin days
                 /\ runs[n].sessions = {SessionOf(slots[k]) : k \in Held(slots, conflicts, runs[n])}
                 /\ runs[n].kinds = KindsOf(reservation, conflicts, Held(slots, conflicts, runs[n]))
                 /\ Held(slots, conflicts, runs[n])
                      = {b \in blocked : DayOf(slots[b]) \in runs[n].start .. runs[n].end}
      BY <2>2, <3>2 DEF RunIsRight, Held
    <3>4. ASSUME NEW k \in blocked
          PROVE  \E n \in DOMAIN runs : k \in Held(slots, conflicts, runs[n])
      <4>1. DayOf(slots[k]) \in days
        BY DEF days
      <4>2. PICK n \in DOMAIN runs : DayOf(slots[k]) \in runs[n].start .. runs[n].end
        BY <3>2, <4>1
      <4>. QED
        BY <3>3, <4>2
    <3>5. SpeaksOfOurLesson(runs) <=>
            \A k \in blocked : \A i \in conflicts[k] : reservation[i].source = "LESSON"
      <4>1. ASSUME SpeaksOfOurLesson(runs), NEW k \in blocked, NEW i \in conflicts[k]
            PROVE  reservation[i].source = "LESSON"
        <5>1. PICK n \in DOMAIN runs : k \in Held(slots, conflicts, runs[n])
          BY <3>4
        <5>2. reservation[i].source \in runs[n].kinds
          BY <3>3, <5>1 DEF KindsOf
        <5>. QED
          BY <4>1, <5>2 DEF SpeaksOfOurLesson
      <4>2. ASSUME \A k \in blocked : \A i \in conflicts[k] : reservation[i].source = "LESSON"
            PROVE  SpeaksOfOurLesson(runs)
        <5>1. \A n \in DOMAIN runs : runs[n].kinds \subseteq {"LESSON"}
          BY <3>3, <4>2 DEF KindsOf
        <5>. QED
          BY <3>2, <5>1 DEF SpeaksOfOurLesson
      <4>. QED
        BY <4>1, <4>2
    <3>6. \A n \in DOMAIN runs :
            /\ ReturnBy(runs[n]) \notin days
            /\ runs[n].sessions =
                 {SessionOf(slots[k]) :
                    k \in {b \in blocked : DayOf(slots[b]) \in runs[n].start .. runs[n].end}}
      BY <3>3 DEF ReturnBy
    <3>. QED
      BY <1>1, <2>4, <3>2, <3>5, <3>6 DEF runs, days, conflicts, slots
  <2>. QED
    BY <2>3, <2>4
<1>2. HandBackIsRight
  BY <1>1 DEF HandBackIsRight
<1>. QED
  BY <1>2, PTL

=============================================================================
