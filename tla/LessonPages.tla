----------------------------- MODULE LessonPages -----------------------------
(***************************************************************************)
(* The lesson import (app/routes/lessons.py) next to everybody else who    *)
(* books.  Staff submit the rows of a timetable; the page comes back with  *)
(* the clashes the rows have, and is submitted once more with the clashes  *)
(* confirmed.  Between the page and the confirmation anything may be       *)
(* booked; between the check of a submission and its commit only the       *)
(* calendar's threads and the queue worker get in, as the handler does not *)
(* await.                                                                  *)
(*                                                                         *)
(* The booking decisions are those of BookingService, one step each; the   *)
(* page takes the place of its ImportLessons.                              *)
(***************************************************************************)
EXTENDS BookingService, CalendarViews

CONSTANTS
  Tab,        \* browser tabs that show the lessons page
  Nobody,     \* no import is between its check and its commit
  Anchors,    \* dates the calendar page is opened on
  Loans       \* dates whose availability is asked for

ASSUME PageAssumption ==
  /\ Anchors \subseteq Int
  /\ Loans \subseteq Period

VARIABLES
  page,       \* what each tab displays
  importing   \* the import that is being written

pages == <<page, importing>>
lessonVars == <<resourceStatus, request, reservation, page, importing>>

\* The clashes a page displays, the rows that have them, and (for the properties
\* only) how many entries the calendar had at that time.
Displays(lessons, robots, clashes) ==
  [lessons |-> lessons, robots |-> robots, clashes |-> clashes,
   known |-> Len(reservation)]

NoClashes == [lessons |-> << >>, robots |-> << >>, clashes |-> {}, known |-> 0]

LessonInit ==
  /\ Init
  /\ page = [t \in Tab |-> NoClashes]
  /\ importing = Nobody

-----------------------------------------------------------------------------

\* Two deviations: the window is that of the first lesson; only the first
\* robot is looked at.
ClashesInFirstWindow(table, lessons, robots) ==
  {c \in [robot : {robots[k] : k \in DOMAIN robots}, lesson : DOMAIN lessons,
          entry : DOMAIN table] :
     /\ c.entry \in ActiveReservations(table, c.robot, lessons[1].start,
                                       lessons[1].end, NoRequest)
     /\ Overlaps(lessons[c.lesson], table[c.entry])}

ClashesOfFirstRobot(table, lessons, robots) ==
  {c \in [robot : {robots[1]}, lesson : DOMAIN lessons, entry : DOMAIN table] :
     /\ c.entry \in ActiveReservations(table, c.robot, WindowStart(lessons),
                                       WindowEnd(lessons), NoRequest)
     /\ Overlaps(lessons[c.lesson], table[c.entry])}

\* check_lesson_conflicts: every lesson, on every robot, against what is on the
\* calendar between the first and the last of them.
LessonClashes(table, lessons, robots) ==
  {c \in [robot : {robots[k] : k \in DOMAIN robots}, lesson : DOMAIN lessons,
          entry : DOMAIN table] :
     /\ c.entry \in ActiveReservations(table, c.robot, WindowStart(lessons),
                                       WindowEnd(lessons), NoRequest)
     /\ Overlaps(lessons[c.lesson], table[c.entry])}

\* _rows_from_form reports a row whose start is not before its end.
Complete(lessons, robots) ==
  /\ lessons # << >>
  /\ robots # << >>
  /\ \A k \in DOMAIN lessons : lessons[k].start < lessons[k].end

\* import_lessons, in the end, insists that there are such robots.
Importable(lessons, robots) ==
  /\ Complete(lessons, robots)
  /\ \A k \in DOMAIN robots : resourceStatus[robots[k]] # Missing

\* The event loop runs one handler from its form to its commit.
LoopIsFree == importing = Nobody

\* While clashes are displayed the browser submits nothing before the box that
\* confirms them is ticked, not even corrected rows; otherwise there is no box.
Confirmed(t) == page[t].clashes # {}

\* parse_lessons: a new timetable.
Parse(t) ==
  /\ LoopIsFree
  /\ page' = [page EXCEPT ![t] = NoClashes]
  /\ UNCHANGED <<resourceStatus, request, reservation, importing>>

\* The page comes back without clashes: the rows are incomplete and not checked,
\* or there is nothing to confirm but a robot is missing.
ReturnRows(t, lessons, robots) ==
  /\ LoopIsFree
  /\ ~ Importable(lessons, robots)
  /\ Complete(lessons, robots) =>
       Confirmed(t) \/ LessonClashes(reservation, lessons, robots) = {}
  /\ page' = [page EXCEPT ![t] = NoClashes]
  /\ UNCHANGED <<resourceStatus, request, reservation, importing>>

\* Clashes nobody confirmed: the page comes back with them.
ShowClashes(t, lessons, robots) ==
  LET clashes == LessonClashes(reservation, lessons, robots)
  IN  /\ LoopIsFree
      /\ ~ Confirmed(t)
      /\ Complete(lessons, robots)
      /\ clashes # {}
      /\ page' = [page EXCEPT ![t] = Displays(lessons, robots, clashes)]
      /\ UNCHANGED <<resourceStatus, request, reservation, importing>>

\* No clash, or the box is ticked: on to import_lessons.
CheckImport(t, lessons, robots) ==
  /\ LoopIsFree
  /\ Importable(lessons, robots)
  /\ Confirmed(t) \/ LessonClashes(reservation, lessons, robots) = {}
  /\ importing' = [tab |-> t, lessons |-> lessons, robots |-> robots,
                   known |-> Len(reservation)]
  /\ UNCHANGED <<resourceStatus, request, reservation, page>>

\* import_lessons and the commit.  The tab can be submitted again: a double
\* click, or the browser's way back.
CommitImport ==
  /\ importing # Nobody
  /\ LET rows == LessonRows(importing.robots, importing.lessons)
     IN  Room(rows) /\ reservation' = reservation \o rows
  /\ importing' = Nobody
  /\ UNCHANGED <<resourceStatus, request, page>>

\* The database stayed locked: nothing is written.
LoseImport ==
  /\ importing # Nobody
  /\ importing' = Nobody
  /\ UNCHANGED <<resourceStatus, request, reservation, page>>

PageStep(t) ==
  \/ Parse(t)
  \/ \E lessons \in LessonBatches, robots \in RobotLists :
       \/ ReturnRows(t, lessons, robots)
       \/ ShowClashes(t, lessons, robots)
       \/ CheckImport(t, lessons, robots)

\* Decisions of the request and resource pages wait for the event loop.
DeskStep ==
  /\ LoopIsFree
  /\ \/ \E q \in DOMAIN request : RequestStep(q)
     \/ \E p \in Periods, rid \in ResponseId \union {NoResponseId} :
          CreateRequest(p, rid)
     \/ \E r \in Resource, status \in StatusChoices : SetResourceStatus(r, status)
  /\ UNCHANGED pages

\* The worker and the calendar's threads do not.
OutsideStep ==
  /\ \/ \E p \in Periods, rid \in ResponseId \union {NoResponseId}, r \in Resource :
          ImportApproved(p, rid, r)
     \/ \E i \in DOMAIN reservation : CancelReservation(i)
     \/ \E r \in Resource, source \in EntrySources, interval \in EntryTimes :
          CreateManual(r, source, interval)
  /\ UNCHANGED pages

LessonNext ==
  \/ \E t \in Tab : PageStep(t)
  \/ CommitImport
  \/ LoseImport
  \/ DeskStep
  \/ OutsideStep

LessonSpec == LessonInit /\ [][LessonNext]_lessonVars

-----------------------------------------------------------------------------

\* The entries an import overlaps when it is written, row by row.
OverlappedBy(n) ==
  {i \in DOMAIN reservation :
     /\ ActiveRow(reservation[i])
     /\ reservation[i].resource = reservation'[n].resource
     /\ Overlaps(reservation[i], reservation'[n])}

Imported == DOMAIN reservation' \ DOMAIN reservation

ImportCommits == importing # Nobody /\ reservation' # reservation /\ importing' = Nobody

\* What the calendar form makes of a lesson's times.
LessonByHand(row) ==
  "LESSON" \in EntrySources /\ \E interval \in EntryTimes :
    row = EntryRow(row.resource, "LESSON", interval)

\* An import that staff were not asked to confirm never overlaps the lessons of
\* another import: of a timetable submitted twice, by a double click or from two
\* tabs, the second finds the first.  check_lesson_conflicts and the commit of
\* import_lessons must leave no room for another handler, and the check has to
\* reach as far as the rows do, in whatever order they are pasted.  Only a lesson
\* that a calendar thread enters by hand between the two can be missed.
LessonsKeepApart ==
  [][ImportCommits /\ ~ Confirmed(importing.tab)
       => \A n \in Imported : \A i \in OverlappedBy(n) :
            reservation[i].source = "LESSON"
              => i > importing.known /\ LessonByHand(reservation[i])]_lessonVars

\* What an import overlaps without having shown it is newer than its check: than
\* the check of the submission if nothing was to be confirmed, than the page if
\* the rows of that page were confirmed.  (Rows corrected on a page that displays
\* clashes are the exception: they are imported unchecked.)
UnseenClashIsNewer ==
  [][ImportCommits =>
       LET shown == page[importing.tab]
       IN  \A n \in Imported : \A i \in OverlappedBy(n) :
             \/ i > importing.known
             \/ /\ Confirmed(importing.tab)
                /\ \/ <<shown.lessons, shown.robots>>
                         # <<importing.lessons, importing.robots>>
                   \/ i > shown.known
                   \/ \E c \in shown.clashes :
                        c.entry = i /\ c.robot = reservation'[n].resource]_lessonVars

\* The robots that have something on their calendar: of the others the pages
\* have nothing to say.
Engaged ==
  {reservation[i].resource : i \in {n \in DOMAIN reservation : ActiveRow(reservation[n])}}

\* Nothing on a robot's calendar is hidden from the week page: an active entry of
\* a robot that is not retired is in a cell of every week it touches, however
\* unusual its hours (BUCKET_SPLIT is where it is for that reason).
NothingHidden ==
  \A anchor \in Anchors :
    LET grid == WeekGrid(reservation, resourceStatus, anchor, Resource, SourceType)
    IN  \A i \in WeekReservations(reservation, anchor, SourceType) :
          reservation[i].resource \in ShownResources(resourceStatus, Resource)
            => \E cell \in DOMAIN grid :
                 cell[1] = reservation[i].resource /\ i \in grid[cell]

\* A cell that the week page shows as free can be booked: whatever the
\* availability engine, which goes by the session times and not by the grid's
\* half-days, finds in the way of a slot is in the cell of that slot.
FreeCellIsFree ==
  \A p \in Loans, r \in ShownResources(resourceStatus, Engaged) :
    LET slots     == ExpandSlots(p)
        conflicts == SlotConflicts(reservation, r, slots, NoRequest)
    IN  \A k \in DOMAIN slots : \A i \in conflicts[k] :
          LET day == DayOf(slots[k])
          IN  i \in WeekGrid(reservation, resourceStatus, day, Resource,
                             SourceType)[<<r, day, SessionOf(slots[k])>>]

\* The hand-back notice names each stretch of blocked days once and in full: the
\* runs cover exactly the days on which something is in the way, leave a day
\* between them, name the sessions concerned, and the day before a run, when the
\* robot has to be back, is not a blocked one.  "Our lesson" is only said if
\* nothing but lessons is in the way.
HandBackIsRight ==
  \A p \in Loans, r \in Engaged :
    LET slots     == ExpandSlots(p)
        conflicts == SlotConflicts(reservation, r, slots, NoRequest)
        runs      == BlockedPeriods(reservation, resourceStatus[r], slots, conflicts)
        blocked   == {k \in DOMAIN slots : conflicts[k] # {}}
        days      == {DayOf(slots[k]) : k \in blocked}
        Within(n) == runs[n].start .. runs[n].end
    IN  resourceStatus[r] = "Active"
          => /\ days = UNION {Within(n) : n \in DOMAIN runs}
             /\ \A n \in DOMAIN runs :
                  /\ ReturnBy(runs[n]) \notin days
                  /\ runs[n].sessions =
                       {SessionOf(slots[k]) : k \in {b \in blocked : DayOf(slots[b]) \in Within(n)}}
             /\ SpeaksOfOurLesson(runs) <=>
                  /\ blocked # {}
                  /\ \A k \in blocked : \A i \in conflicts[k] :
                       reservation[i].source = "LESSON"

=============================================================================
