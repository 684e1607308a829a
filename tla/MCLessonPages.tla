--------------------------- MODULE MCLessonPages ----------------------------
(***************************************************************************)
(* LessonPages around the turn of a week: day 6 is a Sunday, day 7 the     *)
(* Monday after it.  Beside it, timetables of up to four lines.            *)
(***************************************************************************)
EXTENDS LessonPages, TimetableParser, TLC

Times(from, until) == [start |-> from, end |-> until]

At(day, minute) == day * DayMinutes + minute

\* Both mornings.
MCPeriods == {[startDate |-> 6, endDate |-> 7, sessions |-> {"AM"}]}

\* From Sunday 23:00 until Monday 11:45.
MCEntryTimes == {Times(At(6, 1380), At(7, 705))}

\* Lessons are the entries that an import has to be told from.
MCEntrySources == {"LESSON"}

\* Tuesday 11:00-14:00, pasted before Monday 12:00-13:30; Monday 11:30-12:30;
\* a row with its times swapped.
MCLessonBatches ==
  {<<Times(At(8, 660), At(8, 840)), Times(At(7, 720), At(7, 810))>>,
   <<Times(At(7, 690), At(7, 750))>>,
   <<Times(At(7, 750), At(7, 690))>>}

\* A timetable for one robot, and one for that robot and another.
MCRobotLists ==
  LET one   == CHOOSE r \in Resource : TRUE
      other == CHOOSE r \in Resource \ {one} : TRUE
  IN  {<<one>>, <<one, other>>}

MCStatusChoices == {"Active"}

MCAnchors == {3, 8}

\* From Sunday to Tuesday.
MCLoans == {[startDate |-> 6, endDate |-> 8, sessions |-> Session]}

\* Headers with their columns in a different order, one with two columns a course
\* may stand in; rows of theirs with and without a course, a section title, loose
\* lines and a dated title.
MCLines ==
  {<<{"course"}, {"date"}, {"time"}>>,
   <<{"date"}, {"start"}, {"end"}, {"course"}>>,
   <<{"subject"}, {"module"}, {"date"}, {"class time"}>>,
   <<{"ME1"}, {"aDate"}, {"aRange"}>>,
   <<{"ME1"}, {}, {"aDate"}, {"aRange"}>>,
   <<{}, {"aDate"}, {"aRange"}>>,
   <<{"aDate"}, {"aTime"}, {"aTime"}, {}>>,
   <<{"words"}, {}, {}, {"ME2"}>>,
   <<{"aDate", "aRange", "ME2"}>>,
   <<{"course"}, {"aDate"}, {"date"}>>,
   <<{"course"}, {"course"}>>,
   << >>}

\* A row pasted as Markdown.
MCBarred == {<<{"aDate"}, {"aTime"}, {"aTime"}, {}>>}

\* Around midnight, noon and 1:00.
MCClock == {0, 30, 570, 690, 720, 780, 1410}

\* The parser looks at nothing but its text, so the two are checked side by side
\* without their product: one moves while the other is where it began.
parserAtRest == text = << >>

pagesAtRest ==
  /\ <<request, reservation, importing>> = << << >>, << >>, Nobody >>
  /\ \A t \in Tab : page[t] = NoClashes
  /\ \A r \in Resource : resourceStatus[r] = "Active"

PagesStep == parserAtRest /\ LessonNext /\ UNCHANGED parserVars

ParserStep == pagesAtRest /\ ParserNext /\ UNCHANGED lessonVars

MCInit == LessonInit /\ ParserInit

SideBySide == MCInit /\ [][PagesStep \/ ParserStep]_<<lessonVars, parserVars>>

=============================================================================
