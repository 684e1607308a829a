---------------------------- MODULE CalendarViews ----------------------------
(***************************************************************************)
(* What staff see of the calendar: the week grid                           *)
(* (app/services/calendar_view.py) and the days on which a robot has to be *)
(* handed back (blocked_periods of app/services/availability.py), as       *)
(* operators over the tables.  Day 0 is a Monday.                          *)
(***************************************************************************)
EXTENDS Availability

\* A deviation: the grid is split after the afternoon session has begun.
BucketSplitLate == 840

\* BUCKET_SPLIT, 12:45: between the two sessions, so that the two buckets of a
\* day leave no gap.
BucketSplit == 765

WeekStart(day) == day - (day % 7)

WeekDays(anchor) == WeekStart(anchor) .. WeekStart(anchor) + 6

\* A deviation: the cells are the sessions themselves.
SessionWindow(day, s) == SlotOn(day, s)

\* _bucket_window
BucketWindow(day, s) ==
  IF s = "AM"
    THEN [start |-> day * DayMinutes, end |-> day * DayMinutes + BucketSplit]
    ELSE [start |-> day * DayMinutes + BucketSplit, end |-> (day + 1) * DayMinutes]

\* The rows of the grid: chosen is the filter of the page, all robots by default.
ShownResources(resourceStatus, chosen) ==
  {r \in chosen : resourceStatus[r] \notin {"Retired", Missing}}

\* What touches the week at all.
WeekReservations(table, anchor, types) ==
  {i \in DOMAIN table :
     /\ ActiveRow(table[i])
     /\ table[i].source \in types
     /\ table[i].start < (WeekStart(anchor) + 7) * DayMinutes
     /\ table[i].end > WeekStart(anchor) * DayMinutes}

\* build_week_grid: the entries in each cell, which is a robot, a day and a
\* session.
WeekGrid(table, resourceStatus, anchor, chosen, types) ==
  LET week == WeekReservations(table, anchor, types)
  IN  [cell \in ShownResources(resourceStatus, chosen) \X WeekDays(anchor) \X Session |->
         {i \in week : table[i].resource = cell[1]
                         /\ Overlaps(table[i], BucketWindow(cell[2], cell[3]))}]

-----------------------------------------------------------------------------

DayOf(slot) == slot.start \div DayMinutes

SessionOf(slot) == CHOOSE s \in Session : slot = SlotOn(DayOf(slot), s)

\* The day before a run: the robot has to be back by then.
ReturnBy(run) == run.start - 1

\* A deviation: a run that grows keeps its first day as its last.
GrowWithoutEnd(runs, blocked) ==
  IF runs # << >> /\ blocked.start - runs[Len(runs)].end = 1
    THEN [runs EXCEPT ![Len(runs)].sessions = @ \union blocked.sessions,
                      ![Len(runs)].kinds = @ \union blocked.kinds]
    ELSE Append(runs, blocked)

\* A blocked day continues the last run or begins one of its own.
Grow(runs, blocked) ==
  IF runs # << >> /\ blocked.start - runs[Len(runs)].end = 1
    THEN [runs EXCEPT ![Len(runs)].end = blocked.end,
                      ![Len(runs)].sessions = @ \union blocked.sessions,
                      ![Len(runs)].kinds = @ \union blocked.kinds]
    ELSE Append(runs, blocked)

\* What keeps robot and applicant apart on one day: the sessions, and the kinds
\* of the entries that hold them.
BlockedDay(table, slots, conflicts, day) ==
  LET blocked == {k \in DOMAIN slots : DayOf(slots[k]) = day /\ conflicts[k] # {}}
  IN  [start |-> day, end |-> day,
       sessions |-> {SessionOf(slots[k]) : k \in blocked},
       kinds |-> {table[i].source : i \in UNION {conflicts[k] : k \in blocked}}]

BlockedDays(slots, conflicts) ==
  {DayOf(slots[k]) : k \in {n \in DOMAIN slots : conflicts[n] # {}}}

\* The n-th day of the slots, which are in order.
NthDay(slots, n) == DayOf(slots[1]) + n - 1

Length(slots) == DayOf(slots[Len(slots)]) - DayOf(slots[1]) + 1

\* The runs among the first n days: the blocked ones are taken in order.
RunsOfDays(table, slots, conflicts) ==
  LET runs[n \in 0 .. Length(slots)] ==
        CASE n = 0 -> << >>
          [] n # 0 /\ NthDay(slots, n) \in BlockedDays(slots, conflicts) ->
               Grow(runs[n - 1], BlockedDay(table, slots, conflicts, NthDay(slots, n)))
          [] OTHER -> runs[n - 1]
  IN  runs

\* blocked_periods: runs of consecutive days, none for a robot that is not in
\* service.
BlockedPeriods(table, status, slots, conflicts) ==
  IF status # "Active" \/ BlockedDays(slots, conflicts) = {}
    THEN << >>
    ELSE RunsOfDays(table, slots, conflicts)[Length(slots)]

\* unavailable_message speaks of "our lesson" only if nothing else blocks.
SpeaksOfOurLesson(runs) ==
  runs # << >> /\ \A n \in DOMAIN runs : runs[n].kinds \subseteq {"LESSON"}

=============================================================================
