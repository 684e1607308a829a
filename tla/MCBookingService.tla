-------------------------- MODULE MCBookingService --------------------------
(***************************************************************************)
(* BookingService on one robot: all of day 0, or the mornings of days 0    *)
(* and 1, with lessons and entries across lunch (11:00 to 14:00).          *)
(***************************************************************************)
EXTENDS BookingService

Dates(from, to, sessions) ==
  [startDate |-> from, endDate |-> to, sessions |-> sessions]

Times(day, from, to) ==
  [start |-> day * DayMinutes + from, end |-> day * DayMinutes + to]

AcrossLunch == Times(0, 660, 840)

\* One day all day, two mornings, and dates the form has the wrong way round.
MCPeriods == {Dates(0, 0, {"AM", "PM"}), Dates(0, 1, {"AM"}), Dates(1, 0, {"AM"})}

MCEntryTimes == {AcrossLunch}

MCEntrySources == {"MAINTENANCE"}

MCLessonBatches == {<<AcrossLunch>>}

MCOneRobotLists == {<<r>> : r \in Resource}

MCStatusChoices == {"Active", "Out of Service"}

=============================================================================
