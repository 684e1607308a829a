--------------------------- MODULE MCWebHandlers ----------------------------
(***************************************************************************)
(* WebHandlers on one robot and days 0 and 1, with a maintenance           *)
(* entry across lunch (11:00 to 14:00) that touches both sessions.         *)
(***************************************************************************)
EXTENDS WebHandlers, TLC

Dates(from, to, sessions) ==
  [startDate |-> from, endDate |-> to, sessions |-> sessions]

MCPeriods == {Dates(0, 0, {"AM", "PM"}), Dates(0, 0, {"PM"})}

\* Forms that move the start, one of them behind the end.
MCStarts == {Dates(0, 1, {"PM"}), Dates(1, 1, {"PM"}), Dates(1, 0, {"PM"})}

\* Forms that move either end.
MCForms == MCStarts \union {Dates(0, 0, {"PM"})}

MCEntryTimes == {[start |-> 660, end |-> 840]}

MCEntrySources == {"MAINTENANCE"}

MCStatusChoices == {"Active", "Out of Service"}

StaffSymmetry == Permutations(Staff)

=============================================================================
