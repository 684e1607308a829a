---------------------------- MODULE Availability ----------------------------
(***************************************************************************)
(* The availability engine (app/services/availability.py): the slots a     *)
(* request asks for, and which reservations already hold them.             *)
(***************************************************************************)
EXTENDS BookingTables

DayMinutes == 24 * 60

\* SESSION_TIMES (app/config.py): AM 08:30-12:00, PM 13:30-17:00.
SessionStart(s) == IF s = "AM" THEN 510 ELSE 810
SessionEnd(s) == IF s = "AM" THEN 720 ELSE 1020

Slot == [start : Int, end : Int]

SlotOn(day, s) ==
  [start |-> day * DayMinutes + SessionStart(s),
   end   |-> day * DayMinutes + SessionEnd(s)]

\* Half-open ranges: adjacent times do not conflict.
Overlaps(a, b) == a.start < b.end /\ a.end > b.start

\* The request's sessions in SESSION_ORDER.
OrderedSessions(sessions) ==
  CASE sessions = Session -> <<"AM", "PM">>
    [] sessions = {"AM"}  -> <<"AM">>
    [] sessions = {"PM"}  -> <<"PM">>
    [] OTHER              -> << >>

\* Every requested session of every day, in chronological order.
ExpandSlots(p) ==
  LET ordered == OrderedSessions(p.sessions)
      perDay  == Len(ordered)
      days    == p.endDate - p.startDate + 1
  IN  IF ordered = << >> \/ p.endDate < p.startDate
        THEN << >>
        ELSE [i \in 1 .. days * perDay |->
                SlotOn(p.startDate + ((i - 1) \div perDay),
                       ordered[1 + ((i - 1) % perDay)])]

WindowStart(slots) ==
  CHOOSE t \in {slots[i].start : i \in DOMAIN slots} :
    \A i \in DOMAIN slots : t <= slots[i].start

WindowEnd(slots) ==
  CHOOSE t \in {slots[i].end : i \in DOMAIN slots} :
    \A i \in DOMAIN slots : slots[i].end <= t

\* A deviation: SQL's NULL # id is not true, so rows of no request drop out
\* as soon as one request is excluded.
ActiveReservationsLosingNulls(table, r, from, until, exclude) ==
  {i \in DOMAIN table :
     /\ table[i].resource = r
     /\ ActiveRow(table[i])
     /\ table[i].start < until
     /\ table[i].end > from
     /\ exclude = NoRequest \/ table[i].request \notin {NoRequest, exclude}}

\* The ids of the ACTIVE reservations of robot r inside a window.  A request
\* never conflicts with its own reservations: exclude is its id, or NoRequest
\* when nothing is excluded.
ActiveReservations(table, r, from, until, exclude) ==
  {i \in DOMAIN table :
     /\ table[i].resource = r
     /\ ActiveRow(table[i])
     /\ table[i].start < until
     /\ table[i].end > from
     /\ exclude = NoRequest \/ table[i].request # exclude}

\* Which of those share time with each slot.
SlotConflicts(table, r, slots, exclude) ==
  LET existing == ActiveReservations(table, r, WindowStart(slots),
                                     WindowEnd(slots), exclude)
  IN  [k \in DOMAIN slots |-> {i \in existing : Overlaps(slots[k], table[i])}]

\* The verdict on an active robot.
FullyAvailable(conflicts) == \A k \in DOMAIN conflicts : conflicts[k] = {}

=============================================================================
