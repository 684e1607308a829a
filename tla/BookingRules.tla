---------------------------- MODULE BookingRules ----------------------------
(***************************************************************************)
(* The checks and row updates of app/services/booking_service.py as        *)
(* operators over the tables they are given: BookingService applies them   *)
(* to the committed tables in one step, the handlers of WebHandlers to     *)
(* what they happened to read.                                             *)
(***************************************************************************)
EXTENDS Availability

\* A deviation: the dates are not compared.
ValidSessions(p) == p.sessions # {}

\* validate_request_fields: a date order and at least one session.
ValidPeriod(p) == p.endDate >= p.startDate /\ p.sessions # {}

\* A deviation: an approved request no longer holds its Response ID.
PendingHoldsResponseId(requests, q, rid) ==
  requests[q].status = "PENDING" /\ requests[q].responseId = rid

HoldsResponseId(requests, q, rid) ==
  LiveRequest(requests[q]) /\ requests[q].responseId = rid

\* response_id_errors looks at the oldest live holder only; q is the request
\* being edited, or NoRequest for a new one.
ResponseIdTaken(requests, rid, q) ==
  /\ rid # NoResponseId
  /\ \E holder \in DOMAIN requests \ {q} :
       /\ HoldsResponseId(requests, holder, rid)
       /\ \A older \in 1 .. holder - 1 : ~ HoldsResponseId(requests, older, rid)

NewRequest(p, rid) ==
  [status |-> "PENDING", period |-> p, responseId |-> rid,
   assigned |-> NoResource]

\* _apply_fields: a robot is only assigned when the caller names one.
WithFields(row, p, rid, r) ==
  [row EXCEPT !.period = p, !.responseId = rid,
              !.assigned = IF r # NoResource THEN r ELSE @]

\* A deviation: a status no list or filter knows.
WithStatusMisspelt(requests, q, status) ==
  [requests EXCEPT ![q].status =
     IF status = "CANCELLED" THEN "CANCELED" ELSE status]

WithStatus(requests, q, status) == [requests EXCEPT ![q].status = status]

\* Two deviations: every slot gets the first slot's note; slots with a
\* conflict are left out.
BookingRowsNotedOnce(q, r, slots, conflicts) ==
  [k \in DOMAIN slots |->
     [resource |-> r, source |-> "BOOKING", request |-> q,
      start |-> slots[k].start, end |-> slots[k].end,
      status |-> "ACTIVE", note |-> conflicts[1] # {}]]

BookingRowsWhereFree(q, r, slots, conflicts) ==
  SelectSeq(
    [k \in DOMAIN slots |->
       [resource |-> r, source |-> "BOOKING", request |-> q,
        start |-> slots[k].start, end |-> slots[k].end,
        status |-> "ACTIVE", note |-> conflicts[k] # {}]],
    LAMBDA row : ~ row.note)

\* _write_reservations: one ACTIVE row per slot, stamped with a conflict note
\* when the report found something in that slot.
BookingRows(q, r, slots, conflicts) ==
  [k \in DOMAIN slots |->
     [resource |-> r, source |-> "BOOKING", request |-> q,
      start |-> slots[k].start, end |-> slots[k].end,
      status |-> "ACTIVE", note |-> conflicts[k] # {}]]

\* A lesson or manual entry belongs to no request.
EntryRow(r, source, interval) ==
  [resource |-> r, source |-> source, request |-> NoRequest,
   start |-> interval.start, end |-> interval.end,
   status |-> "ACTIVE", note |-> FALSE]

\* One LESSON row per robot per lesson, robot by robot.
LessonRows(robots, lessons) ==
  [k \in 1 .. Len(robots) * Len(lessons) |->
     EntryRow(robots[1 + ((k - 1) \div Len(lessons))], "LESSON",
              lessons[1 + ((k - 1) % Len(lessons))])]

\* Two deviations: released rows are deleted; only the first row is released.
ReleasedByDeleting(reservations, q) ==
  SelectSeq(reservations, LAMBDA row : row.request # q)

ReleasedFirstRow(reservations, q) ==
  [i \in DOMAIN reservations |->
     IF reservations[i].request = q /\ \A j \in 1 .. i - 1 : reservations[j].request # q
       THEN [reservations[i] EXCEPT !.status = "CANCELLED"]
       ELSE reservations[i]]

\* Every reservation of request q becomes CANCELLED.
Released(reservations, q) ==
  [i \in DOMAIN reservations |->
     IF reservations[i].request = q
       THEN [reservations[i] EXCEPT !.status = "CANCELLED"]
       ELSE reservations[i]]

HoldsActiveSlot(reservations, q) ==
  \E i \in DOMAIN reservations :
    reservations[i].request = q /\ ActiveRow(reservations[i])

=============================================================================
