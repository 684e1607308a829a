------------------------- MODULE WebHandlersProofs --------------------------
(***************************************************************************)
(* What the interleaved handlers guarantee.  For any number of coroutines, *)
(* threads and workers: the reservations stay a history, the worker books  *)
(* only what is free, and a booking comes apart only by a decision on a    *)
(* row that was changed since it was loaded.  When nobody overlaps: they   *)
(* make the decisions of BookingService.  With one coroutine beside any    *)
(* number of workers: bookings stay whole.                                 *)
(***************************************************************************)
EXTENDS WebHandlers, BookingRulesProofs

-----------------------------------------------------------------------------
(* The rules of BookingService are the rules used here                     *)

\* The availability engine is the same on both levels.
LEMMA SameEngine ==
  /\ \A p : Service!ExpandSlots(p) = ExpandSlots(p)
  /\ \A table, r, slots, q :
       Service!SlotConflicts(table, r, slots, q) = SlotConflicts(table, r, slots, q)
  /\ \A table, r, from, until, q :
       Service!ActiveReservations(table, r, from, until, q)
         = ActiveReservations(table, r, from, until, q)
  /\ \A conflicts : Service!FullyAvailable(conflicts) <=> FullyAvailable(conflicts)
  /\ \A a, b : Service!Overlaps(a, b) <=> Overlaps(a, b)
<1>1. \A p : Service!ExpandSlots(p) = ExpandSlots(p)
  <2>1. \A sessions : Service!OrderedSessions(sessions) = OrderedSessions(sessions)
    BY DEF Service!OrderedSessions, OrderedSessions, Service!Session, Session
  <2>2. \A day, s : Service!SlotOn(day, s) = SlotOn(day, s)
    BY DEF Service!SlotOn, SlotOn, Service!SessionStart, SessionStart,
           Service!SessionEnd, SessionEnd, Service!DayMinutes, DayMinutes
  <2>. QED
    BY <2>1, <2>2, Zenon DEF Service!ExpandSlots, ExpandSlots
<1>2. \A table, r, from, until, q :
        Service!ActiveReservations(table, r, from, until, q)
          = ActiveReservations(table, r, from, until, q)
  BY DEF Service!ActiveReservations, ActiveReservations, Service!ActiveRow, ActiveRow,
         Service!NoRequest, NoRequest
<1>3. \A a, b : Service!Overlaps(a, b) <=> Overlaps(a, b)
  BY DEF Service!Overlaps, Overlaps
<1>4. \A slots : /\ Service!WindowStart(slots) = WindowStart(slots)
                 /\ Service!WindowEnd(slots) = WindowEnd(slots)
  BY DEF Service!WindowStart, WindowStart, Service!WindowEnd, WindowEnd
<1>5. \A table, r, slots, q :
        Service!SlotConflicts(table, r, slots, q) = SlotConflicts(table, r, slots, q)
  BY <1>2, <1>3, <1>4 DEF Service!SlotConflicts, SlotConflicts
<1>6. \A conflicts : Service!FullyAvailable(conflicts) <=> FullyAvailable(conflicts)
  BY DEF Service!FullyAvailable, FullyAvailable
<1>. QED
  BY <1>1, <1>2, <1>3, <1>5, <1>6

\* So are the checks and the row updates of the booking service.
LEMMA SameRules ==
  /\ \A p : Service!ValidPeriod(p) <=> ValidPeriod(p)
  /\ \A requests, rid, q :
       Service!ResponseIdTaken(requests, rid, q) <=> ResponseIdTaken(requests, rid, q)
  /\ \A p, rid : Service!NewRequest(p, rid) = NewRequest(p, rid)
  /\ \A row, p, rid, r : Service!WithFields(row, p, rid, r) = WithFields(row, p, rid, r)
  /\ \A requests, q, status :
       Service!WithStatus(requests, q, status) = WithStatus(requests, q, status)
  /\ \A q, r, slots, conflicts :
       Service!BookingRows(q, r, slots, conflicts) = BookingRows(q, r, slots, conflicts)
  /\ \A r, source, interval :
       Service!EntryRow(r, source, interval) = EntryRow(r, source, interval)
  /\ \A table, q : Service!Released(table, q) = Released(table, q)
  /\ \A table, q : Service!HoldsActiveSlot(table, q) <=> HoldsActiveSlot(table, q)
  /\ \A row : Service!ActiveRow(row) <=> ActiveRow(row)
  /\ Service!NoRequest = NoRequest
  /\ Service!ClosedStatus = ClosedStatus
  /\ Service!Missing = "Missing"
<1>1. \A p : Service!ValidPeriod(p) <=> ValidPeriod(p)
  BY DEF Service!ValidPeriod, ValidPeriod
<1>2. \A requests, rid, q :
        Service!ResponseIdTaken(requests, rid, q) <=> ResponseIdTaken(requests, rid, q)
  BY DEF Service!ResponseIdTaken, ResponseIdTaken, Service!HoldsResponseId, HoldsResponseId,
         Service!LiveRequest, LiveRequest, Service!ClosedStatus, ClosedStatus
<1>3. /\ \A p, rid : Service!NewRequest(p, rid) = NewRequest(p, rid)
      /\ \A row, p, rid, r : Service!WithFields(row, p, rid, r) = WithFields(row, p, rid, r)
      /\ \A requests, q, status :
           Service!WithStatus(requests, q, status) = WithStatus(requests, q, status)
  BY DEF Service!NewRequest, NewRequest, Service!WithFields, WithFields,
         Service!WithStatus, WithStatus
<1>4. /\ \A q, r, slots, conflicts :
           Service!BookingRows(q, r, slots, conflicts) = BookingRows(q, r, slots, conflicts)
      /\ \A r, source, interval :
           Service!EntryRow(r, source, interval) = EntryRow(r, source, interval)
      /\ \A table, q : Service!Released(table, q) = Released(table, q)
  BY DEF Service!BookingRows, BookingRows, Service!EntryRow, EntryRow, Service!Released,
         Released, Service!NoRequest, NoRequest
<1>5. /\ \A row : Service!ActiveRow(row) <=> ActiveRow(row)
      /\ \A table, q : Service!HoldsActiveSlot(table, q) <=> HoldsActiveSlot(table, q)
  BY DEF Service!ActiveRow, ActiveRow, Service!HoldsActiveSlot, HoldsActiveSlot
<1>6. /\ Service!NoRequest = NoRequest
      /\ Service!ClosedStatus = ClosedStatus
      /\ Service!Missing = "Missing"
  BY DEF Service!NoRequest, NoRequest, Service!ClosedStatus, ClosedStatus, Service!Missing
<1>. QED
  BY <1>1, <1>2, <1>3, <1>4, <1>5, <1>6

-----------------------------------------------------------------------------
(* Types                                                                   *)

\* A reservation belongs to a request of the table, or to none.
Owners == {NoRequest} \union DOMAIN request

\* What an actor has in hand, given the requests and reservations that exist.
TaskOK(t, requestIds, reservationIds) ==
  /\ t.at = "awaiting form" => t.q \in requestIds /\ t.seen \in RequestRow
  /\ t.at = "writing" =>
       /\ t.q \in requestIds \union {NoRequest}
       /\ t.seen \in RequestRow /\ t.next \in RequestRow
       /\ t.rows \in Seq(ReservationRow)
       /\ OwnedBy(t.rows, requestIds)
  /\ t.at = "amending" =>
       /\ t.q \in requestIds
       /\ t.seen \in RequestRow /\ t.next \in RequestRow
       /\ t.next.assigned \in Resource
  /\ t.at = "releasing" =>
       /\ t.i \in reservationIds
       /\ t.approved = TRUE => t.q \in requestIds
  /\ t.at = "inserting" => t.row \in ReservationRow /\ t.row.request = NoRequest
  /\ t.at = "importing" =>
       /\ t.period \in Period /\ ValidPeriod(t.period)
       /\ t.responseId \in ResponseId \union {NoResponseId}
       /\ t.available = TRUE => t.robot \in Resource

TasksOK == \A a \in Actor : TaskOK(task[a], DOMAIN request, DOMAIN reservation)

HandlersTypeOK ==
  /\ resourceStatus \in [Resource -> ResourceStatus]
  /\ request \in Seq(RequestRow)
  /\ reservation \in Seq(ReservationRow)
  /\ OwnedBy(reservation, Owners)
  /\ DOMAIN task = Actor
  /\ TasksOK

\* What was in hand stays in order while rows are added.
LEMMA TaskStaysOK ==
  ASSUME NEW t, NEW requestIds, NEW reservationIds, NEW moreRequests, NEW moreReservations,
         TaskOK(t, requestIds, reservationIds),
         requestIds \subseteq moreRequests, reservationIds \subseteq moreReservations
  PROVE  TaskOK(t, moreRequests, moreReservations)
BY DEF TaskOK, OwnedBy

\* An actor moves on and nobody else does.
LEMMA OneActorMoves ==
  ASSUME HandlersTypeOK, NEW a \in Actor, NEW t, Goto(a, t),
         DOMAIN request \subseteq DOMAIN request',
         DOMAIN reservation \subseteq DOMAIN reservation',
         TaskOK(t, DOMAIN request', DOMAIN reservation')
  PROVE  DOMAIN task' = Actor /\ TasksOK'
<1>1. /\ DOMAIN task' = Actor
      /\ \A b \in Actor : task'[b] = IF b = a THEN t ELSE task[b]
  BY DEF Goto, HandlersTypeOK
<1>2. ASSUME NEW b \in Actor
      PROVE  TaskOK(task'[b], DOMAIN request', DOMAIN reservation')
  <2>1. TaskOK(task[b], DOMAIN request, DOMAIN reservation)
    BY DEF HandlersTypeOK, TasksOK
  <2>. QED
    BY <1>1, <2>1, TaskStaysOK
<1>. QED
  BY <1>1, <1>2 DEF TasksOK

\* The calendar only changes by rows that are cancelled in place and rows that
\* are added.
CancelsAndAdds ==
  \E ids : \E rows \in Seq(ReservationRow) : reservation' = Cancelled(ids) \o rows

StepOK == HandlersTypeOK' /\ CancelsAndAdds

\* Cancelling rows in place.
LEMMA CancelledType ==
  ASSUME reservation \in Seq(ReservationRow), NEW ids
  PROVE  /\ Cancelled(ids) \in Seq(ReservationRow)
         /\ Len(Cancelled(ids)) = Len(reservation)
         /\ DOMAIN Cancelled(ids) = DOMAIN reservation
         /\ \A i \in DOMAIN reservation :
              Cancelled(ids)[i] =
                IF i \in ids THEN [reservation[i] EXCEPT !.status = "CANCELLED"]
                             ELSE reservation[i]
         /\ \A owners : OwnedBy(reservation, owners) => OwnedBy(Cancelled(ids), owners)
<1>1. Len(reservation) \in Nat /\ DOMAIN reservation = 1 .. Len(reservation)
  BY LenProperties
<1>2. \A i \in 1 .. Len(reservation) : reservation[i] \in ReservationRow
  BY <1>1, ElementOfSeq
<1>3. /\ DOMAIN Cancelled(ids) = DOMAIN reservation
      /\ \A i \in DOMAIN reservation :
           Cancelled(ids)[i] =
             IF i \in ids THEN [reservation[i] EXCEPT !.status = "CANCELLED"]
                          ELSE reservation[i]
  BY DEF Cancelled
<1>4. ASSUME NEW i \in 1 .. Len(reservation)
      PROVE  Cancelled(ids)[i] \in ReservationRow
  <2>1. [reservation[i] EXCEPT !.status = "CANCELLED"] \in ReservationRow
    BY <1>2 DEF ReservationRow
  <2>. QED
    BY <1>1, <1>2, <1>3, <2>1
<1>5. Cancelled(ids) \in [1 .. Len(reservation) -> ReservationRow]
  BY <1>1, <1>3, <1>4 DEF Cancelled
<1>6. \A owners : OwnedBy(reservation, owners) => OwnedBy(Cancelled(ids), owners)
  <2>1. \A i \in DOMAIN reservation : Cancelled(ids)[i].request = reservation[i].request
    BY <1>1, <1>2, <1>3 DEF ReservationRow
  <2>. QED
    BY <1>3, <2>1 DEF OwnedBy
<1>. QED
  BY <1>1, <1>3, <1>5, <1>6, FunctionIsSeq

\* Nothing cancelled, nothing added.
LEMMA NothingWritten ==
  ASSUME reservation \in Seq(ReservationRow)
  PROVE  /\ Cancelled({}) = reservation
         /\ Cancelled({}) \o << >> = reservation
         /\ << >> \in Seq(ReservationRow)
         /\ \A owners : OwnedBy(<< >>, owners)
<1>1. Cancelled({}) = reservation
  <2>1. /\ Cancelled({}) \in Seq(ReservationRow)
        /\ Len(Cancelled({})) = Len(reservation)
        /\ \A i \in DOMAIN reservation : Cancelled({})[i] = reservation[i]
    BY CancelledType
  <2>2. DOMAIN reservation = 1 .. Len(reservation)
    BY LenProperties
  <2>. QED
    BY <2>1, <2>2, SeqEqual
<1>. QED
  BY <1>1, EmptySeq, ConcatEmptySeq DEF OwnedBy

\* A step that only reads.
LEMMA ReadingKeepsTypes ==
  ASSUME HandlersTypeOK, UNCHANGED tables, NEW a \in Actor, NEW t, Goto(a, t),
         TaskOK(t, DOMAIN request, DOMAIN reservation)
  PROVE  StepOK
<1>1. request' = request /\ reservation' = reservation /\ resourceStatus' = resourceStatus
  BY DEF tables
<1>2. DOMAIN task' = Actor /\ TasksOK'
  BY <1>1, OneActorMoves
<1>3. reservation' = Cancelled({}) \o << >> /\ << >> \in Seq(ReservationRow)
  BY <1>1, NothingWritten DEF HandlersTypeOK
<1>. QED
  BY <1>1, <1>2, <1>3 DEF HandlersTypeOK, Owners, StepOK, CancelsAndAdds

\* A flushed row is a row.
LEMMA WriteBackType ==
  ASSUME NEW current \in RequestRow, NEW seen \in RequestRow, NEW next \in RequestRow
  PROVE  WriteBack(current, seen, next) \in RequestRow
BY DEF WriteBack, RequestRow, Period

\* One request is written back or its status changed.
LEMMA OneRequestUpdated ==
  ASSUME request \in Seq(RequestRow), NEW q \in DOMAIN request, NEW row \in RequestRow
  PROVE  /\ [request EXCEPT ![q] = row] \in Seq(RequestRow)
         /\ DOMAIN [request EXCEPT ![q] = row] = DOMAIN request
  BY LenProperties, ElementOfSeq, ExceptSeq

\* A writing step: one request is added or changed, rows are cancelled and added.
LEMMA WritingKeepsTypes ==
  ASSUME HandlersTypeOK, NEW a \in Actor, Goto(a, Idle), UNCHANGED resourceStatus,
         request' \in Seq(RequestRow), DOMAIN request \subseteq DOMAIN request',
         NEW ids, NEW rows \in Seq(ReservationRow),
         reservation' = Cancelled(ids) \o rows,
         OwnedBy(rows, Owners')
  PROVE  StepOK
<1>1. reservation \in Seq(ReservationRow) /\ OwnedBy(reservation, Owners)
  BY DEF HandlersTypeOK
<1>2. /\ Cancelled(ids) \in Seq(ReservationRow)
      /\ OwnedBy(Cancelled(ids), Owners)
      /\ DOMAIN Cancelled(ids) = DOMAIN reservation
  BY <1>1, CancelledType
<1>3. OwnedBy(Cancelled(ids), Owners')
  BY <1>2 DEF OwnedBy, Owners
<1>4. reservation' \in Seq(ReservationRow) /\ OwnedBy(reservation', Owners')
  BY <1>2, <1>3, ConcatSlots, ConcatProperties
<1>5. DOMAIN reservation \subseteq DOMAIN reservation'
  BY <1>2, ConcatProperties, LenProperties
<1>6. TaskOK(Idle, DOMAIN request', DOMAIN reservation')
  BY DEF TaskOK, Idle
<1>7. DOMAIN task' = Actor /\ TasksOK'
  BY <1>5, <1>6, OneActorMoves
<1>. QED
  BY <1>4, <1>7 DEF HandlersTypeOK, StepOK, CancelsAndAdds

\* Every step leaves tables and tasks of the declared kinds.
LEMMA HandlersKeepTypes ==
  ASSUME HandlersTypeOK, [Next]_vars
  PROVE  StepOK
<1>1. /\ request \in Seq(RequestRow) /\ reservation \in Seq(ReservationRow)
      /\ DOMAIN request = 1 .. Len(request) /\ Len(request) \in Nat
      /\ DOMAIN reservation = 1 .. Len(reservation) /\ Len(reservation) \in Nat
      /\ \A q \in DOMAIN request : request[q] \in RequestRow /\ q # NoRequest
      /\ \A i \in DOMAIN reservation : reservation[i] \in ReservationRow
      /\ \A i \in DOMAIN reservation : reservation[i].request \in Owners
  BY LenProperties, ElementOfSeq DEF HandlersTypeOK, NoRequest, OwnedBy
<1>2. \A a \in Actor : TaskOK(task[a], DOMAIN request, DOMAIN reservation)
  BY DEF HandlersTypeOK, TasksOK
<1>3. /\ Periods \subseteq Period /\ EntryTimes \subseteq Slot
      /\ EntrySources \subseteq SourceType /\ StatusChoices \subseteq ResourceStatus
      /\ Staff \subseteq Actor /\ Thread \subseteq Actor /\ Worker \subseteq Actor
  BY HandlerAssumption DEF Actor
<1>4. /\ Cancelled({}) = reservation /\ Cancelled({}) \o << >> = reservation
      /\ << >> \in Seq(ReservationRow) /\ \A owners : OwnedBy(<< >>, owners)
  BY <1>1, NothingWritten
<1>5. ASSUME NEW s \in Actor, NEW q \in DOMAIN request, Load(s, q)
      PROVE  StepOK
  <2>1. TaskOK([at |-> "awaiting form", q |-> q, seen |-> request[q]],
               DOMAIN request, DOMAIN reservation)
    BY <1>1 DEF TaskOK
  <2>. QED
    BY <1>5, <2>1, ReadingKeepsTypes DEF Load
<1>6. ASSUME NEW a \in Actor, Rollback(a)
      PROVE  StepOK
  <2>1. TaskOK(Idle, DOMAIN request, DOMAIN reservation)
    BY DEF TaskOK, Idle
  <2>. QED
    BY <1>6, <2>1, ReadingKeepsTypes DEF Rollback
\* A check that ends in a decision to be written.
<1>7. ASSUME NEW s \in Actor, NEW q \in DOMAIN request \union {NoRequest},
             NEW seen \in RequestRow, NEW next \in RequestRow, NEW release,
             NEW rows \in Seq(ReservationRow), OwnedBy(rows, DOMAIN request),
             UNCHANGED tables, Goto(s, Writing(q, seen, next, release, rows))
      PROVE  StepOK
  <2>1. TaskOK(Writing(q, seen, next, release, rows), DOMAIN request, DOMAIN reservation)
    BY <1>7 DEF TaskOK, Writing
  <2>. QED
    BY <1>7, <2>1, ReadingKeepsTypes
<1>8. ASSUME NEW s \in Actor, NEW p \in Periods, NEW rid \in ResponseId \union {NoResponseId},
             CheckCreate(s, p, rid)
      PROVE  StepOK
  <2>1. NewRequest(p, rid) \in RequestRow
    BY <1>3, NewRequestType
  <2>. QED
    BY <1>4, <1>7, <1>8, <2>1 DEF CheckCreate
\* Those who have loaded a row.
<1>9. ASSUME NEW s \in Actor, HasForm(s)
      PROVE  task[s].q \in DOMAIN request /\ task[s].seen \in RequestRow
  BY <1>2, <1>9 DEF HasForm, TaskOK
<1>10. ASSUME NEW s \in Actor, NEW p \in Periods, NEW rid \in ResponseId \union {NoResponseId},
              NEW r \in Resource \union {NoResource}, CheckEdit(s, p, rid, r)
       PROVE  StepOK
  <2>1. WithFields(task[s].seen, p, rid, r) \in RequestRow
    BY <1>3, <1>9, <1>10, WithFieldsType DEF CheckEdit
  <2>. QED
    BY <1>4, <1>7, <1>9, <1>10, <2>1 DEF CheckEdit
\* The rows of a request.
<1>11. ASSUME NEW q \in DOMAIN request, NEW r \in Resource, NEW p \in Period, NEW conflicts
       PROVE  /\ BookingRows(q, r, ExpandSlots(p), conflicts) \in Seq(ReservationRow)
              /\ OwnedBy(BookingRows(q, r, ExpandSlots(p), conflicts), DOMAIN request)
  <2>1. q \in Nat
    BY <1>1
  <2>2. OwnedBy(BookingRows(q, r, ExpandSlots(p), conflicts), DOMAIN request)
    BY DEF BookingRows, OwnedBy
  <2>. QED
    BY <2>1, <2>2, RowsForPeriod
<1>12. ASSUME NEW s \in Actor, NEW r \in Resource, NEW allow, CheckApprove(s, r, allow)
       PROVE  StepOK
  <2>1. task[s].q \in DOMAIN request /\ task[s].seen \in RequestRow
    BY <1>9, <1>12 DEF CheckApprove
  <2>2. /\ [task[s].seen EXCEPT !.assigned = r, !.status = "APPROVED"] \in RequestRow
        /\ task[s].seen.period \in Period
    BY <2>1 DEF RequestRow, RequestStatus
  <2>. QED
    BY <1>7, <1>11, <1>12, <2>1, <2>2 DEF CheckApprove
<1>13. ASSUME NEW s \in Actor, NEW p \in Periods, NEW rid \in ResponseId \union {NoResponseId},
              NEW r \in Resource, NEW allow, CheckAmend(s, p, rid, r, allow)
       PROVE  StepOK
  <2>1. task[s].q \in DOMAIN request /\ task[s].seen \in RequestRow /\ p \in Period
    BY <1>3, <1>9, <1>13 DEF CheckAmend
  <2>2. /\ WithFields(task[s].seen, p, rid, r) \in RequestRow
        /\ WithFields(task[s].seen, p, rid, r).assigned = r
    BY <2>1, WithFieldsType, NullAssumption
  <2>3. CASE Goto(s, Writing(task[s].q, task[s].seen, WithFields(task[s].seen, p, rid, r),
                             ActiveOf(task[s].q),
                             BookingRows(task[s].q, r, ExpandSlots(p),
                                         SlotConflicts(reservation, r, ExpandSlots(p),
                                                       task[s].q))))
    <3>1. UNCHANGED tables
      BY <1>13 DEF CheckAmend
    <3>. QED
      BY <1>7, <1>11, <2>1, <2>2, <2>3, <3>1
  <2>4. CASE Goto(s, [at |-> "amending", q |-> task[s].q, seen |-> task[s].seen,
                      next |-> WithFields(task[s].seen, p, rid, r), allow |-> allow])
    <3>1. TaskOK([at |-> "amending", q |-> task[s].q, seen |-> task[s].seen,
                  next |-> WithFields(task[s].seen, p, rid, r), allow |-> allow],
                 DOMAIN request, DOMAIN reservation)
      BY <2>1, <2>2 DEF TaskOK
    <3>2. UNCHANGED tables
      BY <1>13 DEF CheckAmend
    <3>. QED
      BY <2>4, <3>1, <3>2, ReadingKeepsTypes
  <2>. QED
    BY <1>13, <2>3, <2>4 DEF CheckAmend
<1>14. ASSUME NEW s \in Actor, CheckReject(s) \/ CheckCancel(s)
       PROVE  StepOK
  <2>1. task[s].q \in DOMAIN request /\ task[s].seen \in RequestRow
    BY <1>9, <1>14 DEF CheckReject, CheckCancel
  <2>2. /\ [task[s].seen EXCEPT !.status = "REJECTED"] \in RequestRow
        /\ [task[s].seen EXCEPT !.status = "CANCELLED"] \in RequestRow
    BY <2>1 DEF RequestRow, RequestStatus
  <2>. QED
    BY <1>4, <1>7, <1>14, <2>1, <2>2 DEF CheckReject, CheckCancel
<1>15. ASSUME NEW s \in Actor, NEW q \in DOMAIN request, CheckReopen(s, q)
       PROVE  StepOK
  <2>1. [request[q] EXCEPT !.status = "PENDING"] \in RequestRow
    BY <1>1 DEF RequestRow, RequestStatus
  <2>. QED
    BY <1>1, <1>4, <1>7, <1>15, <2>1 DEF CheckReopen
<1>16. ASSUME NEW s \in Actor, Commit(s)
       PROVE  StepOK
  <2>1. /\ task[s].q \in DOMAIN request \union {NoRequest}
        /\ task[s].seen \in RequestRow /\ task[s].next \in RequestRow
        /\ task[s].rows \in Seq(ReservationRow)
        /\ OwnedBy(task[s].rows, DOMAIN request)
    BY <1>2, <1>16 DEF Commit, TaskOK
  <2>2. request' \in Seq(RequestRow) /\ DOMAIN request \subseteq DOMAIN request'
    <3>1. CASE task[s].q = NoRequest
      <4>1. request' = Append(request, task[s].next)
        BY <1>16, <3>1 DEF Commit
      <4>2. request' \in Seq(RequestRow) /\ Len(request') = Len(request) + 1
        BY <1>1, <2>1, <4>1, AppendProperties
      <4>3. DOMAIN request' = 1 .. Len(request')
        BY <4>2, LenProperties
      <4>. QED
        BY <1>1, <4>2, <4>3
    <3>2. CASE task[s].q # NoRequest
      <4>1. request' = [request EXCEPT ![task[s].q] = WriteBack(request[task[s].q],
                                                        task[s].seen, task[s].next)]
        BY <1>16, <3>2 DEF Commit
      <4>2. WriteBack(request[task[s].q], task[s].seen, task[s].next) \in RequestRow
        BY <1>1, <2>1, <3>2, WriteBackType
      <4>. QED
        BY <1>1, <2>1, <3>2, <4>1, <4>2, OneRequestUpdated
    <3>. QED
      BY <3>1, <3>2
  <2>3. OwnedBy(task[s].rows, Owners')
    BY <2>1, <2>2 DEF OwnedBy, Owners
  <2>4. /\ Goto(s, Idle) /\ UNCHANGED resourceStatus
        /\ reservation' = Cancelled(task[s].release) \o task[s].rows
    BY <1>16 DEF Commit
  <2>. QED
    BY <2>1, <2>2, <2>3, <2>4, WritingKeepsTypes
<1>17. ASSUME NEW s \in Actor, CommitAmend(s)
       PROVE  StepOK
  <2>. DEFINE q     == task[s].q
              r     == task[s].next.assigned
              slots == ExpandSlots(task[s].next.period)
              rows  == BookingRows(q, r, slots, SlotConflicts(reservation, r, slots, q))
  <2>1. /\ q \in DOMAIN request /\ r \in Resource
        /\ task[s].seen \in RequestRow /\ task[s].next \in RequestRow
    BY <1>2, <1>17 DEF CommitAmend, TaskOK
  <2>2. task[s].next.period \in Period
    BY <2>1 DEF RequestRow
  <2>3. Goto(s, Idle) /\ UNCHANGED resourceStatus
    BY <1>17 DEF CommitAmend
  <2>4. CASE request' = request /\ reservation' = reservation
    <3>1. OwnedBy(<< >>, Owners')
      BY <1>4
    <3>. QED
      BY <1>1, <1>4, <2>3, <2>4, <3>1, WritingKeepsTypes
  <2>5. CASE /\ request' = [request EXCEPT ![q] = WriteBack(@, task[s].seen, task[s].next)]
             /\ reservation' = Cancelled(ActiveOf(q)) \o rows
    <3>1. WriteBack(request[q], task[s].seen, task[s].next) \in RequestRow
      BY <1>1, <2>1, WriteBackType
    <3>2. request' \in Seq(RequestRow) /\ DOMAIN request' = DOMAIN request
      BY <1>1, <2>1, <2>5, <3>1, OneRequestUpdated
    <3>3. rows \in Seq(ReservationRow) /\ OwnedBy(rows, DOMAIN request)
      BY <1>11, <2>1, <2>2
    <3>. HIDE DEF rows
    <3>4. OwnedBy(rows, Owners')
      BY <3>2, <3>3 DEF OwnedBy, Owners
    <3>. QED
      BY <2>3, <2>5, <3>2, <3>3, <3>4, WritingKeepsTypes
  <2>. QED
    BY <1>17, <2>4, <2>5 DEF CommitAmend
<1>18. ASSUME NEW t \in Actor, NEW i \in DOMAIN reservation, LoadReservation(t, i)
       PROVE  StepOK
  <2>. DEFINE q == reservation[i].request
              k == [at |-> "releasing", i |-> i, q |-> q,
                    approved |-> q # NoRequest /\ request[q].status = "APPROVED"]
  <2>1. q \in Owners
    BY <1>1
  <2>2. k.approved = TRUE => q \in DOMAIN request
    BY <2>1 DEF Owners
  <2>3. k.at = "releasing" /\ k.i = i /\ k.q = q
    OBVIOUS
  <2>4. UNCHANGED tables /\ Goto(t, k)
    BY <1>18 DEF LoadReservation
  <2>. HIDE DEF k
  <2>5. TaskOK(k, DOMAIN request, DOMAIN reservation)
    BY <2>2, <2>3 DEF TaskOK
  <2>. QED
    BY <2>4, <2>5, ReadingKeepsTypes
<1>19. ASSUME NEW t \in Actor, CommitRelease(t)
       PROVE  StepOK
  <2>. DEFINE q == task[t].q
  <2>1. /\ Goto(t, Idle) /\ UNCHANGED resourceStatus
        /\ reservation' = Cancelled({task[t].i})
        /\ request' = IF task[t].approved /\ ~ HoldsActiveSlot(reservation', q)
                        THEN WithStatus(request, q, "CANCELLED") ELSE request
    BY <1>19 DEF CommitRelease
  <2>2. task[t].approved = TRUE => q \in DOMAIN request
    BY <1>2, <1>19 DEF CommitRelease, TaskOK
  <2>3. \/ request' = request
        \/ q \in DOMAIN request /\ request' = WithStatus(request, q, "CANCELLED")
    BY <2>1, <2>2
  <2>4. request' \in Seq(RequestRow) /\ DOMAIN request \subseteq DOMAIN request'
    <3>1. CASE request' = request
      BY <1>1, <3>1
    <3>2. CASE q \in DOMAIN request /\ request' = WithStatus(request, q, "CANCELLED")
      <4>1. request' \in Seq(RequestRow) /\ Len(request') = Len(request)
        BY <1>1, <3>2, StatusUpdateType DEF RequestStatus
      <4>. QED
        BY <4>1, LenProperties, <1>1
    <3>. QED
      BY <2>3, <3>1, <3>2
  <2>5. Cancelled({task[t].i}) \o << >> = Cancelled({task[t].i})
    BY <1>1, CancelledType, ConcatEmptySeq
  <2>6. OwnedBy(<< >>, Owners')
    BY <1>4
  <2>. QED
    BY <1>4, <2>1, <2>4, <2>5, <2>6, WritingKeepsTypes
<1>20. ASSUME NEW t \in Actor, NEW r \in Resource, NEW source \in EntrySources,
              NEW interval \in EntryTimes, CheckManual(t, r, source, interval)
       PROVE  StepOK
  <2>1. /\ EntryRow(r, source, interval) \in ReservationRow
        /\ EntryRow(r, source, interval).request = NoRequest
    BY <1>3, EntryRowType DEF EntryRow
  <2>2. TaskOK([at |-> "inserting", row |-> EntryRow(r, source, interval)],
               DOMAIN request, DOMAIN reservation)
    BY <2>1 DEF TaskOK
  <2>. QED
    BY <1>20, <2>2, ReadingKeepsTypes DEF CheckManual
<1>21. ASSUME NEW t \in Actor, CommitManual(t)
       PROVE  StepOK
  <2>1. task[t].row \in ReservationRow /\ task[t].row.request = NoRequest
    BY <1>2, <1>21 DEF CommitManual, TaskOK
  <2>2. /\ <<task[t].row>> \in Seq(ReservationRow)
        /\ reservation' = Cancelled({}) \o <<task[t].row>>
    <3>1. reservation' = Append(reservation, task[t].row)
      BY <1>21 DEF CommitManual
    <3>2. Append(reservation, task[t].row) = reservation \o <<task[t].row>>
      BY <1>1, <2>1, AppendIsConcat
    <3>3. <<task[t].row>> \in Seq(ReservationRow)
      BY <2>1
    <3>. QED
      BY <1>4, <3>1, <3>2, <3>3
  <2>3. OwnedBy(<<task[t].row>>, Owners')
    BY <2>1 DEF OwnedBy, Owners
  <2>4. Goto(t, Idle) /\ resourceStatus' = resourceStatus /\ request' = request
    BY <1>21 DEF CommitManual
  <2>. QED
    BY <1>1, <2>2, <2>3, <2>4, WritingKeepsTypes
<1>22. ASSUME NEW w \in Actor, NEW p \in Periods, NEW rid \in ResponseId \union {NoResponseId},
              NEW facility \in Resource \union {NoResource},
              NEW r \in Resource \union {NoResource}, ReadApplication(w, p, rid, facility, r)
       PROVE  StepOK
  <2>. DEFINE free == /\ facility # NoResource
                      /\ FullyAvailable(SlotConflicts(reservation, facility,
                                                      ExpandSlots(p), NoRequest))
              k == [at |-> "importing", period |-> p, responseId |-> rid, robot |-> r,
                    available |-> free]
  <2>1. /\ UNCHANGED tables /\ Goto(w, k) /\ ValidPeriod(p)
        /\ r = NoResource => facility = NoResource
    BY <1>22 DEF ReadApplication
  <2>2. free = TRUE => r \in Resource
    BY <2>1
  <2>. HIDE DEF free
  <2>3. /\ k.at = "importing" /\ k.period = p /\ k.responseId = rid /\ k.robot = r
        /\ k.available = free
    OBVIOUS
  <2>. HIDE DEF k
  <2>4. TaskOK(k, DOMAIN request, DOMAIN reservation)
    BY <1>3, <2>1, <2>2, <2>3 DEF TaskOK
  <2>. QED
    BY <2>1, <2>4, ReadingKeepsTypes
<1>23. ASSUME NEW w \in Actor, CommitImport(w)
       PROVE  StepOK
  <2>. DEFINE t         == task[w]
              q         == Len(request) + 1
              new       == NewRequest(t.period, t.responseId)
              slots     == ExpandSlots(t.period)
              conflicts == SlotConflicts(reservation, t.robot, slots, q)
              rows      == BookingRows(q, t.robot, slots, conflicts)
  <2>1. /\ t.period \in Period /\ t.responseId \in ResponseId \union {NoResponseId}
        /\ t.available = TRUE => t.robot \in Resource
    BY <1>2, <1>23 DEF CommitImport, TaskOK
  <2>2. Goto(w, Idle) /\ UNCHANGED resourceStatus
    BY <1>23 DEF CommitImport
  <2>3. new \in RequestRow
    BY <2>1, NewRequestType
  <2>4. ASSUME NEW row \in RequestRow, request' = Append(request, row)
        PROVE  request' \in Seq(RequestRow) /\ DOMAIN request' = DOMAIN request \union {q}
    <3>1. request' \in Seq(RequestRow) /\ Len(request') = Len(request) + 1
      BY <1>1, <2>4, AppendProperties
    <3>2. DOMAIN request' = 1 .. Len(request')
      BY <3>1, LenProperties
    <3>. QED
      BY <1>1, <3>1, <3>2
  <2>5. CASE StillFree(t, conflicts)
    <3>1. t.robot \in Resource
      BY <2>1, <2>5 DEF StillFree
    <3>2. [new EXCEPT !.assigned = t.robot, !.status = "APPROVED"] \in RequestRow
      BY <2>3, <3>1 DEF RequestRow, RequestStatus
    <3>3. /\ request' = Append(request, [new EXCEPT !.assigned = t.robot, !.status = "APPROVED"])
          /\ reservation' = reservation \o rows
      BY <1>23, <2>5 DEF CommitImport
    <3>4. rows \in Seq(ReservationRow) /\ OwnedBy(rows, {q})
      <4>1. q \in Nat
        BY <1>1
      <4>2. OwnedBy(rows, {q})
        BY DEF BookingRows, OwnedBy
      <4>. QED
        BY <2>1, <3>1, <4>1, <4>2, RowsForPeriod
    <3>. HIDE DEF rows, new
    <3>5. request' \in Seq(RequestRow) /\ DOMAIN request' = DOMAIN request \union {q}
      BY <2>4, <3>2, <3>3
    <3>. HIDE DEF q
    <3>6. OwnedBy(rows, Owners')
      BY <3>4, <3>5 DEF OwnedBy, Owners
    <3>. QED
      BY <1>4, <2>2, <3>3, <3>4, <3>5, <3>6, WritingKeepsTypes
  <2>6. CASE ~ StillFree(t, conflicts)
    <3>1. request' = Append(request, new) /\ reservation' = reservation
      BY <1>23, <2>6 DEF CommitImport
    <3>. HIDE DEF new
    <3>2. request' \in Seq(RequestRow) /\ DOMAIN request' = DOMAIN request \union {q}
      BY <2>3, <2>4, <3>1
    <3>3. OwnedBy(<< >>, Owners')
      BY <1>4
    <3>. QED
      BY <1>4, <2>2, <3>1, <3>2, <3>3, WritingKeepsTypes
  <2>. QED
    BY <2>5, <2>6
<1>24. ASSUME NEW s \in Actor, NEW r \in Resource, NEW status \in StatusChoices,
              CommitResource(s, r, status)
       PROVE  StepOK
  <2>1. /\ resourceStatus' = [resourceStatus EXCEPT ![r] = status]
        /\ request' = request /\ reservation' = reservation /\ task' = task
    BY <1>24 DEF CommitResource
  <2>2. resourceStatus' \in [Resource -> ResourceStatus]
    BY <1>3, <2>1 DEF HandlersTypeOK
  <2>. QED
    BY <1>4, <2>1, <2>2 DEF HandlersTypeOK, TasksOK, Owners, StepOK, CancelsAndAdds
<1>25. CASE UNCHANGED vars
  BY <1>4, <1>25 DEF vars, HandlersTypeOK, TasksOK, Owners, StepOK, CancelsAndAdds
<1>. QED
  BY <1>3, <1>5, <1>6, <1>8, <1>10, <1>12, <1>13, <1>14, <1>15, <1>16, <1>17, <1>18, <1>19,
     <1>20, <1>21, <1>22, <1>23, <1>24, <1>25
  DEF Next, StaffStep, ThreadStep, WorkerStep

\* The tables hold rows of the declared kinds, however the handlers interleave.
LEMMA HandlersTypeCorrect == Spec => []HandlersTypeOK
<1>1. ASSUME Init
      PROVE  HandlersTypeOK
  <2>1. /\ request \in Seq(RequestRow) /\ reservation \in Seq(ReservationRow)
        /\ resourceStatus \in [Resource -> ResourceStatus]
        /\ DOMAIN task = Actor
    BY <1>1, EmptySeq DEF Init, ResourceStatus
  <2>2. OwnedBy(reservation, Owners)
    BY <1>1 DEF Init, OwnedBy
  <2>3. TasksOK
    BY <1>1 DEF Init, TasksOK, TaskOK, Idle
  <2>. QED
    BY <2>1, <2>2, <2>3 DEF HandlersTypeOK
<1>2. HandlersTypeOK /\ [Next]_vars => HandlersTypeOK'
  BY HandlersKeepTypes DEF StepOK
<1>. QED
  BY <1>1, <1>2, PTL DEF Spec

-----------------------------------------------------------------------------
(* The reservations                                                        *)

\* Whoever releases a slot that somebody else has just released or rebuilt, no
\* step of any handler deletes a reservation, revives one or rewrites it.
THEOREM HandlersKeepHistory == Spec => HistoryKept
<1>1. ASSUME HandlersTypeOK, [Next]_vars
      PROVE  Service!KeepsHistory
  <2>1. PICK ids : \E rows \in Seq(ReservationRow) : reservation' = Cancelled(ids) \o rows
    BY <1>1, HandlersKeepTypes DEF StepOK, CancelsAndAdds
  <2>2. PICK rows \in Seq(ReservationRow) : reservation' = Cancelled(ids) \o rows
    BY <2>1
  <2>3. reservation \in Seq(ReservationRow)
    BY <1>1 DEF HandlersTypeOK
  <2>4. /\ DOMAIN reservation = 1 .. Len(reservation) /\ Len(reservation) \in Nat
        /\ Len(rows) \in Nat
    BY <2>3, LenProperties
  <2>5. /\ Cancelled(ids) \in Seq(ReservationRow)
        /\ Len(Cancelled(ids)) = Len(reservation)
        /\ \A i \in DOMAIN reservation :
             Cancelled(ids)[i] = IF i \in ids
                                   THEN [reservation[i] EXCEPT !.status = "CANCELLED"]
                                   ELSE reservation[i]
    BY <2>3, CancelledType
  <2>6. /\ Cancelled(ids) \o rows \in Seq(ReservationRow)
        /\ Len(Cancelled(ids) \o rows) = Len(reservation) + Len(rows)
        /\ \A i \in 1 .. Len(reservation) : (Cancelled(ids) \o rows)[i] = Cancelled(ids)[i]
    BY <2>4, <2>5, ConcatProperties
  <2>7. DOMAIN reservation' = 1 .. Len(reservation) + Len(rows)
    BY <2>2, <2>6, LenProperties
  <2>8. ASSUME NEW i \in DOMAIN reservation
        PROVE  /\ i \in DOMAIN reservation'
               /\ reservation'[i] \in {reservation[i],
                                       [reservation[i] EXCEPT !.status = "CANCELLED"]}
    <3>1. i \in 1 .. Len(reservation) /\ reservation'[i] = Cancelled(ids)[i]
      BY <2>2, <2>4, <2>6
    <3>2. i \in 1 .. Len(reservation) + Len(rows)
      BY <2>4, <3>1
    <3>. QED
      BY <2>5, <2>7, <3>1, <3>2
  <2>. QED
    BY <2>8 DEF Service!KeepsHistory
<1>. QED
  BY <1>1, HandlersTypeCorrect, PTL DEF Spec, HistoryKept

\* While a worker has an import in hand, it is the only one to end it, by the
\* commit or by giving up.
LEMMA ImportEnds ==
  ASSUME HandlersTypeOK, [Next]_vars, NEW w \in Worker,
         task[w].at = "importing", task'[w] = Idle
  PROVE  CommitImport(w) \/ reservation' = reservation
<1>1. DOMAIN task = Actor /\ w \in Actor
  BY DEF HandlersTypeOK, Actor
<1>2. task[w] # Idle
  BY DEF Idle
<1>3. ASSUME NEW a \in Actor, NEW t, Goto(a, t)
      PROVE  a = w
  BY <1>1, <1>2, <1>3 DEF Goto
<1>4. ASSUME NEW a \in Actor,
             Commit(a) \/ CommitAmend(a) \/ CommitRelease(a) \/ CommitManual(a)
      PROVE  FALSE
  <2>1. Goto(a, Idle) /\ task[a].at # "importing"
    BY <1>4 DEF Commit, CommitAmend, CommitRelease, CommitManual
  <2>. QED
    BY <1>3, <2>1
<1>5. ASSUME NEW a \in Actor, CommitImport(a)
      PROVE  CommitImport(w)
  <2>1. Goto(a, Idle)
    BY <1>5 DEF CommitImport
  <2>. QED
    BY <1>3, <1>5, <2>1
<1>6. ASSUME NEW s \in Staff, StaffStep(s)
      PROVE  reservation' = reservation
  <2>1. s \in Actor
    BY DEF Actor
  <2>. QED
    BY <1>4, <1>6, <2>1 DEF StaffStep, tables, Load, CheckReopen, CheckCreate, CheckEdit,
       CheckAmend, CheckApprove, CheckReject, CheckCancel
<1>7. ASSUME NEW t \in Thread, ThreadStep(t)
      PROVE  reservation' = reservation
  <2>1. t \in Actor
    BY DEF Actor
  <2>. QED
    BY <1>4, <1>7, <2>1 DEF ThreadStep, tables, LoadReservation, CheckManual
<1>8. ASSUME NEW v \in Worker, WorkerStep(v)
      PROVE  CommitImport(w) \/ reservation' = reservation
  <2>1. v \in Actor
    BY DEF Actor
  <2>. QED
    BY <1>5, <1>8, <2>1 DEF WorkerStep, tables, ReadApplication
<1>. QED
  BY <1>6, <1>7, <1>8 DEF Next, CommitResource, Rollback, tables, vars

\* What the worker writes is over nothing: the re-check runs under the write
\* lock, and the conflict query leaves nothing out.
THEOREM WorkerNeverOverlaps == Spec => WorkerBooksOnlyFreeSlots
<1>1. ASSUME HandlersTypeOK, [Next]_vars, NEW w \in Worker,
             task[w].at = "importing", task'[w] = Idle,
             NEW n \in DOMAIN reservation' \ DOMAIN reservation,
             NEW i \in DOMAIN reservation, ActiveRow(reservation[i]),
             reservation[i].resource = reservation'[n].resource
      PROVE  ~ Overlaps(reservation[i], reservation'[n])
  <2>. DEFINE t         == task[w]
              q         == Len(request) + 1
              slots     == ExpandSlots(t.period)
              conflicts == SlotConflicts(reservation, t.robot, slots, q)
              rows      == BookingRows(q, t.robot, slots, conflicts)
              k         == n - Len(reservation)
  <2>1. CommitImport(w)
    BY <1>1, ImportEnds
  <2>2. StillFree(t, conflicts) /\ reservation' = reservation \o rows
    BY <1>1, <2>1 DEF CommitImport
  <2>3. FullyAvailable(conflicts) /\ t.available = TRUE
    BY <2>2 DEF StillFree
  <2>4. TaskOK(t, DOMAIN request, DOMAIN reservation)
    BY <1>1 DEF HandlersTypeOK, TasksOK, Actor
  <2>5. t.period \in Period /\ t.robot \in Resource
    BY <1>1, <2>3, <2>4 DEF TaskOK
  <2>6. /\ reservation \in Seq(ReservationRow) /\ Len(reservation) \in Nat
        /\ DOMAIN reservation = 1 .. Len(reservation)
        /\ request \in Seq(RequestRow) /\ Len(request) \in Nat /\ q \in Nat
        /\ DOMAIN request = 1 .. Len(request)
    BY <1>1, LenProperties DEF HandlersTypeOK
  <2>7. slots \in Seq(Slot) /\ DOMAIN slots = 1 .. Len(slots) /\ Len(slots) \in Nat
    BY <2>5, ExpandSlotsType, LenProperties
  <2>8. /\ rows \in Seq(ReservationRow) /\ Len(rows) = Len(slots)
        /\ \A l \in DOMAIN slots : /\ rows[l].start = slots[l].start
                                   /\ rows[l].end = slots[l].end
                                   /\ rows[l].resource = t.robot
    <3>1. rows \in Seq(ReservationRow) /\ Len(rows) = Len(slots)
      BY <2>5, <2>6, <2>7, BookingRowsType
    <3>. QED
      BY <3>1 DEF BookingRows
  <2>9. k \in DOMAIN slots /\ reservation'[n] = rows[k]
    <3>. HIDE DEF rows, slots, k
    <3>1. rows \in Seq(ReservationRow) /\ reservation \in Seq(ReservationRow)
      BY <2>6, <2>8
    <3>2. DOMAIN reservation' = 1 .. Len(reservation) + Len(slots)
      <4>1. /\ reservation \o rows \in Seq(ReservationRow)
            /\ Len(reservation \o rows) = Len(reservation) + Len(rows)
        BY <3>1, ConcatProperties
      <4>. QED
        BY <2>2, <2>8, <4>1, LenProperties
    <3>3. n \in Nat /\ n > Len(reservation) /\ n <= Len(reservation) + Len(slots)
      BY <1>1, <2>6, <2>7, <3>2
    <3>. QED
      BY <2>2, <2>6, <2>7, <2>8, <3>3, ConcatProperties DEF k
  <2>10. conflicts[k] = {}
    <3>1. DOMAIN conflicts = DOMAIN slots
      BY DEF SlotConflicts
    <3>. QED
      BY <2>3, <2>9, <3>1 DEF FullyAvailable
  <2>11. reservation[i].request # q
    <3>1. reservation[i].request \in Owners
      BY <1>1 DEF HandlersTypeOK, OwnedBy
    <3>. QED
      BY <2>6, <3>1 DEF Owners, NoRequest
  <2>12. reservation[i].resource = t.robot
    BY <1>1, <2>8, <2>9
  <2>13. ~ Overlaps(slots[k], reservation[i])
    BY <1>1, <2>5, <2>6, <2>9, <2>10, <2>11, <2>12, ReportIsComplete
  <2>14. /\ reservation'[n].start = slots[k].start /\ reservation'[n].end = slots[k].end
         /\ slots[k].start \in Int /\ slots[k].end \in Int
    BY <2>5, <2>8, <2>9, SlotsAreProper DEF Slot
  <2>15. reservation[i].start \in Int /\ reservation[i].end \in Int
    <3>1. reservation[i] \in ReservationRow
      BY <2>6, ElementOfSeq
    <3>. QED
      BY <3>1 DEF ReservationRow
  <2>. HIDE DEF slots, k
  <2>. QED
    BY <2>13, <2>14, <2>15 DEF Overlaps
<1>2. HandlersTypeOK /\ [Next]_vars
        => [\A w \in Worker :
              task[w].at = "importing" /\ task'[w] = Idle
                => \A n \in DOMAIN reservation' \ DOMAIN reservation :
                     \A i \in DOMAIN reservation :
                       ActiveRow(reservation[i])
                         /\ reservation[i].resource = reservation'[n].resource
                         => ~ Overlaps(reservation[i], reservation'[n])]_vars
  BY <1>1
<1>. QED
  BY <1>2, HandlersTypeCorrect, PTL DEF Spec, WorkerBooksOnlyFreeSlots

-----------------------------------------------------------------------------
(* One at a time: the handlers make the decisions of BookingService        *)

\* The row that was loaded is still the one in the table.
RowIsCurrent(t) == t.q \in DOMAIN request /\ t.seen = request[t.q]

WritesNothing(t) == t.release = {} /\ t.rows = << >>

ResponseIds == ResponseId \union {NoResponseId}

\* What is about to be written is a decision that the service would take now.
CreatesNow(t) ==
  /\ t.q = NoRequest /\ WritesNothing(t)
  /\ \E p \in Periods, rid \in ResponseIds :
       /\ ValidPeriod(p) /\ ~ ResponseIdTaken(request, rid, NoRequest)
       /\ t.next = NewRequest(p, rid)

EditsNow(t) ==
  /\ t.seen.status = "PENDING" /\ WritesNothing(t)
  /\ \E p \in Periods, rid \in ResponseIds, r \in Resource \union {NoResource} :
       /\ ValidPeriod(p) /\ ~ ResponseIdTaken(request, rid, t.q)
       /\ t.next = WithFields(t.seen, p, rid, r)

Books(t, r, slots, allow) ==
  LET conflicts == SlotConflicts(reservation, r, slots, t.q)
  IN  /\ resourceStatus[r] = "Active"
      /\ slots # << >>
      /\ ~ FullyAvailable(conflicts) => allow
      /\ t.rows = BookingRows(t.q, r, slots, conflicts)

ApprovesNow(t) ==
  /\ t.seen.status = "PENDING" /\ t.release = {}
  /\ \E r \in Resource, allow \in BOOLEAN :
       /\ Books(t, r, ExpandSlots(t.seen.period), allow)
       /\ t.next = [t.seen EXCEPT !.assigned = r, !.status = "APPROVED"]

AmendsNow(t) ==
  /\ t.seen.status = "APPROVED" /\ t.release = ActiveOf(t.q)
  /\ \E p \in Periods, rid \in ResponseIds, r \in Resource, allow \in BOOLEAN :
       /\ ValidPeriod(p) /\ ~ ResponseIdTaken(request, rid, t.q)
       /\ Books(t, r, ExpandSlots(p), allow)
       /\ t.next = WithFields(t.seen, p, rid, r)

RejectsNow(t) ==
  /\ t.seen.status = "PENDING" /\ WritesNothing(t)
  /\ t.next = [t.seen EXCEPT !.status = "REJECTED"]

CancelsNow(t) ==
  /\ t.seen.status \in {"PENDING", "APPROVED"}
  /\ t.release = ActiveOf(t.q) /\ t.rows = << >>
  /\ t.next = [t.seen EXCEPT !.status = "CANCELLED"]

ReopensNow(t) ==
  /\ t.seen.status \in ClosedStatus /\ WritesNothing(t)
  /\ ~ ResponseIdTaken(request, t.seen.responseId, t.q)
  /\ t.next = [t.seen EXCEPT !.status = "PENDING"]

WritesNow(t) ==
  \/ CreatesNow(t)
  \/ RowIsCurrent(t) /\ \/ EditsNow(t)
                        \/ ApprovesNow(t)
                        \/ AmendsNow(t)
                        \/ RejectsNow(t)
                        \/ CancelsNow(t)
                        \/ ReopensNow(t)

WillAmend(t) ==
  /\ RowIsCurrent(t) /\ t.seen.status = "APPROVED" /\ t.allow \in BOOLEAN
  /\ \E p \in Periods, rid \in ResponseIds, r \in Resource :
       /\ ValidPeriod(p) /\ ~ ResponseIdTaken(request, rid, t.q)
       /\ resourceStatus[r] = "Active"
       /\ t.next = WithFields(t.seen, p, rid, r)

ReleasesNow(t) ==
  /\ t.i \in DOMAIN reservation
  /\ ActiveRow(reservation[t.i])
  /\ t.q = reservation[t.i].request
  /\ (t.approved = TRUE) <=> t.q # NoRequest /\ request[t.q].status = "APPROVED"

InsertsNow(t) ==
  \E r \in Resource, source \in EntrySources, interval \in EntryTimes :
    /\ interval.start < interval.end
    /\ {i \in ActiveReservations(reservation, r, interval.start, interval.end, NoRequest) :
          Overlaps(interval, reservation[i])} = {}
    /\ t.row = EntryRow(r, source, interval)

ImportsNow(t) ==
  /\ t.period \in Periods /\ t.responseId \in ResponseIds
  /\ ValidPeriod(t.period)
  /\ ~ ResponseIdTaken(request, t.responseId, NoRequest)
  /\ t.robot # NoResource => resourceStatus[t.robot] = "Active"

UpToDate(t) ==
  /\ t.at = "awaiting form" => RowIsCurrent(t)
  /\ t.at = "writing" => WritesNow(t)
  /\ t.at = "amending" => WillAmend(t)
  /\ t.at = "releasing" => ReleasesNow(t)
  /\ t.at = "inserting" => InsertsNow(t)
  /\ t.at = "importing" => ImportsNow(t)

\* The inductive invariant: at most one actor is under way, and what it has
\* read and checked is true of the tables as they are.
SerialInv ==
  /\ \A a, b \in Actor : task[a] # Idle /\ task[b] # Idle => a = b
  /\ \A a \in Actor : UpToDate(task[a])

\* While the tables stay, so does what is true of them.
LEMMA StaysUpToDate ==
  ASSUME UNCHANGED tables, NEW t, UpToDate(t)
  PROVE  UpToDate(t)'
<1>1. request' = request /\ reservation' = reservation /\ resourceStatus' = resourceStatus
  BY DEF tables
<1>2. RowIsCurrent(t)' <=> RowIsCurrent(t)
  BY <1>1 DEF RowIsCurrent
<1>3. /\ CreatesNow(t)' <=> CreatesNow(t)
      /\ EditsNow(t)' <=> EditsNow(t)
      /\ RejectsNow(t)' <=> RejectsNow(t)
      /\ ReopensNow(t)' <=> ReopensNow(t)
  BY <1>1 DEF CreatesNow, EditsNow, RejectsNow, ReopensNow
<1>4. \A q : ActiveOf(q)' = ActiveOf(q)
  BY <1>1 DEF ActiveOf
<1>5. \A r, slots, allow : Books(t, r, slots, allow)' <=> Books(t, r, slots, allow)
  BY <1>1 DEF Books
<1>6. /\ ApprovesNow(t)' <=> ApprovesNow(t)
      /\ AmendsNow(t)' <=> AmendsNow(t)
      /\ CancelsNow(t)' <=> CancelsNow(t)
  BY <1>1, <1>4, <1>5 DEF ApprovesNow, AmendsNow, CancelsNow
<1>7. WritesNow(t)' <=> WritesNow(t)
  BY <1>2, <1>3, <1>6 DEF WritesNow
<1>8. WillAmend(t)' <=> WillAmend(t)
  BY <1>1, <1>2 DEF WillAmend
<1>9. /\ ReleasesNow(t)' <=> ReleasesNow(t)
      /\ InsertsNow(t)' <=> InsertsNow(t)
      /\ ImportsNow(t)' <=> ImportsNow(t)
  BY <1>1 DEF ReleasesNow, InsertsNow, ImportsNow
<1>. QED
  BY <1>2, <1>7, <1>8, <1>9 DEF UpToDate

\* An actor that is alone moves on.
LEMMA LoneActorMoves ==
  ASSUME HandlersTypeOK, NEW a \in Actor, NEW t, Goto(a, t),
         \A b \in Actor \ {a} : task[b] = Idle, UpToDate(t)'
  PROVE  SerialInv'
<1>1. \A b \in Actor : task'[b] = IF b = a THEN t ELSE task[b]
  BY DEF HandlersTypeOK, Goto
<1>2. \A b \in Actor \ {a} : task'[b] = Idle
  BY <1>1
<1>3. UpToDate(Idle)'
  BY DEF UpToDate, Idle
<1>. QED
  BY <1>1, <1>2, <1>3 DEF SerialInv

\* Each check establishes what it promises, and nobody can take it back.
LEMMA SerialInvKept ==
  ASSUME OneAtATime, HandlersTypeOK, SerialInv, [Next]_vars
  PROVE  SerialInv'
<1>1. /\ \A q \in DOMAIN request : q # NoRequest
      /\ Staff \subseteq Actor /\ Thread \subseteq Actor /\ Worker \subseteq Actor
  BY LenProperties DEF HandlersTypeOK, NoRequest, Actor
<1>2. ASSUME NEW a \in Actor, CanStart(a) \/ task[a] # Idle
      PROVE  \A b \in Actor \ {a} : task[b] = Idle
  BY <1>2 DEF CanStart, SerialInv
<1>3. ASSUME NEW a \in Actor, NEW t, CanStart(a) \/ task[a] # Idle,
             UNCHANGED tables, Goto(a, t), UpToDate(t)
      PROVE  SerialInv'
  BY <1>2, <1>3, StaysUpToDate, LoneActorMoves
<1>4. ASSUME NEW a \in Actor, task[a] # Idle, Goto(a, Idle)
      PROVE  SerialInv'
  <2>1. UpToDate(Idle)'
    BY DEF UpToDate, Idle
  <2>. QED
    BY <1>2, <1>4, <2>1, LoneActorMoves
<1>5. ASSUME NEW s \in Actor, NEW q \in DOMAIN request, Load(s, q)
      PROVE  SerialInv'
  <2>1. UpToDate([at |-> "awaiting form", q |-> q, seen |-> request[q]])
    BY DEF UpToDate, RowIsCurrent
  <2>. QED
    BY <1>3, <1>5, <2>1 DEF Load
<1>6. ASSUME NEW a \in Actor, Rollback(a)
      PROVE  SerialInv'
  BY <1>4, <1>6 DEF Rollback
\* A check that ends in a decision to be written.
<1>7. ASSUME NEW s \in Actor, CanStart(s) \/ task[s] # Idle, UNCHANGED tables,
             NEW q, NEW seen, NEW next, NEW release, NEW rows,
             Goto(s, Writing(q, seen, next, release, rows)),
             WritesNow(Writing(q, seen, next, release, rows))
      PROVE  SerialInv'
  <2>. DEFINE t == Writing(q, seen, next, release, rows)
  <2>1. t.at = "writing"
    BY DEF Writing
  <2>. HIDE DEF t
  <2>2. UpToDate(t)
    BY <1>7, <2>1 DEF UpToDate, t
  <2>. QED
    BY <1>3, <1>7, <2>2 DEF t
<1>8. ASSUME NEW s \in Actor, NEW p \in Periods, NEW rid \in ResponseIds,
             CheckCreate(s, p, rid)
      PROVE  SerialInv'
  <2>1. CreatesNow(Writing(NoRequest, NewRequest(p, rid), NewRequest(p, rid), {}, << >>))
    BY <1>8 DEF CheckCreate, CreatesNow, WritesNothing, Writing
  <2>. QED
    BY <1>7, <1>8, <2>1 DEF CheckCreate, WritesNow
\* Those who have loaded a row: it is current.
<1>9. ASSUME NEW s \in Actor, HasForm(s)
      PROVE  /\ task[s] # Idle
             /\ task[s].q \in DOMAIN request /\ task[s].seen = request[task[s].q]
  <2>1. task[s].at = "awaiting form"
    BY <1>9 DEF HasForm
  <2>2. task[s] # Idle
    <3>1. "awaiting form" # "idle"
      OBVIOUS
    <3>2. task[s].at # "idle"
      BY <2>1, <3>1
    <3>. QED
      BY <3>2 DEF Idle
  <2>3. UpToDate(task[s])
    BY DEF SerialInv
  <2>. QED
    BY <2>1, <2>2, <2>3 DEF UpToDate, RowIsCurrent
<1>10. ASSUME NEW s \in Actor, NEW next, NEW release, NEW rows, HasForm(s), UNCHANGED tables,
              Goto(s, Writing(task[s].q, task[s].seen, next, release, rows)),
              LET t == Writing(task[s].q, task[s].seen, next, release, rows)
              IN  \/ EditsNow(t) \/ ApprovesNow(t) \/ AmendsNow(t)
                  \/ RejectsNow(t) \/ CancelsNow(t)
       PROVE  SerialInv'
  <2>1. RowIsCurrent(Writing(task[s].q, task[s].seen, next, release, rows))
    BY <1>9, <1>10 DEF RowIsCurrent, Writing
  <2>2. WritesNow(Writing(task[s].q, task[s].seen, next, release, rows))
    BY <1>10, <2>1 DEF WritesNow
  <2>. QED
    BY <1>7, <1>9, <1>10, <2>2
<1>11. ASSUME NEW s \in Actor, NEW p \in Periods, NEW rid \in ResponseIds,
              NEW r \in Resource \union {NoResource}, CheckEdit(s, p, rid, r)
       PROVE  SerialInv'
  <2>1. EditsNow(Writing(task[s].q, task[s].seen, WithFields(task[s].seen, p, rid, r),
                         {}, << >>))
    BY <1>11 DEF CheckEdit, EditsNow, WritesNothing, Writing
  <2>. QED
    BY <1>10, <1>11, <2>1 DEF CheckEdit
<1>12. ASSUME NEW s \in Actor, NEW r \in Resource, NEW allow \in BOOLEAN,
              CheckApprove(s, r, allow)
       PROVE  SerialInv'
  <2>. DEFINE slots == ExpandSlots(task[s].seen.period)
              rows  == BookingRows(task[s].q, r, slots,
                                   SlotConflicts(reservation, r, slots, task[s].q))
              next  == [task[s].seen EXCEPT !.assigned = r, !.status = "APPROVED"]
              t     == Writing(task[s].q, task[s].seen, next, {}, rows)
  <2>1. /\ t.q = task[s].q /\ t.seen = task[s].seen /\ t.next = next
        /\ t.release = {} /\ t.rows = rows
    BY DEF Writing
  <2>. HIDE DEF t, next
  <2>2. /\ task[s].seen.status = "PENDING" /\ resourceStatus[r] = "Active" /\ slots # << >>
        /\ ~ FullyAvailable(SlotConflicts(reservation, r, slots, task[s].q)) => allow
        /\ HasForm(s) /\ UNCHANGED tables /\ Goto(s, t)
    BY <1>12 DEF CheckApprove, t, next
  <2>. HIDE DEF rows
  <2>3. Books(t, r, slots, allow)
    BY <2>1, <2>2 DEF Books, rows
  <2>4. ApprovesNow(t)
    BY <2>1, <2>2, <2>3 DEF ApprovesNow, next
  <2>. QED
    BY <1>10, <2>2, <2>4 DEF t
<1>13. ASSUME NEW s \in Actor, NEW p \in Periods, NEW rid \in ResponseIds,
              NEW r \in Resource, NEW allow \in BOOLEAN, CheckAmend(s, p, rid, r, allow)
       PROVE  SerialInv'
  <2>. DEFINE slots     == ExpandSlots(p)
              conflicts == SlotConflicts(reservation, r, slots, task[s].q)
              rows      == BookingRows(task[s].q, r, slots, conflicts)
              next      == WithFields(task[s].seen, p, rid, r)
              t == Writing(task[s].q, task[s].seen, next, ActiveOf(task[s].q), rows)
              u == [at |-> "amending", q |-> task[s].q, seen |-> task[s].seen,
                    next |-> next, allow |-> allow]
  <2>1. /\ HasForm(s) /\ task[s].seen.status = "APPROVED" /\ ValidPeriod(p)
        /\ ~ ResponseIdTaken(request, rid, task[s].q) /\ resourceStatus[r] = "Active"
        /\ UNCHANGED tables
        /\ \/ Goto(s, t) /\ (~ FullyAvailable(conflicts) => allow)
           \/ Goto(s, u)
    BY <1>13 DEF CheckAmend
  <2>2. CASE Goto(s, t) /\ (~ FullyAvailable(conflicts) => allow)
    <3>1. /\ t.q = task[s].q /\ t.seen = task[s].seen /\ t.next = next
          /\ t.release = ActiveOf(task[s].q) /\ t.rows = rows
      BY DEF Writing
    <3>2. slots # << >>
      BY <2>1, HandlerAssumption, ValidPeriodHasSlots
    <3>. HIDE DEF t, rows, next, slots
    <3>3. Books(t, r, slots, allow)
      BY <2>1, <2>2, <3>1, <3>2 DEF Books, rows
    <3>4. AmendsNow(t)
      BY <2>1, <3>1, <3>3 DEF AmendsNow, next, slots
    <3>. QED
      BY <1>10, <2>1, <2>2, <3>4 DEF t
  <2>3. CASE Goto(s, u)
    <3>1. /\ u.at = "amending" /\ u.q = task[s].q /\ u.seen = task[s].seen /\ u.next = next
          /\ u.allow = allow
      OBVIOUS
    <3>. HIDE DEF u
    <3>2. RowIsCurrent(u)
      BY <1>9, <2>1, <3>1 DEF RowIsCurrent
    <3>3. WillAmend(u)
      BY <2>1, <3>1, <3>2 DEF WillAmend
    <3>4. UpToDate(u)
      BY <3>1, <3>3 DEF UpToDate
    <3>. QED
      BY <1>3, <1>9, <2>1, <2>3, <3>4
  <2>. QED
    BY <2>1, <2>2, <2>3
<1>14. ASSUME NEW s \in Actor, CheckReject(s)
       PROVE  SerialInv'
  <2>1. RejectsNow(Writing(task[s].q, task[s].seen,
                           [task[s].seen EXCEPT !.status = "REJECTED"], {}, << >>))
    BY <1>14 DEF CheckReject, RejectsNow, WritesNothing, Writing
  <2>. QED
    BY <1>10, <1>14, <2>1 DEF CheckReject
<1>15. ASSUME NEW s \in Actor, CheckCancel(s)
       PROVE  SerialInv'
  <2>1. CancelsNow(Writing(task[s].q, task[s].seen,
                           [task[s].seen EXCEPT !.status = "CANCELLED"],
                           ActiveOf(task[s].q), << >>))
    BY <1>15 DEF CheckCancel, CancelsNow, Writing
  <2>. QED
    BY <1>10, <1>15, <2>1 DEF CheckCancel
<1>16. ASSUME NEW s \in Actor, NEW q \in DOMAIN request, CheckReopen(s, q)
       PROVE  SerialInv'
  <2>. DEFINE next == [request[q] EXCEPT !.status = "PENDING"]
              t    == Writing(q, request[q], next, {}, << >>)
  <2>1. /\ t.q = q /\ t.seen = request[q] /\ t.next = next
        /\ t.release = {} /\ t.rows = << >>
    BY DEF Writing
  <2>. HIDE DEF t
  <2>2. RowIsCurrent(t) /\ ReopensNow(t)
    BY <1>16, <2>1 DEF CheckReopen, RowIsCurrent, ReopensNow, WritesNothing
  <2>. QED
    BY <1>7, <1>16, <2>2 DEF CheckReopen, WritesNow, t
<1>17. ASSUME NEW a \in Actor,
              \/ Commit(a) \/ CommitAmend(a) \/ CommitRelease(a) \/ CommitManual(a)
              \/ CommitImport(a)
       PROVE  SerialInv'
  <2>1. task[a].at # "idle" /\ Goto(a, Idle)
    BY <1>17 DEF Commit, CommitAmend, CommitRelease, CommitManual, CommitImport
  <2>2. task[a] # Idle
    BY <2>1 DEF Idle
  <2>. QED
    BY <1>4, <2>1, <2>2
<1>18. ASSUME NEW t \in Actor, NEW i \in DOMAIN reservation, LoadReservation(t, i)
       PROVE  SerialInv'
  <2>. DEFINE q == reservation[i].request
              loaded == q # NoRequest /\ request[q].status = "APPROVED"
              k == [at |-> "releasing", i |-> i, q |-> q, approved |-> loaded]
  <2>1. UNCHANGED tables /\ CanStart(t) /\ ActiveRow(reservation[i]) /\ Goto(t, k)
    BY <1>18 DEF LoadReservation
  <2>2. (loaded = TRUE) <=> loaded
    OBVIOUS
  <2>3. (loaded = TRUE) <=> q # NoRequest /\ request[q].status = "APPROVED"
    BY <2>2
  <2>. HIDE DEF loaded
  <2>4. k.at = "releasing" /\ k.i = i /\ k.q = q /\ k.approved = loaded
    OBVIOUS
  <2>. HIDE DEF k
  <2>5. ReleasesNow(k)
    BY <2>1, <2>3, <2>4 DEF ReleasesNow
  <2>6. UpToDate(k)
    BY <2>4, <2>5 DEF UpToDate
  <2>. QED
    BY <1>3, <2>1, <2>6
<1>19. ASSUME NEW t \in Actor, NEW r \in Resource, NEW source \in EntrySources,
              NEW interval \in EntryTimes, CheckManual(t, r, source, interval)
       PROVE  SerialInv'
  <2>1. InsertsNow([at |-> "inserting", row |-> EntryRow(r, source, interval)])
    BY <1>19 DEF CheckManual, InsertsNow
  <2>2. UpToDate([at |-> "inserting", row |-> EntryRow(r, source, interval)])
    BY <2>1 DEF UpToDate
  <2>. QED
    BY <1>3, <1>19, <2>2 DEF CheckManual
<1>20. ASSUME NEW w \in Actor, NEW p \in Periods, NEW rid \in ResponseIds,
              NEW facility \in Resource \union {NoResource},
              NEW r \in Resource \union {NoResource}, ReadApplication(w, p, rid, facility, r)
       PROVE  SerialInv'
  <2>. DEFINE free == /\ facility # NoResource
                      /\ FullyAvailable(SlotConflicts(reservation, facility,
                                                      ExpandSlots(p), NoRequest))
              k == [at |-> "importing", period |-> p, responseId |-> rid, robot |-> r,
                    available |-> free]
  <2>1. /\ UNCHANGED tables /\ CanStart(w) /\ Goto(w, k) /\ ValidPeriod(p)
        /\ ~ ResponseIdTaken(request, rid, NoRequest)
        /\ r # NoResource => resourceStatus[r] = "Active"
    BY <1>20 DEF ReadApplication
  <2>2. k.at = "importing" /\ k.period = p /\ k.responseId = rid /\ k.robot = r
    OBVIOUS
  <2>. HIDE DEF k
  <2>3. UpToDate(k)
    BY <2>1, <2>2 DEF UpToDate, ImportsNow
  <2>. QED
    BY <1>3, <2>1, <2>3
<1>21. ASSUME NEW s \in Actor, NEW r \in Resource, NEW status, CommitResource(s, r, status)
       PROVE  SerialInv'
  <2>1. \A a \in Actor : task'[a] = Idle
    BY <1>2, <1>21 DEF CommitResource, CanStart
  <2>2. UpToDate(Idle)'
    BY DEF UpToDate, Idle
  <2>. QED
    BY <2>1, <2>2 DEF SerialInv
<1>22. CASE UNCHANGED vars
  <2>1. UNCHANGED tables /\ task' = task
    BY <1>22 DEF vars, tables
  <2>. QED
    BY <2>1, StaysUpToDate DEF SerialInv
<1>. QED
  BY <1>1, <1>5, <1>6, <1>8, <1>11, <1>12, <1>13, <1>14, <1>15, <1>16, <1>17, <1>18, <1>19,
     <1>20, <1>21, <1>22
  DEF Next, StaffStep, ThreadStep, WorkerStep, ResponseIds

\* A flush onto the row it was loaded from writes the row as it was changed.
LEMMA FreshWriteBack ==
  ASSUME NEW row \in RequestRow, NEW next \in RequestRow
  PROVE  WriteBack(row, row, next) = next
BY DEF WriteBack, RequestRow, Period

\* To cancel what a request holds is to release all it ever held.
LEMMA CancelledIsReleased ==
  ASSUME reservation \in Seq(ReservationRow), NEW q
  PROVE  Cancelled(ActiveOf(q)) = Released(reservation, q)
<1>1. /\ Cancelled(ActiveOf(q)) \in Seq(ReservationRow)
      /\ Len(Cancelled(ActiveOf(q))) = Len(reservation)
      /\ \A i \in DOMAIN reservation :
           Cancelled(ActiveOf(q))[i] =
             IF i \in ActiveOf(q) THEN [reservation[i] EXCEPT !.status = "CANCELLED"]
                                  ELSE reservation[i]
  BY CancelledType
<1>2. /\ Released(reservation, q) \in Seq(ReservationRow)
      /\ Len(Released(reservation, q)) = Len(reservation)
      /\ \A i \in 1 .. Len(reservation) :
           Released(reservation, q)[i] =
             IF reservation[i].request = q
               THEN [reservation[i] EXCEPT !.status = "CANCELLED"] ELSE reservation[i]
  BY ReleasedType
<1>3. DOMAIN reservation = 1 .. Len(reservation)
  BY LenProperties
<1>4. ASSUME NEW i \in 1 .. Len(reservation)
      PROVE  Cancelled(ActiveOf(q))[i] = Released(reservation, q)[i]
  <2>1. reservation[i] \in ReservationRow
    BY <1>3, ElementOfSeq
  <2>2. reservation[i].status = "CANCELLED"
          => [reservation[i] EXCEPT !.status = "CANCELLED"] = reservation[i]
    BY <2>1 DEF ReservationRow
  <2>3. CASE i \in ActiveOf(q)
    BY <1>1, <1>2, <1>3, <2>3 DEF ActiveOf
  <2>4. CASE i \notin ActiveOf(q)
    <3>1. Cancelled(ActiveOf(q))[i] = reservation[i]
      BY <1>1, <1>3, <2>4
    <3>2. reservation[i].request = q => reservation[i].status = "CANCELLED"
      BY <1>3, <2>1, <2>4 DEF ActiveOf, ActiveRow, ReservationRow
    <3>. QED
      BY <1>2, <2>2, <3>1, <3>2
  <2>. QED
    BY <2>3, <2>4
<1>. QED
  BY <1>1, <1>2, <1>4, SeqEqual

\* The robots there are have a row.
LEMMA RobotsAreOnTheBooks ==
  ASSUME HandlersTypeOK, NEW r \in Resource
  PROVE  resourceStatus[r] # "Missing"
BY DEF HandlersTypeOK, ResourceStatus

\* A commit writes its decision.
LEMMA CommitDecides ==
  ASSUME HandlersTypeOK, NEW s \in Actor, Commit(s), WritesNow(task[s])
  PROVE  Service!Next
<1>. DEFINE t == task[s]
            q == t.q
<1>1. /\ request \in Seq(RequestRow) /\ reservation \in Seq(ReservationRow)
      /\ \A o \in DOMAIN request : request[o] \in RequestRow /\ o # NoRequest
  BY LenProperties, ElementOfSeq DEF HandlersTypeOK, NoRequest
<1>2. /\ t.at = "writing" /\ UNCHANGED resourceStatus
      /\ reservation' = Cancelled(t.release) \o t.rows
      /\ Len(reservation) + Len(t.rows) <= MaxReservations
      /\ t.q = NoRequest => /\ Len(request) < MaxRequests
                            /\ request' = Append(request, t.next)
      /\ t.q # NoRequest =>
           request' = [request EXCEPT ![t.q] = WriteBack(@, t.seen, t.next)]
  BY DEF Commit
<1>3. t.seen \in RequestRow /\ t.next \in RequestRow
  BY <1>2 DEF HandlersTypeOK, TasksOK, TaskOK
<1>4. /\ Cancelled({}) \o << >> = reservation
      /\ Cancelled(ActiveOf(q)) = Released(reservation, q)
      /\ Released(reservation, q) \o << >> = Released(reservation, q)
  BY <1>1, NothingWritten, CancelledIsReleased, ReleasedType, ConcatEmptySeq
<1>. HIDE DEF t
<1>5. CASE CreatesNow(t)
  <2>1. PICK p \in Periods, rid \in ResponseIds :
          /\ ValidPeriod(p) /\ ~ ResponseIdTaken(request, rid, NoRequest)
          /\ t.next = NewRequest(p, rid)
    BY <1>5 DEF CreatesNow
  <2>2. t.q = NoRequest /\ reservation' = reservation
    BY <1>2, <1>4, <1>5 DEF CreatesNow, WritesNothing
  <2>3. Service!CreateRequest(p, rid)
    BY <1>2, <2>1, <2>2, SameRules DEF Service!CreateRequest
  <2>. QED
    BY <2>1, <2>3 DEF Service!Next, ResponseIds
<1>6. ASSUME RowIsCurrent(t)
      PROVE  /\ q \in DOMAIN request /\ q # NoRequest /\ t.seen = request[q]
             /\ request' = [request EXCEPT ![q] = t.next]
             /\ Service!RequestStep(q) => Service!Next
  <2>1. q \in DOMAIN request /\ q # NoRequest /\ t.seen = request[q]
    BY <1>1, <1>6 DEF RowIsCurrent
  <2>2. WriteBack(request[q], t.seen, t.next) = t.next
    BY <1>3, <2>1, FreshWriteBack
  <2>3. request' = [request EXCEPT ![q] = WriteBack(request[q], t.seen, t.next)]
    BY <1>2, <2>1
  <2>4. Service!RequestStep(q) => Service!Next
    BY <2>1 DEF Service!Next
  <2>. QED
    BY <2>1, <2>2, <2>3, <2>4
<1>7. CASE RowIsCurrent(t) /\ EditsNow(t)
  <2>1. PICK p \in Periods, rid \in ResponseIds, r \in Resource \union {NoResource} :
          /\ ValidPeriod(p) /\ ~ ResponseIdTaken(request, rid, q)
          /\ t.next = WithFields(t.seen, p, rid, r)
    BY <1>7 DEF EditsNow
  <2>2. reservation' = reservation /\ t.seen.status = "PENDING"
    BY <1>2, <1>4, <1>7 DEF EditsNow, WritesNothing
  <2>3. r # NoResource => resourceStatus[r] # "Missing"
    BY RobotsAreOnTheBooks
  <2>4. Service!EditRequest(q, p, rid, r)
    BY <1>2, <1>6, <1>7, <2>1, <2>2, <2>3, SameRules DEF Service!EditRequest
  <2>. QED
    BY <1>6, <1>7, <2>1, <2>4 DEF Service!RequestStep, ResponseIds
<1>8. CASE RowIsCurrent(t) /\ ApprovesNow(t)
  <2>1. PICK r \in Resource, allow \in BOOLEAN :
          /\ Books(t, r, ExpandSlots(t.seen.period), allow)
          /\ t.next = [t.seen EXCEPT !.assigned = r, !.status = "APPROVED"]
    BY <1>8 DEF ApprovesNow
  <2>. DEFINE slots     == ExpandSlots(request[q].period)
              conflicts == SlotConflicts(reservation, r, slots, q)
  <2>2. /\ resourceStatus[r] = "Active" /\ slots # << >>
        /\ ~ FullyAvailable(conflicts) => allow
        /\ t.rows = BookingRows(q, r, slots, conflicts)
    BY <1>6, <1>8, <2>1 DEF Books
  <2>3. Len(t.rows) = Len(slots)
    <3>1. request[q].period \in Period /\ q \in Nat
      BY <1>1, <1>6, <1>8, LenProperties DEF RequestRow
    <3>. QED
      BY <2>2, <3>1, ExpandSlotsType, BookingRowsType
  <2>4. /\ reservation' = reservation \o BookingRows(q, r, slots, conflicts)
        /\ request[q].status = "PENDING"
        /\ Len(reservation) + Len(slots) <= MaxReservations
    BY <1>1, <1>2, <1>6, <1>8, <2>2, <2>3, NothingWritten DEF ApprovesNow
  <2>5. request' = [request EXCEPT ![q].assigned = r, ![q].status = "APPROVED"]
    BY <1>6, <1>8, <2>1
  <2>6. Service!Approve(q, r, allow)
    BY <1>2, <2>2, <2>4, <2>5, SameRules, SameEngine DEF Service!Approve, Service!Room
  <2>. QED
    BY <1>6, <1>8, <2>1, <2>6 DEF Service!RequestStep
<1>9. CASE RowIsCurrent(t) /\ AmendsNow(t)
  <2>1. PICK p \in Periods, rid \in ResponseIds, r \in Resource, allow \in BOOLEAN :
          /\ ValidPeriod(p) /\ ~ ResponseIdTaken(request, rid, q)
          /\ Books(t, r, ExpandSlots(p), allow)
          /\ t.next = WithFields(t.seen, p, rid, r)
    BY <1>9 DEF AmendsNow
  <2>. DEFINE slots     == ExpandSlots(p)
              conflicts == SlotConflicts(reservation, r, slots, q)
  <2>2. /\ resourceStatus[r] = "Active" /\ slots # << >>
        /\ ~ FullyAvailable(conflicts) => allow
        /\ t.rows = BookingRows(q, r, slots, conflicts)
    BY <2>1 DEF Books
  <2>3. Len(t.rows) = Len(slots)
    <3>1. p \in Period /\ q \in Nat
      BY <1>1, <1>6, <1>9, LenProperties, HandlerAssumption
    <3>. QED
      BY <2>2, <3>1, ExpandSlotsType, BookingRowsType
  <2>4. /\ reservation' = Released(reservation, q) \o BookingRows(q, r, slots, conflicts)
        /\ request[q].status = "APPROVED"
        /\ Len(reservation) + Len(slots) <= MaxReservations
    BY <1>2, <1>4, <1>6, <1>9, <2>2, <2>3 DEF AmendsNow
  <2>5. Service!Amend(q, p, rid, r, allow)
    BY <1>2, <1>6, <1>9, <2>1, <2>2, <2>4, SameRules, SameEngine
    DEF Service!Amend, Service!Room
  <2>. QED
    BY <1>6, <1>9, <2>1, <2>5 DEF Service!RequestStep, ResponseIds
<1>10. CASE RowIsCurrent(t) /\ RejectsNow(t)
  <2>1. /\ reservation' = reservation /\ request[q].status = "PENDING"
        /\ request' = WithStatus(request, q, "REJECTED")
    BY <1>2, <1>4, <1>6, <1>10 DEF RejectsNow, WritesNothing, WithStatus
  <2>2. Service!Reject(q)
    BY <1>2, <2>1, SameRules DEF Service!Reject
  <2>. QED
    BY <1>6, <1>10, <2>2 DEF Service!RequestStep
<1>11. CASE RowIsCurrent(t) /\ CancelsNow(t)
  <2>1. /\ reservation' = Released(reservation, q)
        /\ request[q].status \in {"PENDING", "APPROVED"}
        /\ request' = WithStatus(request, q, "CANCELLED")
    BY <1>2, <1>4, <1>6, <1>11 DEF CancelsNow, WithStatus
  <2>2. Service!Cancel(q)
    BY <1>2, <2>1, SameRules DEF Service!Cancel
  <2>. QED
    BY <1>6, <1>11, <2>2 DEF Service!RequestStep
<1>12. CASE RowIsCurrent(t) /\ ReopensNow(t)
  <2>1. /\ reservation' = reservation /\ request[q].status \in ClosedStatus
        /\ ~ ResponseIdTaken(request, request[q].responseId, q)
        /\ request' = WithStatus(request, q, "PENDING")
    BY <1>2, <1>4, <1>6, <1>12 DEF ReopensNow, WritesNothing, WithStatus
  <2>2. Service!Reopen(q)
    BY <1>2, <2>1, SameRules DEF Service!Reopen
  <2>. QED
    BY <1>6, <1>12, <2>2 DEF Service!RequestStep
<1>13. WritesNow(t)
  BY DEF t
<1>. QED
  BY <1>5, <1>7, <1>8, <1>9, <1>10, <1>11, <1>12, <1>13 DEF WritesNow

\* An amendment that re-checks under the lock is kept or dropped as a whole.
LEMMA CommitAmendDecides ==
  ASSUME HandlersTypeOK, NEW s \in Actor, CommitAmend(s), WillAmend(task[s])
  PROVE  UNCHANGED tables \/ Service!Next
<1>. DEFINE t         == task[s]
            q         == t.q
            r         == t.next.assigned
            slots     == ExpandSlots(t.next.period)
            conflicts == SlotConflicts(reservation, r, slots, q)
<1>1. /\ t.at = "amending" /\ UNCHANGED resourceStatus
      /\ \/ /\ FullyAvailable(conflicts) \/ t.allow
            /\ Len(reservation) + Len(slots) <= MaxReservations
            /\ request' = [request EXCEPT ![q] = WriteBack(@, t.seen, t.next)]
            /\ reservation' = Cancelled(ActiveOf(q)) \o BookingRows(q, r, slots, conflicts)
         \/ UNCHANGED <<request, reservation>>
  BY DEF CommitAmend
<1>2. /\ q \in DOMAIN request /\ t.seen = request[q] /\ t.seen.status = "APPROVED"
      /\ t.allow \in BOOLEAN
  BY DEF WillAmend, RowIsCurrent
<1>3. PICK p \in Periods, rid \in ResponseIds, robot \in Resource :
        /\ ValidPeriod(p) /\ ~ ResponseIdTaken(request, rid, q)
        /\ resourceStatus[robot] = "Active"
        /\ t.next = WithFields(t.seen, p, rid, robot)
  BY DEF WillAmend
<1>4. /\ request[q] \in RequestRow /\ t.next \in RequestRow
      /\ reservation \in Seq(ReservationRow)
  BY <1>1, <1>2, LenProperties, ElementOfSeq DEF HandlersTypeOK, TasksOK, TaskOK
<1>5. p \in Period /\ rid \in ResponseId \union {NoResponseId}
  BY HandlerAssumption DEF ResponseIds
<1>6. r = robot /\ t.next.period = p
  BY <1>2, <1>3, <1>4, <1>5, WithFieldsType, NullAssumption
<1>7. slots = ExpandSlots(p) /\ slots # << >>
  BY <1>3, <1>5, <1>6, ValidPeriodHasSlots
<1>8. CASE UNCHANGED <<request, reservation>>
  BY <1>1, <1>8 DEF tables
<1>9. CASE /\ FullyAvailable(conflicts) \/ t.allow
           /\ Len(reservation) + Len(slots) <= MaxReservations
           /\ request' = [request EXCEPT ![q] = WriteBack(@, t.seen, t.next)]
           /\ reservation' = Cancelled(ActiveOf(q)) \o BookingRows(q, r, slots, conflicts)
  <2>1. WriteBack(request[q], t.seen, t.next) = t.next
    BY <1>2, <1>4, FreshWriteBack
  <2>2. request' = [request EXCEPT ![q] = WithFields(request[q], p, rid, robot)]
    BY <1>2, <1>3, <1>9, <2>1
  <2>3. Cancelled(ActiveOf(q)) = Released(reservation, q)
    BY <1>4, CancelledIsReleased
  <2>. HIDE DEF r
  <2>4. Service!Amend(q, p, rid, robot, t.allow)
    BY <1>1, <1>2, <1>3, <1>6, <1>7, <1>9, <2>2, <2>3, SameRules, SameEngine
    DEF Service!Amend, Service!Room
  <2>5. Service!RequestStep(q)
    BY <1>2, <2>4 DEF Service!RequestStep, ResponseIds
  <2>. QED
    BY <1>2, <2>5 DEF Service!Next
<1>. QED
  BY <1>1, <1>8, <1>9

\* The release of one slot, with what follows for its request.
LEMMA CommitReleaseDecides ==
  ASSUME HandlersTypeOK, NEW a \in Actor, CommitRelease(a), ReleasesNow(task[a])
  PROVE  Service!Next
<1>. DEFINE t    == task[a]
            i    == t.i
            q    == t.q
            left == [reservation EXCEPT ![i].status = "CANCELLED"]
<1>1. /\ UNCHANGED resourceStatus /\ reservation' = Cancelled({i})
      /\ request' = IF t.approved /\ ~ HoldsActiveSlot(reservation', q)
                      THEN WithStatus(request, q, "CANCELLED") ELSE request
  BY DEF CommitRelease
<1>2. /\ i \in DOMAIN reservation /\ ActiveRow(reservation[i])
      /\ q = reservation[i].request
      /\ (t.approved = TRUE) <=> q # NoRequest /\ request[q].status = "APPROVED"
  BY DEF ReleasesNow
<1>3. Cancelled({i}) = left
  BY <1>2 DEF Cancelled
<1>4. request' = IF /\ q # NoRequest /\ request[q].status = "APPROVED"
                    /\ ~ HoldsActiveSlot(left, q)
                   THEN WithStatus(request, q, "CANCELLED") ELSE request
  <2>1. t.approved <=> (t.approved = TRUE)
    OBVIOUS
  <2>. QED
    BY <1>1, <1>2, <1>3, <2>1
<1>. HIDE DEF t
<1>5. Service!CancelReservation(i)
  BY <1>1, <1>2, <1>3, <1>4, SameRules
  DEF Service!CancelReservation, Service!ReleasingClosesRequest
<1>. QED
  BY <1>2, <1>5 DEF Service!Next

\* An entry staff make on the calendar.
LEMMA CommitManualDecides ==
  ASSUME HandlersTypeOK, NEW a \in Actor, CommitManual(a), InsertsNow(task[a])
  PROVE  Service!Next
<1>1. PICK r \in Resource, source \in EntrySources, interval \in EntryTimes :
        /\ interval.start < interval.end
        /\ {i \in ActiveReservations(reservation, r, interval.start, interval.end, NoRequest) :
              Overlaps(interval, reservation[i])} = {}
        /\ task[a].row = EntryRow(r, source, interval)
  BY DEF InsertsNow
<1>. DEFINE rows == <<EntryRow(r, source, interval)>>
<1>2. EntryRow(r, source, interval) \in ReservationRow
  BY HandlerAssumption, EntryRowType
<1>3. reservation \in Seq(ReservationRow)
  BY DEF HandlersTypeOK
<1>4. /\ Len(reservation) < MaxReservations
      /\ reservation' = Append(reservation, EntryRow(r, source, interval))
      /\ UNCHANGED <<resourceStatus, request>>
  BY <1>1 DEF CommitManual
<1>5. reservation' = reservation \o rows
  BY <1>2, <1>3, <1>4, AppendIsConcat
<1>6. Len(rows) = 1 /\ Len(reservation) + 1 <= MaxReservations
  BY <1>3, <1>4, HandlerAssumption, LenProperties
<1>7. {i \in Service!ActiveReservations(reservation, r, interval.start, interval.end,
                                        Service!NoRequest) :
         Service!Overlaps(interval, reservation[i])} = {}
  BY <1>1, SameRules, SameEngine
<1>8. resourceStatus[r] # Service!Missing
  BY RobotsAreOnTheBooks, SameRules
<1>9. Service!CreateManual(r, source, interval)
  BY <1>1, <1>4, <1>5, <1>6, <1>7, <1>8, SameRules DEF Service!CreateManual, Service!Room
<1>. QED
  BY <1>9 DEF Service!Next

\* The worker's import, approved or left pending.
LEMMA CommitImportDecides ==
  ASSUME HandlersTypeOK, NEW w \in Actor, CommitImport(w), ImportsNow(task[w])
  PROVE  Service!Next
<1>. DEFINE t         == task[w]
            q         == Len(request) + 1
            new       == NewRequest(t.period, t.responseId)
            slots     == ExpandSlots(t.period)
            conflicts == SlotConflicts(reservation, t.robot, slots, q)
<1>1. /\ q <= MaxRequests /\ UNCHANGED resourceStatus
      /\ IF StillFree(t, conflicts)
           THEN /\ Len(reservation) + Len(slots) <= MaxReservations
                /\ request' = Append(request, [new EXCEPT !.assigned = t.robot,
                                                          !.status = "APPROVED"])
                /\ reservation' = reservation \o BookingRows(q, t.robot, slots, conflicts)
           ELSE /\ request' = Append(request, new)
                /\ UNCHANGED reservation
      /\ t.at = "importing"
  BY DEF CommitImport
<1>2. /\ t.period \in Periods /\ t.responseId \in ResponseIds /\ ValidPeriod(t.period)
      /\ ~ ResponseIdTaken(request, t.responseId, NoRequest)
      /\ t.robot # NoResource => resourceStatus[t.robot] = "Active"
  BY DEF ImportsNow
<1>3. t.available = TRUE => t.robot \in Resource
  BY <1>1 DEF HandlersTypeOK, TasksOK, TaskOK
<1>4. request \in Seq(RequestRow) /\ Len(request) \in Nat
  BY LenProperties DEF HandlersTypeOK
<1>5. slots # << >>
  BY <1>2, HandlerAssumption, ValidPeriodHasSlots
<1>6. CASE StillFree(t, conflicts)
  <2>1. t.robot \in Resource /\ FullyAvailable(conflicts)
    BY <1>3, <1>6 DEF StillFree
  <2>2. resourceStatus[t.robot] = "Active"
    BY <1>2, <2>1, NullAssumption
  <2>3. /\ request' = Append(request, [new EXCEPT !.assigned = t.robot,
                                                  !.status = "APPROVED"])
        /\ reservation' = reservation \o BookingRows(q, t.robot, slots, conflicts)
        /\ Len(reservation) + Len(slots) <= MaxReservations
    BY <1>1, <1>6
  <2>. HIDE DEF t
  <2>4. Service!ImportApproved(t.period, t.responseId, t.robot)
    BY <1>1, <1>2, <1>5, <2>1, <2>2, <2>3, SameRules, SameEngine
    DEF Service!ImportApproved, Service!Room
  <2>. QED
    BY <1>2, <2>1, <2>4 DEF Service!Next, ResponseIds
<1>7. CASE ~ StillFree(t, conflicts)
  <2>1. request' = Append(request, new) /\ UNCHANGED reservation
    BY <1>1, <1>7
  <2>2. Len(request) < MaxRequests
    BY <1>1, <1>4, HandlerAssumption
  <2>. HIDE DEF t
  <2>3. Service!CreateRequest(t.period, t.responseId)
    BY <1>1, <1>2, <2>1, <2>2, SameRules DEF Service!CreateRequest
  <2>. QED
    BY <1>2, <2>3 DEF Service!Next, ResponseIds
<1>. QED
  BY <1>6, <1>7

\* While nobody starts before the others have finished, the handlers with
\* their loads, re-checks and column-wise writes make the decisions of
\* BookingService and no others.
THEOREM SerialHandlersDecide == OneAtATime => (Spec => ImplementsService)
<1>1. SUFFICES ASSUME OneAtATime
               PROVE  Spec => ImplementsService
  OBVIOUS
<1>2. Init => Service!Init
  BY SameRules DEF Init, Service!Init
<1>3. Init => SerialInv
  <2>1. UpToDate(Idle)
    BY DEF UpToDate, Idle
  <2>. QED
    BY <2>1 DEF Init, SerialInv
<1>4. HandlersTypeOK /\ SerialInv /\ [Next]_vars => SerialInv'
  BY <1>1, SerialInvKept
<1>5. ASSUME HandlersTypeOK, SerialInv, [Next]_vars
      PROVE  UNCHANGED tables \/ Service!Next
  <2>. DEFINE Goal == UNCHANGED tables \/ Service!Next
  <2>1. /\ Staff \subseteq Actor /\ Thread \subseteq Actor /\ Worker \subseteq Actor
        /\ \A a \in Actor : UpToDate(task[a])
    BY <1>5 DEF Actor, SerialInv
  <2>2. ASSUME NEW a \in Actor, Commit(a)
        PROVE  Goal
    <3>1. WritesNow(task[a])
      BY <2>1, <2>2 DEF Commit, UpToDate
    <3>. QED
      BY <1>5, <2>2, <3>1, CommitDecides
  <2>3. ASSUME NEW a \in Actor, CommitAmend(a)
        PROVE  Goal
    <3>1. WillAmend(task[a])
      BY <2>1, <2>3 DEF CommitAmend, UpToDate
    <3>. QED
      BY <1>5, <2>3, <3>1, CommitAmendDecides
  <2>4. ASSUME NEW a \in Actor, CommitRelease(a)
        PROVE  Goal
    <3>1. ReleasesNow(task[a])
      BY <2>1, <2>4 DEF CommitRelease, UpToDate
    <3>. QED
      BY <1>5, <2>4, <3>1, CommitReleaseDecides
  <2>5. ASSUME NEW a \in Actor, CommitManual(a)
        PROVE  Goal
    <3>1. InsertsNow(task[a])
      BY <2>1, <2>5 DEF CommitManual, UpToDate
    <3>. QED
      BY <1>5, <2>5, <3>1, CommitManualDecides
  <2>6. ASSUME NEW a \in Actor, CommitImport(a)
        PROVE  Goal
    <3>1. ImportsNow(task[a])
      BY <2>1, <2>6 DEF CommitImport, UpToDate
    <3>. QED
      BY <1>5, <2>6, <3>1, CommitImportDecides
  <2>7. ASSUME NEW s \in Staff, NEW r \in Resource, NEW status \in StatusChoices,
               CommitResource(s, r, status)
        PROVE  Goal
    <3>1. Service!SetResourceStatus(r, status)
      BY <2>7 DEF CommitResource, Service!SetResourceStatus
    <3>. QED
      BY <3>1 DEF Service!Next
  <2>8. ASSUME NEW s \in Staff, StaffStep(s)
        PROVE  Goal
    <3>1. Commit(s) \/ CommitAmend(s) \/ UNCHANGED tables
      BY <2>8 DEF StaffStep, Load, CheckReopen, CheckCreate, CheckEdit, CheckAmend,
         CheckApprove, CheckReject, CheckCancel
    <3>. QED
      BY <2>1, <2>2, <2>3, <2>8, <3>1
  <2>9. ASSUME NEW a \in Thread, ThreadStep(a)
        PROVE  Goal
    BY <2>1, <2>4, <2>5, <2>9 DEF ThreadStep, LoadReservation, CheckManual
  <2>10. ASSUME NEW w \in Worker, WorkerStep(w)
         PROVE  Goal
    BY <2>1, <2>6, <2>10 DEF WorkerStep, ReadApplication
  <2>11. ASSUME UNCHANGED vars
         PROVE  Goal
    BY <2>11 DEF vars, tables
  <2>12. ASSUME NEW a \in Actor, Rollback(a)
         PROVE  Goal
    <3>1. UNCHANGED tables
      BY <2>12 DEF Rollback
    <3>. QED
      BY <3>1
  <2>. HIDE DEF Goal
  <2>13. Goal
    BY <1>5, <2>7, <2>8, <2>9, <2>10, <2>11, <2>12 DEF Next
  <2>. QED
    BY <2>13 DEF Goal
<1>. QED
  BY <1>2, <1>3, <1>4, <1>5, HandlersTypeCorrect, PTL DEF Spec, ImplementsService

-----------------------------------------------------------------------------
(* What is proved of the decisions holds of handlers that do not overlap   *)

\* The decisions once more, with what is proved of them.
Decisions == INSTANCE BookingSlotsProofs WITH LessonBatches <- {}, RobotLists <- {}

\* What is assumed of the inputs there is assumed here.
LEMMA DecisionInputs == Decisions!InputAssumption
BY HandlerAssumption
DEF Decisions!InputAssumption, Decisions!Period, Period, Decisions!Session, Session,
    Decisions!Slot, Slot, Decisions!SourceType, SourceType, Decisions!ResourceStatus, ResourceStatus

\* The instance speaks of the same engine, checks and row updates.
LEMMA SameDecisionRules ==
  /\ \A p : Decisions!ExpandSlots(p) = Service!ExpandSlots(p)
  /\ \A table, r, slots, q :
       Decisions!SlotConflicts(table, r, slots, q) = Service!SlotConflicts(table, r, slots, q)
  /\ \A table, r, from, until, q :
       Decisions!ActiveReservations(table, r, from, until, q)
         = Service!ActiveReservations(table, r, from, until, q)
  /\ \A conflicts : Decisions!FullyAvailable(conflicts) <=> Service!FullyAvailable(conflicts)
  /\ \A a, b : Decisions!Overlaps(a, b) <=> Service!Overlaps(a, b)
  /\ \A p : Decisions!ValidPeriod(p) <=> Service!ValidPeriod(p)
  /\ \A requests, rid, q :
       Decisions!ResponseIdTaken(requests, rid, q) <=> Service!ResponseIdTaken(requests, rid, q)
  /\ \A p, rid : Decisions!NewRequest(p, rid) = Service!NewRequest(p, rid)
  /\ \A row, p, rid, r :
       Decisions!WithFields(row, p, rid, r) = Service!WithFields(row, p, rid, r)
  /\ \A requests, q, status :
       Decisions!WithStatus(requests, q, status) = Service!WithStatus(requests, q, status)
  /\ \A q, r, slots, conflicts :
       Decisions!BookingRows(q, r, slots, conflicts) = Service!BookingRows(q, r, slots, conflicts)
  /\ \A r, source, interval :
       Decisions!EntryRow(r, source, interval) = Service!EntryRow(r, source, interval)
  /\ \A table, q : Decisions!Released(table, q) = Service!Released(table, q)
  /\ \A table, q : Decisions!HoldsActiveSlot(table, q) <=> Service!HoldsActiveSlot(table, q)
  /\ \A row : Decisions!ActiveRow(row) <=> Service!ActiveRow(row)
  /\ Decisions!NoRequest = Service!NoRequest
  /\ Decisions!ClosedStatus = Service!ClosedStatus
  /\ Decisions!Missing = Service!Missing
<1>1. \A p : Decisions!ExpandSlots(p) = Service!ExpandSlots(p)
  <2>1. \A sessions : Decisions!OrderedSessions(sessions) = Service!OrderedSessions(sessions)
    BY DEF Decisions!OrderedSessions, Service!OrderedSessions, Decisions!Session, Service!Session
  <2>2. \A day, s : Decisions!SlotOn(day, s) = Service!SlotOn(day, s)
    BY DEF Decisions!SlotOn, Service!SlotOn, Decisions!SessionStart, Service!SessionStart,
           Decisions!SessionEnd, Service!SessionEnd, Decisions!DayMinutes, Service!DayMinutes
  <2>. QED
    BY <2>1, <2>2, Zenon DEF Decisions!ExpandSlots, Service!ExpandSlots
<1>2. \A table, r, from, until, q :
        Decisions!ActiveReservations(table, r, from, until, q)
          = Service!ActiveReservations(table, r, from, until, q)
  BY DEF Decisions!ActiveReservations, Service!ActiveReservations, Decisions!ActiveRow, Service!ActiveRow,
         Decisions!NoRequest, Service!NoRequest
<1>3. \A a, b : Decisions!Overlaps(a, b) <=> Service!Overlaps(a, b)
  BY DEF Decisions!Overlaps, Service!Overlaps
<1>4. \A slots : /\ Decisions!WindowStart(slots) = Service!WindowStart(slots)
                 /\ Decisions!WindowEnd(slots) = Service!WindowEnd(slots)
  BY DEF Decisions!WindowStart, Service!WindowStart, Decisions!WindowEnd, Service!WindowEnd
<1>5. \A table, r, slots, q :
        Decisions!SlotConflicts(table, r, slots, q) = Service!SlotConflicts(table, r, slots, q)
  BY <1>2, <1>3, <1>4 DEF Decisions!SlotConflicts, Service!SlotConflicts
<1>6. \A conflicts : Decisions!FullyAvailable(conflicts) <=> Service!FullyAvailable(conflicts)
  BY DEF Decisions!FullyAvailable, Service!FullyAvailable
<1>11. \A p : Decisions!ValidPeriod(p) <=> Service!ValidPeriod(p)
  BY DEF Decisions!ValidPeriod, Service!ValidPeriod
<1>12. \A requests, rid, q :
        Decisions!ResponseIdTaken(requests, rid, q) <=> Service!ResponseIdTaken(requests, rid, q)
  BY DEF Decisions!ResponseIdTaken, Service!ResponseIdTaken, Decisions!HoldsResponseId, Service!HoldsResponseId,
         Decisions!LiveRequest, Service!LiveRequest, Decisions!ClosedStatus, Service!ClosedStatus
<1>13. /\ \A p, rid : Decisions!NewRequest(p, rid) = Service!NewRequest(p, rid)
      /\ \A row, p, rid, r :
       Decisions!WithFields(row, p, rid, r) = Service!WithFields(row, p, rid, r)
      /\ \A requests, q, status :
           Decisions!WithStatus(requests, q, status) = Service!WithStatus(requests, q, status)
  BY DEF Decisions!NewRequest, Service!NewRequest, Decisions!WithFields, Service!WithFields,
         Decisions!WithStatus, Service!WithStatus
<1>14. /\ \A q, r, slots, conflicts :
           Decisions!BookingRows(q, r, slots, conflicts) = Service!BookingRows(q, r, slots, conflicts)
      /\ \A r, source, interval :
           Decisions!EntryRow(r, source, interval) = Service!EntryRow(r, source, interval)
      /\ \A table, q : Decisions!Released(table, q) = Service!Released(table, q)
  BY DEF Decisions!BookingRows, Service!BookingRows, Decisions!EntryRow, Service!EntryRow, Decisions!Released,
         Service!Released, Decisions!NoRequest, Service!NoRequest
<1>15. /\ \A row : Decisions!ActiveRow(row) <=> Service!ActiveRow(row)
      /\ \A table, q : Decisions!HoldsActiveSlot(table, q) <=> Service!HoldsActiveSlot(table, q)
  BY DEF Decisions!ActiveRow, Service!ActiveRow, Decisions!HoldsActiveSlot, Service!HoldsActiveSlot
<1>16. /\ Decisions!NoRequest = Service!NoRequest
      /\ Decisions!ClosedStatus = Service!ClosedStatus
      /\ Decisions!Missing = Service!Missing
  BY DEF Decisions!NoRequest, Service!NoRequest, Decisions!ClosedStatus, Service!ClosedStatus, Decisions!Missing, Service!Missing
<1>. QED
  BY <1>1, <1>2, <1>3, <1>5, <1>6, <1>11, <1>12, <1>13, <1>14, <1>15, <1>16

\* So are the decisions.
LEMMA SameDecisions ==
  /\ Service!Init <=> Decisions!Init
  /\ Service!Next <=> Decisions!Next
<1>1. Service!Init <=> Decisions!Init
  BY SameDecisionRules DEF Service!Init, Decisions!Init
<1>2. \A rows : Service!Room(rows) <=> Decisions!Room(rows)
  BY DEF Service!Room, Decisions!Room
<1>3. \A p, rid : Service!CreateRequest(p, rid) <=> Decisions!CreateRequest(p, rid)
  BY <1>2, SameDecisionRules DEF Service!CreateRequest, Decisions!CreateRequest
<1>4. \A p, rid, r : Service!ImportApproved(p, rid, r) <=> Decisions!ImportApproved(p, rid, r)
  BY <1>2, SameDecisionRules DEF Service!ImportApproved, Decisions!ImportApproved
<1>5. \A q, p, rid, r : Service!EditRequest(q, p, rid, r) <=> Decisions!EditRequest(q, p, rid, r)
  BY <1>2, SameDecisionRules DEF Service!EditRequest, Decisions!EditRequest
<1>6. \A q, r, allow : Service!Approve(q, r, allow) <=> Decisions!Approve(q, r, allow)
  BY <1>2, SameDecisionRules DEF Service!Approve, Decisions!Approve
<1>7. \A q, p, rid, r, allow : Service!Amend(q, p, rid, r, allow) <=> Decisions!Amend(q, p, rid, r, allow)
  <2>. TAKE q, p, rid, r, allow
  <2>1. /\ Service!ValidPeriod(p) <=> Decisions!ValidPeriod(p)
        /\ Service!ResponseIdTaken(request, rid, q) <=> Decisions!ResponseIdTaken(request, rid, q)
    BY SameDecisionRules
  <2>2. Service!SlotConflicts(reservation, r, Service!ExpandSlots(p), q)
          = Decisions!SlotConflicts(reservation, r, Decisions!ExpandSlots(p), q)
    BY SameDecisionRules
  <2>. QED
    BY <1>2, <2>1, <2>2, SameDecisionRules DEF Service!Amend, Decisions!Amend
<1>8. \A q : Service!Reject(q) <=> Decisions!Reject(q)
  BY <1>2, SameDecisionRules DEF Service!Reject, Decisions!Reject
<1>9. \A q : Service!Cancel(q) <=> Decisions!Cancel(q)
  BY <1>2, SameDecisionRules DEF Service!Cancel, Decisions!Cancel
<1>10. \A q : Service!Reopen(q) <=> Decisions!Reopen(q)
  BY <1>2, SameDecisionRules DEF Service!Reopen, Decisions!Reopen
<1>11. \A i : Service!CancelReservation(i) <=> Decisions!CancelReservation(i)
  BY <1>2, SameDecisionRules DEF Service!CancelReservation, Decisions!CancelReservation, Service!ReleasingClosesRequest, Decisions!ReleasingClosesRequest
<1>12. \A r, source, interval : Service!CreateManual(r, source, interval) <=> Decisions!CreateManual(r, source, interval)
  BY <1>2, SameDecisionRules DEF Service!CreateManual, Decisions!CreateManual
<1>13. \A r, status : Service!SetResourceStatus(r, status) <=> Decisions!SetResourceStatus(r, status)
  BY <1>2, SameDecisionRules DEF Service!SetResourceStatus, Decisions!SetResourceStatus
<1>14. \A q : Service!RequestStep(q) <=> Decisions!RequestStep(q)
  BY <1>5, <1>6, <1>7, <1>8, <1>9, <1>10 DEF Service!RequestStep, Decisions!RequestStep
<1>15. Service!Next <=> Decisions!Next
  BY <1>3, <1>4, <1>11, <1>12, <1>13, <1>14 DEF Service!Next, Decisions!Next
<1>. QED
  BY <1>1, <1>15

\* So are the properties.
LEMMA SameProperties ==
  /\ Decisions!NoSilentOverlap <=> NoSilentOverlap
  /\ Decisions!UniqueLiveResponseId <=> UniqueLiveResponseId
  /\ Decisions!ApprovedHoldsSlots <=> ApprovedHoldsSlots
  /\ Decisions!SlotsMatchRequest <=> SlotsMatchRequest
  /\ Decisions!NoSlotHeldTwice <=> NoSlotHeldTwice
<1>1. /\ Decisions!NoSilentOverlap <=> NoSilentOverlap
      /\ Decisions!NoSlotHeldTwice <=> NoSlotHeldTwice
  BY SameDecisionRules
  DEF NoSilentOverlap, Decisions!NoSilentOverlap, Service!NoSilentOverlap,
      NoSlotHeldTwice, Decisions!NoSlotHeldTwice, Service!NoSlotHeldTwice,
      Decisions!BothHeld, Service!BothHeld
<1>2. Decisions!UniqueLiveResponseId <=> UniqueLiveResponseId
  BY SameDecisionRules
  DEF UniqueLiveResponseId, Decisions!UniqueLiveResponseId, Service!UniqueLiveResponseId,
      Decisions!LiveRequest, Service!LiveRequest
<1>3. /\ Decisions!ApprovedHoldsSlots <=> ApprovedHoldsSlots
      /\ Decisions!SlotsMatchRequest <=> SlotsMatchRequest
  BY SameDecisionRules
  DEF ApprovedHoldsSlots, Decisions!ApprovedHoldsSlots, Service!ApprovedHoldsSlots,
      SlotsMatchRequest, Decisions!SlotsMatchRequest, Service!SlotsMatchRequest,
      Decisions!SameTime, Service!SameTime
<1>. QED
  BY <1>1, <1>2, <1>3

\* Handlers that do not overlap run a behaviour of BookingService.
LEMMA SerialRunsDecide == ImplementsService => Decisions!Spec
<1>1. (UNCHANGED tables \/ Service!Next) <=> (UNCHANGED tables \/ Decisions!Next)
  BY SameDecisions
<1>. QED
  BY <1>1, SameDecisions, PTL DEF ImplementsService, Decisions!Spec, Decisions!vars, tables

\* It takes two actors at once for an overlap that nobody announced.
THEOREM SerialOverlapsAnnounced == OneAtATime => (Spec => []NoSilentOverlap)
<1>1. Decisions!Spec => []Decisions!NoSilentOverlap
  BY DecisionInputs, NullAssumption, Decisions!OverlapsAreAnnounced
<1>2. ASSUME OneAtATime
      PROVE  Spec => []NoSilentOverlap
  BY <1>1, <1>2, SerialHandlersDecide, SerialRunsDecide, SameProperties, PTL
<1>. QED
  BY <1>2

\* It takes two actors at once to enter one application twice.
THEOREM SerialResponseIdsUnique == OneAtATime => (Spec => []UniqueLiveResponseId)
<1>1. Decisions!Spec => []Decisions!UniqueLiveResponseId
  BY DecisionInputs, NullAssumption, Decisions!LiveResponseIdsUnique
<1>2. ASSUME OneAtATime
      PROVE  Spec => []UniqueLiveResponseId
  BY <1>1, <1>2, SerialHandlersDecide, SerialRunsDecide, SameProperties, PTL
<1>. QED
  BY <1>2

\* It takes two actors at once for a closed request that keeps its slots, slots
\* that are not those asked for, or a session booked twice: the calendar's
\* threads, which LoneApprovedHolds leaves out, are among the actors here.
THEOREM SerialBookingsWhole ==
  OneAtATime
    => (Spec => /\ []ApprovedHoldsSlots
                /\ []SlotsMatchRequest
                /\ []NoSlotHeldTwice)
<1>1. /\ Decisions!Spec => []Decisions!ApprovedHoldsSlots
      /\ Decisions!Spec => []Decisions!SlotsMatchRequest
      /\ Decisions!Spec => []Decisions!NoSlotHeldTwice
  BY DecisionInputs, NullAssumption, Decisions!ApprovedExactlyWithSlots,
     Decisions!SlotsAreThoseAskedFor, Decisions!SessionsAreHeldOnce
<1>2. ASSUME OneAtATime
      PROVE  Spec => /\ []ApprovedHoldsSlots
                     /\ []SlotsMatchRequest
                     /\ []NoSlotHeldTwice
  BY <1>1, <1>2, SerialHandlersDecide, SerialRunsDecide, SameProperties, PTL
<1>. QED
  BY <1>2

-----------------------------------------------------------------------------
(* One coroutine beside the workers: bookings stay whole                   *)

\* Staff do one thing at a time and leave the calendar's own forms alone; any
\* number of workers import beside them.
OneCoroutine == Thread = {} /\ \A s, o \in Staff : s = o

Whole == ApprovedHoldsSlots /\ SlotsMatchRequest /\ NoSlotHeldTwice

\* The row is a slot its request asks for.
Matches(row, requests) ==
  /\ row.request \in DOMAIN requests
  /\ row.resource = requests[row.request].assigned
  /\ \E k \in DOMAIN ExpandSlots(requests[row.request].period) :
       /\ ExpandSlots(requests[row.request].period)[k].start = row.start
       /\ ExpandSlots(requests[row.request].period)[k].end = row.end

BothActive(a, b) ==
  /\ ActiveRow(a) /\ ActiveRow(b)
  /\ a.resource = b.resource
  /\ Overlaps(a, b)

ApprovedHolds(requests, table) ==
  \A q \in DOMAIN requests :
    requests[q].status = "APPROVED" <=> HoldsActiveSlot(table, q)

AllMatch(requests, table) ==
  \A i \in DOMAIN table :
    ActiveRow(table[i]) /\ table[i].request # NoRequest => Matches(table[i], requests)

NoneTwice(table) ==
  \A j \in DOMAIN table : \A i \in 1 .. j - 1 :
    BothActive(table[i], table[j]) /\ table[j].request # NoRequest
      => table[i].request # table[j].request

WholeTables(requests, table) ==
  ApprovedHolds(requests, table) /\ AllMatch(requests, table) /\ NoneTwice(table)

\* The three properties, in the terms of this level.
LEMMA WholeMeans ==
  /\ Whole <=> WholeTables(request, reservation)
  /\ Whole' <=> WholeTables(request', reservation')
<1>1. /\ ApprovedHoldsSlots <=> ApprovedHolds(request, reservation)
      /\ ApprovedHoldsSlots' <=> ApprovedHolds(request', reservation')
  BY SameRules DEF ApprovedHoldsSlots, Service!ApprovedHoldsSlots, ApprovedHolds
<1>2. /\ SlotsMatchRequest <=> AllMatch(request, reservation)
      /\ SlotsMatchRequest' <=> AllMatch(request', reservation')
  BY SameRules, SameEngine
  DEF SlotsMatchRequest, Service!SlotsMatchRequest, Service!SameTime, AllMatch, Matches
<1>3. /\ NoSlotHeldTwice <=> NoneTwice(reservation)
      /\ NoSlotHeldTwice' <=> NoneTwice(reservation')
  BY SameRules, SameEngine
  DEF NoSlotHeldTwice, Service!NoSlotHeldTwice, Service!BothHeld, NoneTwice, BothActive
<1>. QED
  BY <1>1, <1>2, <1>3 DEF Whole, WholeTables

\* Request q, whose row becomes row, is given nothing or all it asks for.
Gives(rows, q, row) ==
  \/ rows = << >> /\ row.status # "APPROVED"
  \/ /\ row.status = "APPROVED" /\ row.assigned \in Resource
     /\ ExpandSlots(row.period) # << >>
     /\ \E conflicts :
          rows = BookingRows(q, row.assigned, ExpandSlots(row.period), conflicts)

\* Request q is added or changed, what it held is released, and rows are its new
\* slots.
Rebooks(q, rows) ==
  /\ q \in Nat \ {NoRequest}
  /\ DOMAIN request' = DOMAIN request \union {q}
  /\ \A o \in DOMAIN request \ {q} : request'[o] = request[o]
  /\ Gives(rows, q, request'[q])
  /\ reservation' = Released(reservation, q) \o rows

\* The rows given to a request.
LEMMA GivenRows ==
  ASSUME NEW q \in Nat, NEW row \in RequestRow, NEW rows, Gives(rows, q, row)
  PROVE  LET slots == ExpandSlots(row.period)
         IN  /\ rows \in Seq(ReservationRow)
             /\ \A k \in DOMAIN rows :
                  /\ k \in DOMAIN slots
                  /\ rows[k].request = q /\ rows[k].resource = row.assigned
                  /\ rows[k].start = slots[k].start /\ rows[k].end = slots[k].end
             /\ \A o : HoldsActiveSlot(rows, o) <=> o = q /\ row.status = "APPROVED"
<1>. DEFINE slots == ExpandSlots(row.period)
<1>1. row.period \in Period
  BY DEF RequestRow
<1>2. CASE rows = << >> /\ row.status # "APPROVED"
  BY <1>2, EmptySeq DEF HoldsActiveSlot
<1>3. ASSUME row.status = "APPROVED", row.assigned \in Resource, slots # << >>,
             NEW conflicts, rows = BookingRows(q, row.assigned, slots, conflicts)
      PROVE  /\ rows \in Seq(ReservationRow)
             /\ \A k \in DOMAIN rows :
                  /\ k \in DOMAIN slots
                  /\ rows[k].request = q /\ rows[k].resource = row.assigned
                  /\ rows[k].start = slots[k].start /\ rows[k].end = slots[k].end
             /\ \A o : HoldsActiveSlot(rows, o) <=> o = q /\ row.status = "APPROVED"
  <2>1. rows \in Seq(ReservationRow)
    BY <1>1, <1>3, RowsForPeriod
  <2>2. \A o : HoldsActiveSlot(rows, o) <=> o = q
    BY <1>1, <1>3, BookedSlots
  <2>3. \A k \in DOMAIN rows :
          /\ k \in DOMAIN slots
          /\ rows[k].request = q /\ rows[k].resource = row.assigned
          /\ rows[k].start = slots[k].start /\ rows[k].end = slots[k].end
    BY <1>3 DEF BookingRows
  <2>. QED
    BY <1>3, <2>1, <2>2, <2>3
<1>. QED
  BY <1>2, <1>3 DEF Gives

\* The calendar after that, row by row: an active old row is another request's
\* and as it was; a new row is a slot of q.
LEMMA RebookedRows ==
  ASSUME HandlersTypeOK, HandlersTypeOK', NEW q, NEW rows, Rebooks(q, rows)
  PROVE  LET n     == Len(reservation)
             slots == ExpandSlots(request'[q].period)
         IN  /\ n \in Nat /\ DOMAIN reservation = 1 .. n
             /\ DOMAIN reservation' \subseteq Nat \ {0}
             /\ \A i \in DOMAIN reservation' :
                  i <= n => /\ i \in DOMAIN reservation
                            /\ ActiveRow(reservation'[i])
                                 => /\ reservation'[i] = reservation[i]
                                    /\ reservation[i].request # q
             /\ \A i \in DOMAIN reservation' :
                  i > n => /\ i - n \in DOMAIN slots
                           /\ reservation'[i].request = q
                           /\ reservation'[i].resource = request'[q].assigned
                           /\ reservation'[i].start = slots[i - n].start
                           /\ reservation'[i].end = slots[i - n].end
<1>. DEFINE n     == Len(reservation)
            m     == Len(rows)
            old   == Released(reservation, q)
            slots == ExpandSlots(request'[q].period)
<1>1. /\ n \in Nat /\ DOMAIN reservation = 1 .. n /\ reservation \in Seq(ReservationRow)
      /\ old \in Seq(ReservationRow) /\ Len(old) = n
      /\ \A i \in 1 .. n :
           old[i] = IF reservation[i].request = q
                      THEN [reservation[i] EXCEPT !.status = "CANCELLED"]
                      ELSE reservation[i]
  <2>1. reservation \in Seq(ReservationRow)
    BY DEF HandlersTypeOK
  <2>2. n \in Nat /\ DOMAIN reservation = 1 .. n
    BY <2>1, LenProperties
  <2>. QED
    BY <2>1, <2>2, ReleasedType
<1>2. ASSUME NEW i \in 1 .. n, ActiveRow(old[i])
      PROVE  old[i] = reservation[i] /\ reservation[i].request # q
  <2>1. reservation[i] \in ReservationRow
    BY <1>1, ElementOfSeq
  <2>2. [reservation[i] EXCEPT !.status = "CANCELLED"].status = "CANCELLED"
    BY <2>1 DEF ReservationRow
  <2>. QED
    BY <1>1, <1>2, <2>2 DEF ActiveRow
<1>3. q \in Nat /\ request'[q] \in RequestRow /\ Gives(rows, q, request'[q])
  <2>1. q \in Nat /\ q \in DOMAIN request' /\ Gives(rows, q, request'[q])
    BY DEF Rebooks
  <2>2. request' \in Seq(RequestRow)
    BY DEF HandlersTypeOK
  <2>3. q \in 1 .. Len(request')
    BY <2>1, <2>2, LenProperties
  <2>. QED
    BY <2>1, <2>2, <2>3, ElementOfSeq
<1>4. /\ rows \in Seq(ReservationRow)
      /\ \A k \in DOMAIN rows :
           /\ k \in DOMAIN slots
           /\ rows[k].request = q /\ rows[k].resource = request'[q].assigned
           /\ rows[k].start = slots[k].start /\ rows[k].end = slots[k].end
  BY <1>3, GivenRows
<1>5. reservation' = old \o rows
  BY DEF Rebooks
<1>. HIDE DEF old, slots
<1>6. m \in Nat /\ DOMAIN rows = 1 .. m
  BY <1>4, LenProperties
<1>7. /\ DOMAIN reservation' = 1 .. n + m
      /\ \A i \in 1 .. n + m : reservation'[i] = IF i <= n THEN old[i] ELSE rows[i - n]
  <2>1. old \in Seq(ReservationRow) /\ rows \in Seq(ReservationRow) /\ Len(old) = n
    BY <1>1, <1>4
  <2>2. /\ old \o rows \in Seq(ReservationRow)
        /\ Len(old \o rows) = Len(old) + m
        /\ \A i \in 1 .. Len(old) + m :
             (old \o rows)[i] = IF i <= Len(old) THEN old[i] ELSE rows[i - Len(old)]
    BY <2>1, ConcatProperties
  <2>3. DOMAIN (old \o rows) = 1 .. n + m
    BY <2>1, <2>2, LenProperties
  <2>. QED
    BY <1>5, <2>1, <2>2, <2>3
<1>8. ASSUME NEW i \in DOMAIN reservation', i <= n
      PROVE  /\ i \in DOMAIN reservation
             /\ ActiveRow(reservation'[i])
                  => reservation'[i] = reservation[i] /\ reservation[i].request # q
  <2>1. i \in 1 .. n /\ reservation'[i] = old[i]
    BY <1>1, <1>6, <1>7, <1>8
  <2>. QED
    BY <1>1, <1>2, <2>1
<1>9. ASSUME NEW i \in DOMAIN reservation', i > n
      PROVE  /\ i - n \in DOMAIN slots
             /\ reservation'[i].request = q
             /\ reservation'[i].resource = request'[q].assigned
             /\ reservation'[i].start = slots[i - n].start
             /\ reservation'[i].end = slots[i - n].end
  <2>1. i - n \in DOMAIN rows /\ reservation'[i] = rows[i - n]
    BY <1>1, <1>6, <1>7, <1>9
  <2>. QED
    BY <1>4, <2>1
<1>10. DOMAIN reservation' \subseteq Nat \ {0}
  BY <1>1, <1>6, <1>7
<1>. QED
  BY <1>1, <1>8, <1>9, <1>10 DEF slots

\* Releasing one request and giving it nothing or all it asks for keeps every
\* booking whole.
LEMMA RebookingIsWhole ==
  ASSUME HandlersTypeOK, HandlersTypeOK', Whole, NEW q, NEW rows, Rebooks(q, rows)
  PROVE  Whole'
<1>. DEFINE n     == Len(reservation)
            slots == ExpandSlots(request'[q].period)
            Old(i) == i \in DOMAIN reservation' /\ i <= n
            New(i) == i \in DOMAIN reservation' /\ i > n
<1>1. /\ ApprovedHolds(request, reservation)
      /\ AllMatch(request, reservation)
      /\ NoneTwice(reservation)
  BY WholeMeans DEF WholeTables
<1>2. /\ q \in Nat /\ q # NoRequest
      /\ DOMAIN request' = DOMAIN request \union {q}
      /\ \A o \in DOMAIN request \ {q} : request'[o] = request[o]
      /\ reservation' = Released(reservation, q) \o rows
      /\ Gives(rows, q, request'[q])
  BY DEF Rebooks
<1>3. request'[q] \in RequestRow /\ request'[q].period \in Period
  <2>1. request' \in Seq(RequestRow)
    BY DEF HandlersTypeOK
  <2>2. q \in 1 .. Len(request')
    BY <1>2, <2>1, LenProperties
  <2>3. request'[q] \in RequestRow
    BY <2>1, <2>2, ElementOfSeq
  <2>. QED
    BY <2>3 DEF RequestRow
<1>4. /\ n \in Nat /\ DOMAIN reservation = 1 .. n
      /\ DOMAIN reservation' \subseteq Nat \ {0}
  BY RebookedRows
<1>5. ASSUME NEW i, Old(i)
      PROVE  /\ i \in DOMAIN reservation
             /\ ActiveRow(reservation'[i])
                  => reservation'[i] = reservation[i] /\ reservation[i].request # q
  BY <1>5, RebookedRows
<1>6. ASSUME NEW i, New(i)
      PROVE  /\ i - n \in DOMAIN slots
             /\ reservation'[i].request = q
             /\ reservation'[i].resource = request'[q].assigned
             /\ reservation'[i].start = slots[i - n].start
             /\ reservation'[i].end = slots[i - n].end
  BY <1>6, RebookedRows
<1>7. \A i \in DOMAIN reservation' : Old(i) \/ New(i)
  BY <1>4
<1>8. ApprovedHolds(request', reservation')
  <2>1. /\ rows \in Seq(ReservationRow)
        /\ \A o : HoldsActiveSlot(rows, o) <=> o = q /\ request'[q].status = "APPROVED"
    BY <1>2, <1>3, GivenRows
  <2>2. reservation \in Seq(ReservationRow)
    BY DEF HandlersTypeOK
  <2>3. /\ Released(reservation, q) \in Seq(ReservationRow)
        /\ \A o : HoldsActiveSlot(Released(reservation, q), o)
                    <=> o # q /\ HoldsActiveSlot(reservation, o)
    BY <2>2, ReleasedType, ReleasedSlots
  <2>4. \A o : HoldsActiveSlot(reservation', o)
                 <=> \/ o # q /\ HoldsActiveSlot(reservation, o)
                     \/ o = q /\ request'[q].status = "APPROVED"
    BY <1>2, <2>1, <2>3, ConcatSlots
  <2>. QED
    BY <1>1, <1>2, <2>4 DEF ApprovedHolds
<1>9. AllMatch(request', reservation')
  <2>1. ASSUME NEW i \in DOMAIN reservation', ActiveRow(reservation'[i]),
               reservation'[i].request # NoRequest
        PROVE  Matches(reservation'[i], request')
    <3>1. CASE Old(i)
      <4>1. /\ i \in DOMAIN reservation /\ reservation'[i] = reservation[i]
            /\ reservation[i].request # q
        BY <1>5, <2>1, <3>1
      <4>2. Matches(reservation[i], request)
        BY <1>1, <2>1, <4>1 DEF AllMatch
      <4>. QED
        BY <1>2, <4>1, <4>2 DEF Matches
    <3>2. CASE New(i)
      <4>1. /\ i - n \in DOMAIN slots
            /\ reservation'[i].request = q
            /\ reservation'[i].resource = request'[q].assigned
            /\ reservation'[i].start = slots[i - n].start
            /\ reservation'[i].end = slots[i - n].end
        BY <1>6, <3>2
      <4>2. q \in DOMAIN request'
        BY <1>2
      <4>. QED
        BY <4>1, <4>2, Zenon DEF Matches
    <3>. QED
      BY <1>7, <3>1, <3>2
  <2>. QED
    BY <2>1 DEF AllMatch
<1>10. NoneTwice(reservation')
  <2>1. ASSUME NEW j \in DOMAIN reservation', NEW i \in 1 .. j - 1,
               BothActive(reservation'[i], reservation'[j]),
               reservation'[j].request # NoRequest,
               reservation'[i].request = reservation'[j].request
        PROVE  FALSE
    <3>1. i \in DOMAIN reservation' /\ i \in Nat /\ j \in Nat /\ i < j
      <4>1. reservation' \in Seq(ReservationRow)
        BY DEF HandlersTypeOK
      <4>2. DOMAIN reservation' = 1 .. Len(reservation') /\ Len(reservation') \in Nat
        BY <4>1, LenProperties
      <4>. QED
        BY <4>2
    <3>2. ActiveRow(reservation'[i]) /\ ActiveRow(reservation'[j])
      BY <2>1 DEF BothActive
    <3>3. CASE Old(j)
      <4>1. Old(i)
        BY <1>4, <3>1, <3>3
      <4>2. /\ j \in DOMAIN reservation
            /\ reservation'[i] = reservation[i] /\ reservation'[j] = reservation[j]
        BY <1>5, <3>2, <3>3, <4>1
      <4>. QED
        BY <1>1, <2>1, <4>2 DEF NoneTwice
    <3>4. CASE New(j) /\ Old(i)
      BY <1>5, <1>6, <2>1, <3>2, <3>4
    <3>5. CASE New(j) /\ New(i)
      <4>1. i - n \in DOMAIN slots /\ j - n \in DOMAIN slots /\ i - n < j - n
        BY <1>4, <1>6, <3>1, <3>5
      <4>2. slots[i - n].end <= slots[j - n].start
        BY <1>3, <4>1, SlotsInOrder
      <4>3. slots[i - n].end \in Int /\ slots[j - n].start \in Int
        BY <1>3, <4>1, SlotsAreProper DEF Slot
      <4>4. reservation'[j].start < reservation'[i].end
        BY <2>1 DEF BothActive, Overlaps
      <4>. QED
        BY <1>6, <3>5, <4>2, <4>3, <4>4
    <3>. QED
      BY <1>7, <3>1, <3>3, <3>4, <3>5
  <2>. QED
    BY <2>1 DEF NoneTwice
<1>. QED
  BY <1>8, <1>9, <1>10, WholeMeans DEF WholeTables

-----------------------------------------------------------------------------
(* What the one coroutine has in hand                                      *)

\* A new application, which holds nothing; or a decision on a row nobody else
\* has touched, with everything its request holds to be released.
WritesWhole(t) ==
  \/ /\ t.q = NoRequest /\ WritesNothing(t)
     /\ t.next.status # "APPROVED"
  \/ RowIsCurrent(t) /\ t.release = ActiveOf(t.q) /\ Gives(t.rows, t.q, t.next)

AmendsWhole(t) ==
  /\ RowIsCurrent(t)
  /\ t.next.status = "APPROVED" /\ t.next.assigned \in Resource
  /\ ExpandSlots(t.next.period) # << >>

Sound(t) ==
  /\ t.at = "awaiting form" => RowIsCurrent(t)
  /\ t.at = "writing" => WritesWhole(t)
  /\ t.at = "amending" => AmendsWhole(t)

\* The inductive invariant: bookings are whole, and what the coroutine has read
\* and checked still stands.
LoneInv == Whole /\ \A s \in Staff : Sound(task[s])

\* It stands while the row it is about, and what that request holds, stay.
LEMMA StaysSound ==
  ASSUME NEW t, Sound(t),
         \A q \in DOMAIN request :
           /\ q \in DOMAIN request' /\ request'[q] = request[q]
           /\ ActiveOf(q)' = ActiveOf(q)
  PROVE  Sound(t)'
<1>1. RowIsCurrent(t) => RowIsCurrent(t)' /\ ActiveOf(t.q)' = ActiveOf(t.q)
  BY DEF RowIsCurrent
<1>2. WritesWhole(t) => WritesWhole(t)'
  BY <1>1 DEF WritesWhole, WritesNothing, Gives
<1>3. AmendsWhole(t) => AmendsWhole(t)'
  BY <1>1 DEF AmendsWhole
<1>. QED
  BY <1>1, <1>2, <1>3 DEF Sound

\* An actor moves on; the others have in hand what still stands.
LEMMA ActorStaysSound ==
  ASSUME HandlersTypeOK, NEW a \in Actor, NEW t, Goto(a, t),
         Whole', Sound(t)', \A s \in Staff \ {a} : Sound(task[s]),
         \A q \in DOMAIN request :
           /\ q \in DOMAIN request' /\ request'[q] = request[q]
           /\ ActiveOf(q)' = ActiveOf(q)
  PROVE  LoneInv'
<1>1. Staff \subseteq Actor /\ \A b \in Actor : task'[b] = IF b = a THEN t ELSE task[b]
  BY DEF HandlersTypeOK, Goto, Actor
<1>2. ASSUME NEW s \in Staff
      PROVE  Sound(task[s])'
  <2>1. CASE s = a
    BY <1>1, <2>1
  <2>2. CASE s # a
    <3>1. PICK u : u = task[s]
      OBVIOUS
    <3>2. Sound(u)'
      BY <2>2, <3>1, StaysSound
    <3>. QED
      BY <1>1, <2>2, <3>1, <3>2
  <2>. QED
    BY <2>1, <2>2
<1>. QED
  BY <1>2 DEF LoneInv

\* A step that only reads.
LEMMA ReadingStaysSound ==
  ASSUME HandlersTypeOK, LoneInv, UNCHANGED <<request, reservation>>,
         NEW a \in Actor, NEW t, Goto(a, t), Sound(t)
  PROVE  LoneInv'
<1>1. request' = request /\ reservation' = reservation
  OBVIOUS
<1>2. \A q \in DOMAIN request :
        /\ q \in DOMAIN request' /\ request'[q] = request[q]
        /\ ActiveOf(q)' = ActiveOf(q)
  BY <1>1 DEF ActiveOf
<1>3. Whole'
  BY <1>1, WholeMeans DEF LoneInv
<1>4. Sound(t)'
  BY <1>2, StaysSound
<1>. QED
  BY <1>2, <1>3, <1>4, ActorStaysSound DEF LoneInv

\* The one coroutine writes and is done.
LEMMA CoroutineIsDone ==
  ASSUME OneCoroutine, HandlersTypeOK, HandlersTypeOK', LoneInv,
         NEW s \in Staff, Goto(s, Idle), NEW q, NEW rows, Rebooks(q, rows)
  PROVE  LoneInv'
<1>1. Whole'
  BY RebookingIsWhole DEF LoneInv
<1>2. \A o \in Staff : task'[o] = Idle
  BY DEF OneCoroutine, Goto, HandlersTypeOK, Actor
<1>3. Sound(Idle)'
  BY DEF Sound, Idle
<1>. QED
  BY <1>1, <1>2, <1>3 DEF LoneInv

\* A request that does not exist yet holds nothing, and one that is not
\* approved holds nothing.
LEMMA HoldsNothing ==
  ASSUME HandlersTypeOK, Whole
  PROVE  /\ ~ HoldsActiveSlot(reservation, Len(request) + 1)
         /\ \A q \in DOMAIN request : request[q].status # "APPROVED" => ActiveOf(q) = {}
<1>1. DOMAIN request = 1 .. Len(request) /\ Len(request) \in Nat
  BY LenProperties DEF HandlersTypeOK
<1>2. \A i \in DOMAIN reservation : reservation[i].request \in {NoRequest} \union DOMAIN request
  BY DEF HandlersTypeOK, OwnedBy, Owners
<1>3. ~ HoldsActiveSlot(reservation, Len(request) + 1)
  BY <1>1, <1>2 DEF HoldsActiveSlot, NoRequest
<1>4. \A q \in DOMAIN request :
        request[q].status # "APPROVED" => ~ HoldsActiveSlot(reservation, q)
  BY WholeMeans DEF WholeTables, ApprovedHolds
<1>. QED
  BY <1>3, <1>4 DEF HoldsActiveSlot, ActiveOf

\* A new request is added.
LEMMA AddingRebooks ==
  ASSUME HandlersTypeOK, Whole, NEW row \in RequestRow, NEW rows \in Seq(ReservationRow),
         request' = Append(request, row), reservation' = reservation \o rows,
         Gives(rows, Len(request) + 1, row)
  PROVE  Rebooks(Len(request) + 1, rows)
<1>. DEFINE q == Len(request) + 1
<1>1. /\ request \in Seq(RequestRow) /\ reservation \in Seq(ReservationRow)
      /\ DOMAIN request = 1 .. Len(request) /\ Len(request) \in Nat
  BY LenProperties DEF HandlersTypeOK
<1>2. /\ Append(request, row) \in Seq(RequestRow)
      /\ Len(Append(request, row)) = q
      /\ Append(request, row)[q] = row
      /\ \A o \in 1 .. Len(request) : Append(request, row)[o] = request[o]
  BY <1>1, AppendProperties
<1>3. DOMAIN Append(request, row) = 1 .. q
  BY <1>2, LenProperties
<1>4. Released(reservation, q) = reservation
  BY <1>1, HoldsNothing, NothingToRelease
<1>5. q \in Nat \ {NoRequest} /\ 1 .. q = (1 .. Len(request)) \union {q}
  BY <1>1 DEF NoRequest
<1>. QED
  BY <1>1, <1>2, <1>3, <1>4, <1>5 DEF Rebooks

\* A request is written back whose row nobody else has touched.
LEMMA WritingBackRebooks ==
  ASSUME HandlersTypeOK, NEW t, RowIsCurrent(t), t.next \in RequestRow,
         NEW rows, Gives(rows, t.q, t.next),
         request' = [request EXCEPT ![t.q] = WriteBack(request[t.q], t.seen, t.next)],
         reservation' = Cancelled(ActiveOf(t.q)) \o rows
  PROVE  Rebooks(t.q, rows)
<1>1. /\ request \in Seq(RequestRow) /\ reservation \in Seq(ReservationRow)
      /\ DOMAIN request = 1 .. Len(request) /\ Len(request) \in Nat
  BY LenProperties DEF HandlersTypeOK
<1>2. t.q \in DOMAIN request /\ t.seen = request[t.q]
  BY DEF RowIsCurrent
<1>3. request[t.q] \in RequestRow
  BY <1>1, <1>2, ElementOfSeq
<1>4. WriteBack(request[t.q], t.seen, t.next) = t.next
  BY <1>2, <1>3, FreshWriteBack
<1>5. /\ DOMAIN request' = DOMAIN request /\ request'[t.q] = t.next
      /\ \A o \in DOMAIN request \ {t.q} : request'[o] = request[o]
  BY <1>2, <1>4
<1>6. reservation' = Released(reservation, t.q) \o rows
  BY <1>1, CancelledIsReleased
<1>7. t.q \in Nat \ {NoRequest} /\ DOMAIN request = DOMAIN request \union {t.q}
  BY <1>1, <1>2 DEF NoRequest
<1>. QED
  BY <1>5, <1>6, <1>7 DEF Rebooks

\* The commits of the coroutine.
LEMMA CoroutineWrites ==
  ASSUME OneCoroutine, HandlersTypeOK, HandlersTypeOK', LoneInv,
         NEW s \in Staff, Commit(s) \/ CommitAmend(s)
  PROVE  LoneInv'
<1>. DEFINE t == task[s]
<1>1. /\ Whole /\ Sound(t) /\ Goto(s, Idle)
      /\ TaskOK(t, DOMAIN request, DOMAIN reservation)
  BY DEF LoneInv, HandlersTypeOK, TasksOK, Actor, Commit, CommitAmend
<1>2. CASE Commit(s)
  <2>1. /\ t.at = "writing" /\ reservation' = Cancelled(t.release) \o t.rows
        /\ t.q = NoRequest => request' = Append(request, t.next)
        /\ t.q # NoRequest =>
             request' = [request EXCEPT ![t.q] = WriteBack(request[t.q], t.seen, t.next)]
    BY <1>2 DEF Commit
  <2>2. WritesWhole(t) /\ t.next \in RequestRow
    BY <1>1, <2>1 DEF Sound, TaskOK
  <2>3. CASE t.q = NoRequest /\ WritesNothing(t) /\ t.next.status # "APPROVED"
    <3>1. reservation \in Seq(ReservationRow)
      BY DEF HandlersTypeOK
    <3>2. reservation' = reservation \o << >> /\ << >> \in Seq(ReservationRow)
      BY <2>1, <2>3, <3>1, NothingWritten DEF WritesNothing
    <3>3. Gives(<< >>, Len(request) + 1, t.next)
      BY <2>3 DEF Gives
    <3>4. Rebooks(Len(request) + 1, << >>)
      BY <1>1, <2>1, <2>2, <2>3, <3>2, <3>3, AddingRebooks
    <3>. QED
      BY <1>1, <3>4, CoroutineIsDone
  <2>4. CASE RowIsCurrent(t) /\ t.release = ActiveOf(t.q) /\ Gives(t.rows, t.q, t.next)
    <3>1. t.q # NoRequest
      <4>1. DOMAIN request = 1 .. Len(request)
        BY LenProperties DEF HandlersTypeOK
      <4>. QED
        BY <2>4, <4>1 DEF RowIsCurrent, NoRequest
    <3>2. PICK u : u = t
      OBVIOUS
    <3>3. Rebooks(u.q, u.rows)
      BY <2>1, <2>2, <2>4, <3>1, <3>2, WritingBackRebooks
    <3>. QED
      BY <1>1, <3>3, CoroutineIsDone
  <2>. QED
    BY <2>2, <2>3, <2>4 DEF WritesWhole
<1>3. CASE CommitAmend(s)
  <2>. DEFINE r         == t.next.assigned
              slots     == ExpandSlots(t.next.period)
              conflicts == SlotConflicts(reservation, r, slots, t.q)
              rows      == BookingRows(t.q, r, slots, conflicts)
  <2>1. t.at = "amending"
    BY <1>3 DEF CommitAmend
  <2>2. AmendsWhole(t) /\ t.next \in RequestRow
    BY <1>1, <2>1 DEF Sound, TaskOK
  <2>3. CASE UNCHANGED <<request, reservation>>
    <3>1. Sound(Idle)
      BY DEF Sound, Idle
    <3>. QED
      BY <1>1, <2>3, <3>1, ReadingStaysSound DEF Actor
  <2>4. CASE /\ request' = [request EXCEPT ![t.q] = WriteBack(request[t.q], t.seen, t.next)]
             /\ reservation' = Cancelled(ActiveOf(t.q)) \o rows
    <3>1. Gives(rows, t.q, t.next)
      BY <2>2 DEF AmendsWhole, Gives
    <3>2. PICK u : u = t
      OBVIOUS
    <3>3. PICK v : v = rows
      OBVIOUS
    <3>. HIDE DEF rows
    <3>4. Rebooks(u.q, v)
      BY <2>2, <2>4, <3>1, <3>2, <3>3, WritingBackRebooks DEF AmendsWhole
    <3>. QED
      BY <1>1, <3>4, CoroutineIsDone
  <2>. QED
    BY <1>3, <2>3, <2>4 DEF CommitAmend
<1>. QED
  BY <1>2, <1>3

\* The import of a worker, which the coroutine does not notice.
LEMMA ImportStaysSound ==
  ASSUME HandlersTypeOK, HandlersTypeOK', LoneInv, NEW w \in Worker, CommitImport(w)
  PROVE  LoneInv'
<1>. DEFINE t         == task[w]
            q         == Len(request) + 1
            new       == NewRequest(t.period, t.responseId)
            booked    == [new EXCEPT !.assigned = t.robot, !.status = "APPROVED"]
            slots     == ExpandSlots(t.period)
            conflicts == SlotConflicts(reservation, t.robot, slots, q)
            given     == BookingRows(q, t.robot, slots, conflicts)
<1>1. /\ w \in Actor /\ t.at = "importing" /\ Goto(w, Idle) /\ Whole
      /\ \/ /\ StillFree(t, conflicts)
            /\ request' = Append(request, booked)
            /\ reservation' = reservation \o given
         \/ request' = Append(request, new) /\ reservation' = reservation
  BY DEF CommitImport, Actor, LoneInv
<1>2. TaskOK(t, DOMAIN request, DOMAIN reservation)
  BY <1>1 DEF HandlersTypeOK, TasksOK
<1>3. /\ t.period \in Period /\ t.responseId \in ResponseId \union {NoResponseId}
      /\ slots # << >>
      /\ t.available = TRUE => t.robot \in Resource
  BY <1>1, <1>2, ValidPeriodHasSlots DEF TaskOK
<1>4. new \in RequestRow /\ new.status # "APPROVED" /\ new.period = t.period
  BY <1>3, NewRequestType DEF NewRequest
<1>5. /\ request \in Seq(RequestRow) /\ reservation \in Seq(ReservationRow)
      /\ DOMAIN request = 1 .. Len(request) /\ Len(request) \in Nat
  BY LenProperties DEF HandlersTypeOK
<1>6. \E row \in RequestRow, rows \in Seq(ReservationRow) :
        /\ request' = Append(request, row) /\ reservation' = reservation \o rows
        /\ Gives(rows, q, row)
  <2>1. ASSUME StillFree(t, conflicts), request' = Append(request, booked),
               reservation' = reservation \o given
        PROVE  /\ booked \in RequestRow /\ given \in Seq(ReservationRow)
               /\ Gives(given, q, booked)
    <3>1. t.robot \in Resource /\ q \in Nat
      BY <1>3, <1>5, <2>1 DEF StillFree
    <3>2. given \in Seq(ReservationRow)
      BY <1>3, <3>1, RowsForPeriod
    <3>3. /\ booked \in RequestRow /\ booked.status = "APPROVED"
          /\ booked.assigned = t.robot /\ booked.period = t.period
      BY <1>4, <3>1 DEF RequestRow, RequestStatus
    <3>. HIDE DEF booked, conflicts
    <3>4. Gives(given, q, booked)
      BY <1>3, <3>1, <3>3 DEF Gives
    <3>. QED
      BY <3>2, <3>3, <3>4
  <2>2. ASSUME request' = Append(request, new), reservation' = reservation
        PROVE  /\ << >> \in Seq(ReservationRow) /\ reservation' = reservation \o << >>
               /\ Gives(<< >>, q, new)
    BY <1>4, <1>5, <2>2, ConcatEmptySeq, EmptySeq DEF Gives
  <2>. HIDE DEF booked, given, new
  <2>. QED
    BY <1>1, <1>4, <2>1, <2>2
<1>7. PICK row \in RequestRow, rows \in Seq(ReservationRow) :
        /\ request' = Append(request, row) /\ reservation' = reservation \o rows
        /\ Gives(rows, q, row)
  BY <1>6
<1>8. Rebooks(q, rows)
  BY <1>1, <1>7, AddingRebooks
<1>9. Whole'
  BY <1>1, <1>5, <1>8, RebookingIsWhole
<1>10. ASSUME NEW o \in DOMAIN request
       PROVE  /\ o \in DOMAIN request' /\ request'[o] = request[o]
              /\ ActiveOf(o)' = ActiveOf(o)
  <2>1. o # q /\ o \in DOMAIN request' /\ request'[o] = request[o]
    BY <1>5, <1>8 DEF Rebooks
  <2>2. ASSUME NEW i
        PROVE  i \in ActiveOf(o)' <=> i \in ActiveOf(o)
    <3>1. i \in ActiveOf(o)' <=> /\ i \in DOMAIN reservation'
                                /\ reservation'[i].request = o
                                /\ ActiveRow(reservation'[i])
      BY DEF ActiveOf
    <3>2. i \in ActiveOf(o) <=> /\ i \in DOMAIN reservation
                               /\ reservation[i].request = o
                               /\ ActiveRow(reservation[i])
      BY DEF ActiveOf
    <3>3. /\ DOMAIN reservation' = 1 .. Len(reservation) + Len(rows)
          /\ Len(reservation) \in Nat /\ DOMAIN reservation = 1 .. Len(reservation)
          /\ Len(rows) \in Nat
          /\ \A k \in DOMAIN reservation : reservation'[k] = reservation[k]
      <4>1. /\ reservation \o rows \in Seq(ReservationRow)
            /\ Len(reservation \o rows) = Len(reservation) + Len(rows)
            /\ \A k \in 1 .. Len(reservation) : (reservation \o rows)[k] = reservation[k]
        BY <1>5, ConcatProperties, LenProperties
      <4>2. DOMAIN (reservation \o rows) = 1 .. Len(reservation) + Len(rows)
        BY <4>1, LenProperties
      <4>3. /\ Len(reservation) \in Nat /\ DOMAIN reservation = 1 .. Len(reservation)
            /\ Len(rows) \in Nat
        BY <1>5, LenProperties
      <4>. QED
        BY <1>7, <4>1, <4>2, <4>3
    <3>4. \A k \in DOMAIN reservation' \ DOMAIN reservation : reservation'[k].request = q
      BY <1>8, <3>3, RebookedRows
    <3>. QED
      BY <2>1, <3>1, <3>2, <3>3, <3>4
  <2>. QED
    BY <2>1, <2>2
<1>11. Sound(Idle)'
  BY DEF Sound, Idle
<1>. QED
  BY <1>1, <1>9, <1>10, <1>11, ActorStaysSound DEF LoneInv

\* Neither tables nor tasks change.
LEMMA UnchangedStaysSound ==
  ASSUME LoneInv, request' = request, reservation' = reservation, task' = task
  PROVE  LoneInv'
<1>1. Whole'
  BY WholeMeans DEF LoneInv
<1>2. \A s \in Staff : Sound(task[s])'
  BY DEF LoneInv, Sound, WritesWhole, WritesNothing, AmendsWhole, RowIsCurrent, ActiveOf, Gives
<1>. QED
  BY <1>1, <1>2 DEF LoneInv

\* Every check ends with something that stands, and no step of a worker or of
\* the coroutine itself takes it back.
LEMMA LoneInvKept ==
  ASSUME OneCoroutine, HandlersTypeOK, HandlersTypeOK', LoneInv, [Next]_vars
  PROVE  LoneInv'
<1>1. /\ Whole /\ Staff \subseteq Actor /\ Worker \subseteq Actor /\ Thread = {}
      /\ \A s \in Staff : Sound(task[s])
  BY DEF LoneInv, Actor, OneCoroutine
<1>2. /\ \A q \in DOMAIN request : request[q] \in RequestRow
      /\ \A a \in Actor : TaskOK(task[a], DOMAIN request, DOMAIN reservation)
  BY LenProperties, ElementOfSeq DEF HandlersTypeOK, TasksOK
<1>3. ASSUME NEW a \in Actor, NEW t, Goto(a, t), UNCHANGED tables, Sound(t)
      PROVE  LoneInv'
  BY <1>3, ReadingStaysSound DEF tables
\* A decision on a row that has just been read, or that still stands.
<1>4. ASSUME NEW s \in Staff, UNCHANGED tables, NEW q \in DOMAIN request,
             NEW next, NEW rows, Gives(rows, q, next),
             Goto(s, Writing(q, request[q], next, ActiveOf(q), rows))
      PROVE  LoneInv'
  <2>1. Sound(Writing(q, request[q], next, ActiveOf(q), rows))
    BY <1>4 DEF Sound, Writing, WritesWhole, RowIsCurrent
  <2>. QED
    BY <1>1, <1>3, <1>4, <2>1
\* A row that was loaded before the form.
<1>5. ASSUME NEW s \in Staff, HasForm(s)
      PROVE  /\ task[s].q \in DOMAIN request /\ task[s].seen = request[task[s].q]
             /\ task[s].seen \in RequestRow /\ task[s].seen.period \in Period
             /\ task[s].seen.status # "APPROVED" => ActiveOf(task[s].q) = {}
  <2>1. task[s].q \in DOMAIN request /\ task[s].seen = request[task[s].q]
    BY <1>1, <1>5 DEF HasForm, Sound, RowIsCurrent
  <2>. QED
    BY <1>1, <1>2, <2>1, HoldsNothing DEF RequestRow
<1>6. ASSUME NEW s \in Staff, NEW q \in DOMAIN request, Load(s, q)
      PROVE  LoneInv'
  <2>1. Sound([at |-> "awaiting form", q |-> q, seen |-> request[q]])
    <3>1. "awaiting form" # "writing" /\ "awaiting form" # "amending"
      OBVIOUS
    <3>. QED
      BY <3>1 DEF Sound, RowIsCurrent
  <2>. QED
    BY <1>1, <1>3, <1>6, <2>1 DEF Load
<1>7. ASSUME NEW a \in Actor, Rollback(a)
      PROVE  LoneInv'
  <2>1. Sound(Idle)
    BY DEF Sound, Idle
  <2>. QED
    BY <1>3, <1>7, <2>1 DEF Rollback
<1>8. ASSUME NEW s \in Staff, NEW p, NEW rid, CheckCreate(s, p, rid)
      PROVE  LoneInv'
  <2>1. Sound(Writing(NoRequest, NewRequest(p, rid), NewRequest(p, rid), {}, << >>))
    BY DEF Sound, Writing, WritesWhole, WritesNothing, NewRequest
  <2>. QED
    BY <1>1, <1>3, <1>8, <2>1 DEF CheckCreate
<1>9. ASSUME NEW s \in Staff, NEW p, NEW rid, NEW r, CheckEdit(s, p, rid, r)
      PROVE  LoneInv'
  <2>1. /\ HasForm(s) /\ task[s].seen.status = "PENDING" /\ UNCHANGED tables
        /\ Goto(s, Writing(task[s].q, task[s].seen,
                           WithFields(task[s].seen, p, rid, r), {}, << >>))
    BY <1>9 DEF CheckEdit
  <2>2. WithFields(task[s].seen, p, rid, r).status = "PENDING"
    BY <1>5, <2>1 DEF WithFields, RequestRow
  <2>3. Gives(<< >>, task[s].q, WithFields(task[s].seen, p, rid, r))
    BY <2>2 DEF Gives
  <2>. QED
    BY <1>4, <1>5, <2>1, <2>3
<1>10. ASSUME NEW s \in Staff, NEW r \in Resource, NEW allow, CheckApprove(s, r, allow)
       PROVE  LoneInv'
  <2>. DEFINE t     == task[s]
              slots == ExpandSlots(t.seen.period)
              rows  == BookingRows(t.q, r, slots, SlotConflicts(reservation, r, slots, t.q))
              next  == [t.seen EXCEPT !.assigned = r, !.status = "APPROVED"]
  <2>1. /\ HasForm(s) /\ t.seen.status = "PENDING" /\ UNCHANGED tables /\ slots # << >>
        /\ Goto(s, Writing(t.q, t.seen, next, {}, rows))
    BY <1>10 DEF CheckApprove
  <2>2. /\ next.status = "APPROVED" /\ next.assigned = r
        /\ next.period = t.seen.period
    BY <1>5, <2>1 DEF RequestRow
  <2>. HIDE DEF next
  <2>3. Gives(rows, t.q, next)
    BY <2>1, <2>2 DEF Gives
  <2>. HIDE DEF rows
  <2>. QED
    BY <1>4, <1>5, <2>1, <2>3
<1>11. ASSUME NEW s \in Staff, NEW p \in Periods, NEW rid, NEW r \in Resource, NEW allow,
              CheckAmend(s, p, rid, r, allow)
       PROVE  LoneInv'
  <2>. DEFINE t     == task[s]
              slots == ExpandSlots(p)
              rows  == BookingRows(t.q, r, slots, SlotConflicts(reservation, r, slots, t.q))
              next  == WithFields(t.seen, p, rid, r)
              amend == [at |-> "amending", q |-> t.q, seen |-> t.seen,
                        next |-> next, allow |-> allow]
  <2>1. /\ HasForm(s) /\ t.seen.status = "APPROVED" /\ UNCHANGED tables /\ ValidPeriod(p)
        /\ \/ Goto(s, Writing(t.q, t.seen, next, ActiveOf(t.q), rows))
           \/ Goto(s, amend)
    BY <1>11 DEF CheckAmend
  <2>2. slots # << >>
    BY <2>1, HandlerAssumption, ValidPeriodHasSlots
  <2>3. next.status = "APPROVED" /\ next.assigned = r /\ next.period = p
    BY <1>5, <2>1, NullAssumption DEF WithFields, RequestRow
  <2>. HIDE DEF next
  <2>4. Gives(rows, t.q, next)
    BY <2>2, <2>3 DEF Gives
  <2>. HIDE DEF rows
  <2>5. Sound(amend)
    BY <1>5, <2>1, <2>2, <2>3 DEF Sound, AmendsWhole, RowIsCurrent
  <2>. HIDE DEF amend
  <2>. QED
    BY <1>1, <1>3, <1>4, <1>5, <2>1, <2>4, <2>5
<1>12. ASSUME NEW s \in Staff, CheckReject(s)
       PROVE  LoneInv'
  <2>1. /\ HasForm(s) /\ task[s].seen.status = "PENDING" /\ UNCHANGED tables
        /\ Goto(s, Writing(task[s].q, task[s].seen,
                           [task[s].seen EXCEPT !.status = "REJECTED"], {}, << >>))
    BY <1>12 DEF CheckReject
  <2>2. [task[s].seen EXCEPT !.status = "REJECTED"].status = "REJECTED"
    BY <1>5, <2>1 DEF RequestRow
  <2>3. Gives(<< >>, task[s].q, [task[s].seen EXCEPT !.status = "REJECTED"])
    BY <2>2 DEF Gives
  <2>. QED
    BY <1>4, <1>5, <2>1, <2>3
<1>13. ASSUME NEW s \in Staff, CheckCancel(s)
       PROVE  LoneInv'
  <2>1. /\ HasForm(s) /\ UNCHANGED tables
        /\ Goto(s, Writing(task[s].q, task[s].seen,
                           [task[s].seen EXCEPT !.status = "CANCELLED"],
                           ActiveOf(task[s].q), << >>))
    BY <1>13 DEF CheckCancel
  <2>2. [task[s].seen EXCEPT !.status = "CANCELLED"].status = "CANCELLED"
    BY <1>5, <2>1 DEF RequestRow
  <2>3. Gives(<< >>, task[s].q, [task[s].seen EXCEPT !.status = "CANCELLED"])
    BY <2>2 DEF Gives
  <2>. QED
    BY <1>4, <1>5, <2>1, <2>3
<1>14. ASSUME NEW s \in Staff, NEW q \in DOMAIN request, CheckReopen(s, q)
       PROVE  LoneInv'
  <2>1. /\ request[q].status # "APPROVED" /\ UNCHANGED tables
        /\ Goto(s, Writing(q, request[q], [request[q] EXCEPT !.status = "PENDING"],
                           {}, << >>))
    BY <1>14 DEF CheckReopen, ClosedStatus
  <2>2. [request[q] EXCEPT !.status = "PENDING"].status = "PENDING" /\ ActiveOf(q) = {}
    BY <1>1, <1>2, <2>1, HoldsNothing DEF RequestRow
  <2>3. Gives(<< >>, q, [request[q] EXCEPT !.status = "PENDING"])
    BY <2>2 DEF Gives
  <2>. QED
    BY <1>4, <2>1, <2>2, <2>3
<1>15. ASSUME NEW s \in Staff, StaffStep(s)
       PROVE  LoneInv'
  BY <1>6, <1>8, <1>9, <1>10, <1>11, <1>12, <1>13, <1>14, <1>15, CoroutineWrites
  DEF StaffStep
<1>16. ASSUME NEW s, NEW r, NEW status, CommitResource(s, r, status)
       PROVE  LoneInv'
  <2>1. /\ request' = request /\ reservation' = reservation /\ task' = task
    BY <1>16 DEF CommitResource
  <2>. QED
    BY <1>1, <2>1, UnchangedStaysSound
<1>17. ASSUME NEW w \in Worker, WorkerStep(w)
       PROVE  LoneInv'
  <2>1. ASSUME NEW p, NEW rid, NEW facility, NEW r, ReadApplication(w, p, rid, facility, r)
        PROVE  LoneInv'
    <3>1. UNCHANGED tables /\ \E t : Goto(w, t) /\ t.at = "importing"
      BY <2>1 DEF ReadApplication
    <3>2. PICK t : Goto(w, t) /\ t.at = "importing"
      BY <3>1
    <3>3. Sound(t)
      BY <3>2 DEF Sound
    <3>. QED
      BY <1>1, <1>3, <3>1, <3>2, <3>3
  <2>. QED
    BY <1>17, <2>1, ImportStaysSound DEF WorkerStep
<1>18. ASSUME UNCHANGED vars
       PROVE  LoneInv'
  <2>1. request' = request /\ reservation' = reservation /\ task' = task
    BY <1>18 DEF vars
  <2>. QED
    BY <1>1, <2>1, UnchangedStaysSound
<1>. QED
  BY <1>1, <1>7, <1>15, <1>16, <1>17, <1>18 DEF Next

\* With one coroutine and any number of workers, bookings are whole and stay so.
LEMMA BookingsStayWhole ==
  ASSUME OneCoroutine
  PROVE  Spec => []Whole
<1>1. Init => LoneInv
  <2>1. ASSUME Init
        PROVE  Whole
    <3>1. WholeTables(request, reservation)
      BY <2>1 DEF Init, WholeTables, ApprovedHolds, AllMatch, NoneTwice
    <3>. QED
      BY <3>1, WholeMeans
  <2>2. Sound(Idle)
    BY DEF Sound, Idle
  <2>. QED
    BY <2>1, <2>2 DEF Init, LoneInv, Actor
<1>2. HandlersTypeOK /\ HandlersTypeOK' /\ LoneInv /\ [Next]_vars => LoneInv'
  BY LoneInvKept
<1>3. LoneInv => Whole
  BY DEF LoneInv
<1>. QED
  BY <1>1, <1>2, <1>3, HandlersTypeCorrect, PTL DEF Spec

\* A request is APPROVED exactly while it holds a slot, when staff do one thing
\* at a time and leave the calendar's forms alone, however many workers import
\* beside them (two coroutines break it: DoubleApproval).
THEOREM LoneApprovedHolds == OneCoroutine => (Spec => []ApprovedHoldsSlots)
<1>1. SUFFICES ASSUME OneCoroutine
               PROVE  Spec => []ApprovedHoldsSlots
  OBVIOUS
<1>2. Spec => []Whole
  BY <1>1, BookingsStayWhole
<1>3. Whole => ApprovedHoldsSlots
  BY DEF Whole
<1>. QED
  BY <1>2, <1>3, PTL

\* In the same setting a booking's slots are those its request asks for, on the
\* robot it is assigned, whatever was edited, amended or imported meanwhile.
THEOREM LoneSlotsMatch == OneCoroutine => (Spec => []SlotsMatchRequest)
<1>1. SUFFICES ASSUME OneCoroutine
               PROVE  Spec => []SlotsMatchRequest
  OBVIOUS
<1>2. Spec => []Whole
  BY <1>1, BookingsStayWhole
<1>3. Whole => SlotsMatchRequest
  BY DEF Whole
<1>. QED
  BY <1>2, <1>3, PTL

\* In the same setting no request holds the same session twice: an approval or
\* an amendment never adds to slots that are still held (two coroutines break
\* it: DoubleApproval).
THEOREM LoneNotTwice == OneCoroutine => (Spec => []NoSlotHeldTwice)
<1>1. SUFFICES ASSUME OneCoroutine
               PROVE  Spec => []NoSlotHeldTwice
  OBVIOUS
<1>2. Spec => []Whole
  BY <1>1, BookingsStayWhole
<1>3. Whole => NoSlotHeldTwice
  BY DEF Whole
<1>. QED
  BY <1>2, <1>3, PTL

-----------------------------------------------------------------------------
(* What a form may do to the dates of a request and whom it may book       *)

\* A decision in hand, while the robots have the given status: it keeps the dates
\* it loaded or sets dates that run forward, and the robots it books are in
\* service.
FormOK(t, status) ==
  /\ t.at \in {"writing", "amending"} =>
       \/ RunsForward(t.next.period)
       \/ t.q # NoRequest /\ t.next.period = t.seen.period
  /\ t.at = "writing" => \A k \in DOMAIN t.rows : status[t.rows[k].resource] = "Active"
  /\ t.at = "amending" => status[t.next.assigned] = "Active"

FormsOK == \A s \in Staff : FormOK(task[s], resourceStatus)

\* The handlers that only read, or give up.
OnlyReads ==
  /\ UNCHANGED tables
  /\ \/ task' = task
     \/ \E a \in Actor : \E t : Goto(a, t) /\ FormOK(t, resourceStatus)

\* update_resource finds no decision between its check and its commit.
SetsStatus == LoopIsFree /\ UNCHANGED <<request, reservation, task>>

WritesTables ==
  \/ \E s \in Actor : Commit(s) \/ CommitAmend(s)
  \/ \E a \in Actor : CommitRelease(a) \/ CommitManual(a) \/ CommitImport(a)

\* Dates that pass the form's checks run forward.
LEMMA ValidDatesRunForward ==
  ASSUME NEW p \in Period, ValidPeriod(p)
  PROVE  RunsForward(p)
BY DEF Period, ValidPeriod, RunsForward

\* Every step reads, sets a robot's status or writes, and what it leaves in hand
\* is in order.
LEMMA KindsOfStep ==
  ASSUME HandlersTypeOK, [Next]_vars
  PROVE  OnlyReads \/ SetsStatus \/ WritesTables
<1>1. /\ Periods \subseteq Period
      /\ Staff \subseteq Actor /\ Thread \subseteq Actor /\ Worker \subseteq Actor
  BY HandlerAssumption DEF Actor
<1>2. ASSUME NEW a \in Actor, NEW t, Goto(a, t), UNCHANGED tables,
             t.at \notin {"writing", "amending"}
      PROVE  OnlyReads
  BY <1>2 DEF OnlyReads, FormOK
\* A decision without new rows.
<1>3. ASSUME NEW s \in Actor, NEW q, NEW seen, NEW next, NEW release,
             UNCHANGED tables, Goto(s, Writing(q, seen, next, release, << >>)),
             RunsForward(next.period) \/ (q # NoRequest /\ next.period = seen.period)
      PROVE  OnlyReads
  <2>1. FormOK(Writing(q, seen, next, release, << >>), resourceStatus)
    BY <1>3 DEF FormOK, Writing
  <2>. QED
    BY <1>3, <2>1 DEF OnlyReads
\* A decision that books a robot.
<1>4. ASSUME NEW s \in Actor, NEW q, NEW seen, NEW next, NEW release, NEW r, NEW slots,
             NEW conflicts, resourceStatus[r] = "Active", UNCHANGED tables,
             Goto(s, Writing(q, seen, next, release, BookingRows(q, r, slots, conflicts))),
             RunsForward(next.period) \/ (q # NoRequest /\ next.period = seen.period)
      PROVE  OnlyReads
  <2>1. \A k \in DOMAIN BookingRows(q, r, slots, conflicts) :
          BookingRows(q, r, slots, conflicts)[k].resource = r
    BY DEF BookingRows
  <2>2. FormOK(Writing(q, seen, next, release, BookingRows(q, r, slots, conflicts)),
               resourceStatus)
    BY <1>4, <2>1 DEF FormOK, Writing
  <2>. QED
    BY <1>4, <2>2 DEF OnlyReads
<1>5. ASSUME NEW s \in Actor, HasForm(s)
      PROVE  task[s].q \in DOMAIN request /\ task[s].q # NoRequest /\ task[s].seen \in RequestRow
  <2>1. TaskOK(task[s], DOMAIN request, DOMAIN reservation)
    BY DEF HandlersTypeOK, TasksOK
  <2>2. task[s].q \in DOMAIN request /\ task[s].seen \in RequestRow
    <3>1. task[s].at = "awaiting form"
      BY <1>5 DEF HasForm
    <3>. QED
      BY <2>1, <3>1, Zenon DEF TaskOK
  <2>3. request \in Seq(RequestRow)
    BY DEF HandlersTypeOK
  <2>4. DOMAIN request = 1 .. Len(request)
    BY <2>3, LenProperties
  <2>5. task[s].q # NoRequest
    BY <2>2, <2>4 DEF NoRequest
  <2>. QED
    BY <2>2, <2>5
<1>6. ASSUME NEW s \in Staff, NEW p \in Periods, NEW rid \in ResponseId \union {NoResponseId},
             CheckCreate(s, p, rid)
      PROVE  OnlyReads
  <2>1. RunsForward(NewRequest(p, rid).period)
    BY <1>1, <1>6, ValidDatesRunForward DEF CheckCreate, NewRequest
  <2>. QED
    BY <1>1, <1>3, <1>6, <2>1 DEF CheckCreate
<1>7. ASSUME NEW s \in Staff, NEW p \in Periods, NEW rid \in ResponseId \union {NoResponseId},
             NEW r \in Resource \union {NoResource}, HasForm(s), ValidPeriod(p)
      PROVE  RunsForward(WithFields(task[s].seen, p, rid, r).period)
  <2>1. WithFields(task[s].seen, p, rid, r).period = p
    BY <1>1, <1>5, <1>7 DEF WithFields, RequestRow
  <2>. QED
    BY <1>1, <1>7, <2>1, ValidDatesRunForward
<1>8. ASSUME NEW s \in Staff, NEW p \in Periods, NEW rid \in ResponseId \union {NoResponseId},
             NEW r \in Resource \union {NoResource}, CheckEdit(s, p, rid, r)
      PROVE  OnlyReads
  <2>1. RunsForward(WithFields(task[s].seen, p, rid, r).period)
    BY <1>7, <1>8 DEF CheckEdit
  <2>2. /\ UNCHANGED tables /\ s \in Actor
        /\ Goto(s, Writing(task[s].q, task[s].seen, WithFields(task[s].seen, p, rid, r),
                           {}, << >>))
    BY <1>1, <1>8 DEF CheckEdit
  <2>. QED
    BY <1>3, <2>1, <2>2
<1>9. ASSUME NEW s \in Staff, NEW r \in Resource, NEW allow, CheckApprove(s, r, allow)
      PROVE  OnlyReads
  <2>1. /\ task[s].q # NoRequest
        /\ [task[s].seen EXCEPT !.assigned = r, !.status = "APPROVED"].period
             = task[s].seen.period
    BY <1>1, <1>5, <1>9 DEF CheckApprove, RequestRow
  <2>. QED
    BY <1>1, <1>4, <1>9, <2>1 DEF CheckApprove
<1>10. ASSUME NEW s \in Staff, NEW p \in Periods, NEW rid \in ResponseId \union {NoResponseId},
              NEW r \in Resource, NEW allow, CheckAmend(s, p, rid, r, allow)
       PROVE  OnlyReads
  <2>. DEFINE q    == task[s].q
              next == WithFields(task[s].seen, p, rid, r)
              rows == BookingRows(q, r, ExpandSlots(p),
                                  SlotConflicts(reservation, r, ExpandSlots(p), q))
              k    == [at |-> "amending", q |-> q, seen |-> task[s].seen, next |-> next,
                       allow |-> allow]
  <2>1. /\ UNCHANGED tables /\ HasForm(s) /\ ValidPeriod(p) /\ resourceStatus[r] = "Active"
        /\ \/ Goto(s, Writing(q, task[s].seen, next, ActiveOf(q), rows))
           \/ Goto(s, k)
    BY <1>10 DEF CheckAmend
  <2>2. RunsForward(next.period)
    BY <1>7, <2>1
  <2>3. next.assigned = r
    BY <1>1, <1>5, <2>1, NullAssumption DEF WithFields, RequestRow
  <2>4. CASE Goto(s, Writing(q, task[s].seen, next, ActiveOf(q), rows))
    <3>1. /\ UNCHANGED tables /\ s \in Actor /\ resourceStatus[r] = "Active"
          /\ RunsForward(next.period)
      BY <1>1, <2>1, <2>2
    <3>. HIDE DEF next
    <3>. QED
      BY <1>4, <2>4, <3>1
  <2>5. CASE Goto(s, k)
    <3>1. k.at = "amending" /\ k.next = next
      OBVIOUS
    <3>. HIDE DEF k, next
    <3>2. FormOK(k, resourceStatus)
      BY <2>1, <2>2, <2>3, <3>1 DEF FormOK
    <3>. QED
      BY <1>1, <2>1, <2>5, <3>2 DEF OnlyReads
  <2>. QED
    BY <2>1, <2>4, <2>5
<1>11. ASSUME NEW s \in Staff, CheckReject(s) \/ CheckCancel(s)
       PROVE  OnlyReads
  <2>1. /\ task[s].q # NoRequest
        /\ [task[s].seen EXCEPT !.status = "REJECTED"].period = task[s].seen.period
        /\ [task[s].seen EXCEPT !.status = "CANCELLED"].period = task[s].seen.period
    BY <1>1, <1>5, <1>11 DEF CheckReject, CheckCancel, RequestRow
  <2>. QED
    BY <1>1, <1>3, <1>11, <2>1 DEF CheckReject, CheckCancel
<1>12. ASSUME NEW s \in Staff, NEW q \in DOMAIN request, CheckReopen(s, q)
       PROVE  OnlyReads
  <2>1. /\ q # NoRequest
        /\ [request[q] EXCEPT !.status = "PENDING"].period = request[q].period
    BY LenProperties, ElementOfSeq DEF HandlersTypeOK, NoRequest, RequestRow
  <2>. QED
    BY <1>1, <1>3, <1>12, <2>1 DEF CheckReopen
<1>13. ASSUME NEW s \in Staff, NEW q \in DOMAIN request, Load(s, q)
       PROVE  OnlyReads
  <2>1. UNCHANGED tables /\ Goto(s, [at |-> "awaiting form", q |-> q, seen |-> request[q]])
    BY <1>13 DEF Load
  <2>2. [at |-> "awaiting form", q |-> q, seen |-> request[q]].at \notin {"writing", "amending"}
    BY Zenon
  <2>. QED
    BY <1>1, <1>2, <2>1, <2>2
<1>14. ASSUME NEW a \in Actor, Rollback(a)
       PROVE  OnlyReads
  BY <1>2, <1>14 DEF Rollback, Idle
<1>15. ASSUME NEW t \in Thread, ThreadStep(t)
       PROVE  OnlyReads \/ WritesTables
  BY <1>1, <1>2, <1>15 DEF ThreadStep, LoadReservation, CheckManual, WritesTables
<1>16. ASSUME NEW w \in Worker, WorkerStep(w)
       PROVE  OnlyReads \/ WritesTables
  BY <1>1, <1>2, <1>16 DEF WorkerStep, ReadApplication, WritesTables
<1>17. ASSUME NEW s \in Staff, Commit(s) \/ CommitAmend(s)
       PROVE  WritesTables
  BY <1>1, <1>17 DEF WritesTables
<1>18. ASSUME NEW s \in Staff, NEW r \in Resource, NEW status, CommitResource(s, r, status)
       PROVE  SetsStatus
  BY <1>18 DEF CommitResource, SetsStatus
<1>19. CASE UNCHANGED vars
  BY <1>19 DEF vars, tables, OnlyReads
<1>. QED
  BY <1>6, <1>8, <1>9, <1>10, <1>11, <1>12, <1>13, <1>14, <1>15, <1>16, <1>17, <1>18, <1>19
  DEF Next, StaffStep

\* A commit ends the actor's task and touches no other, nor a robot.
LEMMA WriterIsDone ==
  ASSUME HandlersTypeOK, WritesTables
  PROVE  resourceStatus' = resourceStatus /\ \E a \in Actor : Goto(a, Idle)
BY DEF WritesTables, Commit, CommitAmend, CommitRelease, CommitManual, CommitImport

\* Forms in hand stay in order.
LEMMA FormsStayOK ==
  ASSUME HandlersTypeOK, FormsOK, [Next]_vars
  PROVE  FormsOK'
<1>1. DOMAIN task = Actor /\ Staff \subseteq Actor
  BY DEF HandlersTypeOK, Actor
<1>2. ASSUME NEW a \in Actor, NEW t, Goto(a, t), FormOK(t, resourceStatus),
             resourceStatus' = resourceStatus
      PROVE  FormsOK'
  <2>1. ASSUME NEW s \in Staff
        PROVE  task'[s] = t \/ task'[s] = task[s]
    BY <1>1, <1>2 DEF Goto
  <2>. QED
    BY <1>2, <2>1 DEF FormsOK
<1>3. CASE OnlyReads
  <2>1. resourceStatus' = resourceStatus
    BY <1>3 DEF OnlyReads, tables
  <2>. QED
    BY <1>2, <1>3, <2>1 DEF OnlyReads, FormsOK
<1>4. CASE SetsStatus
  <2>1. ASSUME NEW s \in Staff
        PROVE  FormOK(task'[s], resourceStatus')
    <3>1. task'[s].at \in {"idle", "awaiting form"}
      BY <1>4 DEF SetsStatus, LoopIsFree
    <3>2. task'[s].at # "writing" /\ task'[s].at # "amending"
      BY <3>1, Zenon
    <3>. QED
      BY <3>2 DEF FormOK
  <2>. QED
    BY <2>1 DEF FormsOK
<1>5. CASE WritesTables
  <2>1. FormOK(Idle, resourceStatus)
    BY DEF FormOK, Idle
  <2>. QED
    BY <1>2, <1>5, <2>1, WriterIsDone
<1>. QED
  BY <1>3, <1>4, <1>5, KindsOfStep

\* They always are.
LEMMA FormsAreOK == Spec => [](HandlersTypeOK /\ FormsOK)
<1>1. Init => FormsOK
  BY DEF Init, FormsOK, FormOK, Idle, Actor
<1>2. HandlersTypeOK /\ FormsOK /\ [Next]_vars => FormsOK'
  BY FormsStayOK
<1>. QED
  BY <1>1, <1>2, HandlersTypeCorrect, PTL DEF Spec

\* The columns of the dates a flush writes: those that the form changed.
LEMMA DatesWrittenBack ==
  ASSUME NEW current \in RequestRow, NEW seen \in RequestRow, NEW next \in RequestRow
  PROVE  /\ next.period = seen.period
              => WriteBack(current, seen, next).period = current.period
         /\ seen.period = current.period
              => WriteBack(current, seen, next).period = next.period
BY DEF WriteBack, RequestRow, Period

\* A request that is added has dates that run forward.
LEMMA AddingKeepsDates ==
  ASSUME HandlersTypeOK, NEW row \in RequestRow, RunsForward(row.period),
         request' = Append(request, row)
  PROVE  KeepsDates
<1>1. request \in Seq(RequestRow)
  BY DEF HandlersTypeOK
<1>2. Len(request) \in Nat /\ DOMAIN request = 1 .. Len(request)
  BY <1>1, LenProperties
<1>3. /\ request' \in Seq(RequestRow) /\ Len(request') = Len(request) + 1
      /\ \A q \in 1 .. Len(request) : request'[q] = request[q]
      /\ request'[Len(request) + 1] = row
  BY <1>1, AppendProperties
<1>4. DOMAIN request' = 1 .. Len(request) + 1
  BY <1>3, LenProperties
<1>5. ASSUME NEW q \in DOMAIN request'
      PROVE  q \in DOMAIN request \/ q = Len(request) + 1
  BY <1>2, <1>4
<1>. QED
  BY <1>2, <1>3, <1>5 DEF KeepsDates

\* A flush that nobody overtook leaves dates as they were or in order.
LEMMA WritingBackKeepsDates ==
  ASSUME HandlersTypeOK, NEW s \in Staff, FormOK(task[s], resourceStatus), Goto(s, Idle),
         task[s].at \in {"writing", "amending"}, task[s].q \in DOMAIN request,
         task[s].seen \in RequestRow, task[s].next \in RequestRow,
         request' = [request EXCEPT
                       ![task[s].q] = WriteBack(@, task[s].seen, task[s].next)]
  PROVE  KeepsDates
<1>. DEFINE q   == task[s].q
            new == WriteBack(request[q], task[s].seen, task[s].next)
<1>1. request \in Seq(RequestRow)
  BY DEF HandlersTypeOK
<1>2. DOMAIN request = 1 .. Len(request)
  BY <1>1, LenProperties
<1>3. request[q] \in RequestRow
  BY <1>1, <1>2, ElementOfSeq
<1>4. /\ task[s].next.period = task[s].seen.period => new.period = request[q].period
      /\ task[s].seen.period = request[q].period => new.period = task[s].next.period
  BY <1>3, DatesWrittenBack
<1>5. /\ DOMAIN request' = DOMAIN request
      /\ \A o \in DOMAIN request : request'[o] = IF o = q THEN new ELSE request[o]
  OBVIOUS
<1>6. FormEnds(s)
  <2>1. s \in DOMAIN task
    BY DEF HandlersTypeOK, Actor
  <2>. QED
    BY <2>1 DEF FormEnds, Goto
<1>7. RunsForward(task[s].next.period) \/ task[s].next.period = task[s].seen.period
  BY DEF FormOK
<1>. HIDE DEF new
<1>. QED
  BY <1>4, <1>5, <1>6, <1>7 DEF KeepsDates

\* No step but an overtaken edit turns dates round.
LEMMA DatesAreKept ==
  ASSUME HandlersTypeOK, FormsOK, [Next]_vars
  PROVE  KeepsDates
<1>1. /\ request \in Seq(RequestRow) /\ DOMAIN task = Actor /\ Staff \subseteq Actor
      /\ \A a \in Actor : TaskOK(task[a], DOMAIN request, DOMAIN reservation)
  BY DEF HandlersTypeOK, TasksOK, Actor
<1>2. /\ DOMAIN request = 1 .. Len(request)
      /\ \A q \in DOMAIN request : request[q] \in RequestRow
  BY <1>1, LenProperties, ElementOfSeq
<1>3. ASSUME request' = request
      PROVE  KeepsDates
  BY <1>3 DEF KeepsDates
<1>4. ASSUME NEW s \in Staff, Commit(s)
      PROVE  KeepsDates
  <2>1. /\ task[s].at = "writing" /\ Goto(s, Idle)
        /\ FormOK(task[s], resourceStatus)
        /\ task[s].q \in DOMAIN request \union {NoRequest}
        /\ task[s].seen \in RequestRow /\ task[s].next \in RequestRow
    BY <1>1, <1>4 DEF Commit, TaskOK, FormsOK
  <2>2. CASE task[s].q = NoRequest
    <3>1. request' = Append(request, task[s].next)
      BY <1>4, <2>2 DEF Commit
    <3>2. RunsForward(task[s].next.period)
      BY <2>1, <2>2 DEF FormOK
    <3>. QED
      BY <2>1, <3>1, <3>2, AddingKeepsDates
  <2>3. CASE task[s].q # NoRequest
    <3>1. request' = [request EXCEPT
                        ![task[s].q] = WriteBack(@, task[s].seen, task[s].next)]
      BY <1>4, <2>3 DEF Commit
    <3>. QED
      BY <2>1, <2>3, <3>1, WritingBackKeepsDates
  <2>. QED
    BY <2>2, <2>3
<1>5. ASSUME NEW s \in Staff, CommitAmend(s)
      PROVE  KeepsDates
  <2>1. /\ task[s].at = "amending" /\ Goto(s, Idle)
        /\ FormOK(task[s], resourceStatus)
        /\ task[s].q \in DOMAIN request
        /\ task[s].seen \in RequestRow /\ task[s].next \in RequestRow
    BY <1>1, <1>5 DEF CommitAmend, TaskOK, FormsOK
  <2>2. \/ request' = request
        \/ request' = [request EXCEPT
                         ![task[s].q] = WriteBack(@, task[s].seen, task[s].next)]
    BY <1>5 DEF CommitAmend
  <2>. QED
    BY <1>3, <2>1, <2>2, WritingBackKeepsDates
<1>6. ASSUME NEW a \in Actor, CommitRelease(a)
      PROVE  KeepsDates
  <2>1. request' = request \/ request' = WithStatus(request, task[a].q, "CANCELLED")
    BY <1>6 DEF CommitRelease
  <2>2. ASSUME NEW q, request' = WithStatus(request, q, "CANCELLED")
        PROVE  /\ DOMAIN request' = DOMAIN request
               /\ \A o \in DOMAIN request : request'[o].period = request[o].period
    BY <1>2, <2>2 DEF WithStatus, RequestRow
  <2>. QED
    BY <1>3, <2>1, <2>2 DEF KeepsDates
<1>7. ASSUME NEW w \in Actor, CommitImport(w)
      PROVE  KeepsDates
  <2>. DEFINE new == NewRequest(task[w].period, task[w].responseId)
  <2>1. /\ task[w].period \in Period /\ ValidPeriod(task[w].period)
        /\ task[w].responseId \in ResponseId \union {NoResponseId}
        /\ task[w].available = TRUE => task[w].robot \in Resource
    BY <1>1, <1>7 DEF CommitImport, TaskOK
  <2>2. new \in RequestRow /\ new.period = task[w].period
    BY <2>1, NewRequestType DEF NewRequest
  <2>3. RunsForward(new.period)
    BY <2>1, <2>2, ValidDatesRunForward
  <2>4. PICK row : /\ request' = Append(request, row)
                   /\ \/ row = new
                      \/ /\ row = [new EXCEPT !.assigned = task[w].robot,
                                              !.status = "APPROVED"]
                         /\ task[w].robot \in Resource
    BY <1>7, <2>1 DEF CommitImport, StillFree
  <2>. HIDE DEF new
  <2>5. row \in RequestRow /\ row.period = new.period
    BY <2>2, <2>4 DEF RequestRow, RequestStatus
  <2>. QED
    BY <2>3, <2>4, <2>5, AddingKeepsDates
<1>8. ASSUME NEW a \in Actor, CommitManual(a)
      PROVE  KeepsDates
  BY <1>3, <1>8 DEF CommitManual
<1>9. ASSUME NEW s \in Staff, StaffStep(s)
      PROVE  KeepsDates
  BY <1>3, <1>4, <1>5, <1>9
  DEF StaffStep, tables, Load, CheckReopen, CheckCreate, CheckEdit, CheckAmend, CheckApprove,
      CheckReject, CheckCancel
<1>10. ASSUME NEW t \in Thread, ThreadStep(t)
       PROVE  KeepsDates
  <2>1. t \in Actor
    BY DEF Actor
  <2>. QED
    BY <1>3, <1>6, <1>8, <1>10, <2>1 DEF ThreadStep, tables, LoadReservation, CheckManual
<1>11. ASSUME NEW w \in Worker, WorkerStep(w)
       PROVE  KeepsDates
  <2>1. w \in Actor
    BY DEF Actor
  <2>. QED
    BY <1>3, <1>7, <1>11, <2>1 DEF WorkerStep, tables, ReadApplication
<1>. QED
  BY <1>3, <1>9, <1>10, <1>11 DEF Next, CommitResource, Rollback, tables, vars

\* However handlers, threads and workers interleave, the dates of a request run
\* forward unless two edits of it were in flight at once.
THEOREM OnlyOvertakingTurnsDates == Spec => DatesBreakOnlyByOvertaking
<1>1. HandlersTypeOK /\ FormsOK /\ [Next]_vars => KeepsDates
  BY DatesAreKept
<1>. QED
  BY <1>1, FormsAreOK, PTL DEF Spec, DatesBreakOnlyByOvertaking

\* A commit that is not this form's does not end it.
LEMMA OneFormEnds ==
  ASSUME HandlersTypeOK, NEW s \in Staff, FormEnds(s), NEW a \in Actor, Goto(a, Idle)
  PROVE  a = s
<1>1. DOMAIN task = Actor /\ s \in Actor
  BY DEF HandlersTypeOK, Actor
<1>2. task[s] # Idle
  BY DEF FormEnds, Idle
<1>. QED
  BY <1>1, <1>2 DEF FormEnds, Goto

\* The rows a step adds after cancelling others.
LEMMA AddedRows ==
  ASSUME reservation \in Seq(ReservationRow), NEW ids, NEW rows \in Seq(ReservationRow),
         reservation' = Cancelled(ids) \o rows,
         NEW n \in DOMAIN reservation' \ DOMAIN reservation
  PROVE  \E k \in DOMAIN rows : reservation'[n] = rows[k]
<1>. DEFINE m == Len(reservation)
<1>1. /\ m \in Nat /\ DOMAIN reservation = 1 .. m
      /\ Len(rows) \in Nat /\ DOMAIN rows = 1 .. Len(rows)
  BY LenProperties
<1>2. Cancelled(ids) \in Seq(ReservationRow) /\ Len(Cancelled(ids)) = m
  BY CancelledType
<1>3. /\ reservation' \in Seq(ReservationRow)
      /\ Len(reservation') = m + Len(rows)
      /\ \A i \in 1 .. m + Len(rows) : i > m => reservation'[i] = rows[i - m]
  <2>. DEFINE old == Cancelled(ids)
  <2>1. old \in Seq(ReservationRow) /\ Len(old) = m /\ reservation' = old \o rows
    BY <1>2
  <2>. HIDE DEF old
  <2>2. /\ old \o rows \in Seq(ReservationRow)
        /\ Len(old \o rows) = Len(old) + Len(rows)
        /\ \A i \in 1 .. Len(old) + Len(rows) :
             (old \o rows)[i] = IF i <= Len(old) THEN old[i] ELSE rows[i - Len(old)]
    BY <2>1, ConcatProperties
  <2>. QED
    BY <1>1, <2>1, <2>2
<1>4. DOMAIN reservation' = 1 .. m + Len(rows)
  BY <1>3, LenProperties
<1>5. n \in 1 .. m + Len(rows) /\ n > m
  BY <1>1, <1>4
<1>6. n - m \in 1 .. Len(rows)
  BY <1>1, <1>5
<1>. QED
  BY <1>1, <1>3, <1>5, <1>6

\* Staff never book a robot that was set Out of Service while they had the form,
\* whatever threads and workers do beside them.
THEOREM StaffNeverBookOutOfService == Spec => StaffBookInService
<1>1. ASSUME HandlersTypeOK, FormsOK, [Next]_vars
      PROVE  FormsBookInService
  <2>. SUFFICES ASSUME NEW s \in Staff, FormEnds(s),
                       NEW n \in DOMAIN reservation' \ DOMAIN reservation
                PROVE  resourceStatus[reservation'[n].resource] = "Active"
    BY DEF FormsBookInService, BooksInService
  <2>1. /\ reservation \in Seq(ReservationRow) /\ s \in Actor
        /\ TaskOK(task[s], DOMAIN request, DOMAIN reservation)
        /\ FormOK(task[s], resourceStatus)
    BY <1>1 DEF HandlersTypeOK, TasksOK, FormsOK, Actor
  <2>2. task[s].at \in {"writing", "amending"}
    BY DEF FormEnds
  <2>3. ASSUME reservation' = reservation
        PROVE  FALSE
    BY <2>3
  <2>4. WritesTables
    BY <1>1, <2>3, KindsOfStep DEF OnlyReads, SetsStatus, tables
  <2>5. \A a \in Actor : Goto(a, Idle) => a = s
    BY <1>1, OneFormEnds
  <2>6. Commit(s) \/ CommitAmend(s)
    BY <2>2, <2>4, <2>5
    DEF WritesTables, Commit, CommitAmend, CommitRelease, CommitManual, CommitImport
  <2>7. CASE Commit(s)
    <3>1. /\ task[s].rows \in Seq(ReservationRow)
          /\ \A k \in DOMAIN task[s].rows :
               resourceStatus[task[s].rows[k].resource] = "Active"
      BY <2>1, <2>7 DEF Commit, TaskOK, FormOK
    <3>2. reservation' = Cancelled(task[s].release) \o task[s].rows
      BY <2>7 DEF Commit
    <3>3. PICK k \in DOMAIN task[s].rows : reservation'[n] = task[s].rows[k]
      <4>. DEFINE rows == task[s].rows
      <4>1. rows \in Seq(ReservationRow) /\ reservation' = Cancelled(task[s].release) \o rows
        BY <3>1, <3>2
      <4>. HIDE DEF rows
      <4>2. \E k \in DOMAIN rows : reservation'[n] = rows[k]
        BY <2>1, <4>1, AddedRows
      <4>. QED
        BY <4>2 DEF rows
    <3>. QED
      BY <3>1, <3>3
  <2>8. CASE CommitAmend(s)
    <3>. DEFINE q         == task[s].q
                r         == task[s].next.assigned
                slots     == ExpandSlots(task[s].next.period)
                conflicts == SlotConflicts(reservation, r, slots, q)
                rows      == BookingRows(q, r, slots, conflicts)
    <3>1. /\ q \in DOMAIN request /\ r \in Resource /\ task[s].next.period \in Period
          /\ resourceStatus[r] = "Active"
      BY <2>1, <2>8 DEF CommitAmend, TaskOK, FormOK, RequestRow
    <3>2. reservation' = Cancelled(ActiveOf(q)) \o rows
      BY <2>3, <2>8 DEF CommitAmend
    <3>3. \A k \in DOMAIN rows : rows[k].resource = r
      BY DEF BookingRows
    <3>4. rows \in Seq(ReservationRow)
      <4>1. request \in Seq(RequestRow)
        BY <1>1 DEF HandlersTypeOK
      <4>2. q \in Nat
        BY <3>1, <4>1, LenProperties
      <4>. QED
        BY <3>1, <4>2, RowsForPeriod
    <3>. HIDE DEF rows
    <3>5. PICK k \in DOMAIN rows : reservation'[n] = rows[k]
      BY <2>1, <3>2, <3>4, AddedRows
    <3>. QED
      BY <3>1, <3>3, <3>5
  <2>. QED
    BY <2>6, <2>7, <2>8
<1>. QED
  BY <1>1, FormsAreOK, PTL DEF Spec, StaffBookInService


-----------------------------------------------------------------------------
(* Staff who do one thing at a time, beside any threads and workers: dates  *)
(* stay in order                                                           *)

LoneStaff == \A s, o \in Staff : s = o

\* The actor has loaded a row.
HasRow(t) ==
  \/ t.at = "awaiting form"
  \/ t.at \in {"writing", "amending"} /\ t.q # NoRequest

SeesDates(t, requests) ==
  HasRow(t) => t.q \in DOMAIN requests /\ t.seen.period = requests[t.q].period

DatesInv == DatesInOrder /\ \A s \in Staff : SeesDates(task[s], request)

PeriodsStay ==
  \A q \in DOMAIN request :
    q \in DOMAIN request' /\ request'[q].period = request[q].period

\* The tasks of threads and workers, and none at all, have no row loaded.
LEMMA TasksWithoutRow ==
  /\ ~ HasRow(Idle)
  /\ \A t : t.at \in {"releasing", "inserting", "importing"} => ~ HasRow(t)
<1>1. "idle" \notin {"awaiting form", "writing", "amending"}
  BY Zenon
<1>2. ASSUME NEW t, t.at \in {"releasing", "inserting", "importing"}
      PROVE  t.at # "awaiting form" /\ t.at \notin {"writing", "amending"}
  BY <1>2, Zenon
<1>. QED
  BY <1>1, <1>2, Zenon DEF HasRow, Idle

\* Threads and workers leave the dates of every request alone.
LEMMA OthersKeepPeriods ==
  ASSUME HandlersTypeOK, NEW a \in Actor, CommitRelease(a) \/ CommitManual(a) \/ CommitImport(a)
  PROVE  PeriodsStay
<1>1. request \in Seq(RequestRow)
  BY DEF HandlersTypeOK
<1>2. /\ Len(request) \in Nat /\ DOMAIN request = 1 .. Len(request)
      /\ \A q \in DOMAIN request : request[q] \in RequestRow
  BY <1>1, LenProperties, ElementOfSeq
<1>3. CASE request' = request
  BY <1>3 DEF PeriodsStay
<1>4. ASSUME NEW q, request' = WithStatus(request, q, "CANCELLED")
      PROVE  PeriodsStay
  BY <1>2, <1>4 DEF PeriodsStay, WithStatus, RequestRow
<1>5. ASSUME NEW row \in RequestRow, request' = Append(request, row)
      PROVE  PeriodsStay
  <2>1. /\ request' \in Seq(RequestRow) /\ Len(request') = Len(request) + 1
        /\ \A q \in 1 .. Len(request) : request'[q] = request[q]
    BY <1>1, <1>5, AppendProperties
  <2>2. DOMAIN request' = 1 .. Len(request) + 1
    BY <2>1, LenProperties
  <2>. QED
    BY <1>2, <2>1, <2>2 DEF PeriodsStay
<1>6. CASE CommitRelease(a)
  BY <1>3, <1>4, <1>6 DEF CommitRelease
<1>7. CASE CommitImport(a)
  <2>. DEFINE new == NewRequest(task[a].period, task[a].responseId)
  <2>1. TaskOK(task[a], DOMAIN request, DOMAIN reservation)
    BY DEF HandlersTypeOK, TasksOK
  <2>2. /\ task[a].period \in Period
        /\ task[a].responseId \in ResponseId \union {NoResponseId}
        /\ task[a].available = TRUE => task[a].robot \in Resource
    BY <1>7, <2>1 DEF CommitImport, TaskOK
  <2>3. new \in RequestRow
    BY <2>2, NewRequestType
  <2>4. \/ request' = Append(request, new)
        \/ /\ request' = Append(request, [new EXCEPT !.assigned = task[a].robot,
                                                     !.status = "APPROVED"])
           /\ task[a].robot \in Resource
    BY <1>7, <2>2 DEF CommitImport, StillFree
  <2>. HIDE DEF new
  <2>5. task[a].robot \in Resource
          => [new EXCEPT !.assigned = task[a].robot, !.status = "APPROVED"] \in RequestRow
    BY <2>3 DEF RequestRow, RequestStatus
  <2>. QED
    BY <1>5, <2>3, <2>4, <2>5
<1>8. CASE CommitManual(a)
  BY <1>3, <1>8 DEF CommitManual
<1>. QED
  BY <1>6, <1>7, <1>8

\* What staff have loaded still has the dates of the table when they commit.
LEMMA DatesStaySeen ==
  ASSUME LoneStaff, HandlersTypeOK, DatesInv, [Next]_vars
  PROVE  \A s \in Staff : SeesDates(task'[s], request')
<1>1. /\ DOMAIN task = Actor
      /\ Staff \subseteq Actor /\ Thread \subseteq Actor /\ Worker \subseteq Actor
      /\ \A s \in Staff : SeesDates(task[s], request)
  BY DEF HandlersTypeOK, Actor, DatesInv
\* A step that leaves the dates alone and hands out what has seen them.
<1>2. ASSUME NEW a \in Actor, NEW t, Goto(a, t), PeriodsStay, SeesDates(t, request)
      PROVE  \A s \in Staff : SeesDates(task'[s], request')
  <2>1. \A s \in Staff : task'[s] = t \/ task'[s] = task[s]
    BY <1>1, <1>2 DEF Goto
  <2>2. \A s \in Staff : SeesDates(task'[s], request)
    BY <1>1, <1>2, <2>1
  <2>. QED
    BY <1>2, <2>2 DEF SeesDates, PeriodsStay
<1>3. SeesDates(Idle, request)
  BY TasksWithoutRow DEF SeesDates
<1>4. ASSUME request' = request
      PROVE  PeriodsStay
  BY <1>4 DEF PeriodsStay
<1>5. ASSUME NEW a \in Actor, NEW t, Goto(a, t), UNCHANGED tables, SeesDates(t, request)
      PROVE  \A s \in Staff : SeesDates(task'[s], request')
  <2>1. PeriodsStay
    BY <1>4, <1>5 DEF tables
  <2>. QED
    BY <1>2, <1>5, <2>1
\* The one member of staff commits and has nothing in hand any more.
<1>6. ASSUME NEW s \in Staff, Commit(s) \/ CommitAmend(s)
      PROVE  \A o \in Staff : SeesDates(task'[o], request')
  <2>1. Goto(s, Idle)
    BY <1>6 DEF Commit, CommitAmend
  <2>2. \A o \in Staff : task'[o] = Idle
    BY <1>1, <2>1 DEF Goto, LoneStaff
  <2>. QED
    BY <2>2, TasksWithoutRow DEF SeesDates
\* A form comes back: what was loaded is kept.
<1>7. ASSUME NEW s \in Staff, HasForm(s), UNCHANGED tables,
             NEW t, Goto(s, t), t.q = task[s].q, t.seen = task[s].seen
      PROVE  \A o \in Staff : SeesDates(task'[o], request')
  <2>1. HasRow(task[s])
    BY <1>7, Zenon DEF HasForm, HasRow
  <2>2. SeesDates(t, request)
    BY <1>1, <1>7, <2>1 DEF SeesDates
  <2>. QED
    BY <1>1, <1>5, <1>7, <2>2
<1>8. ASSUME NEW s \in Staff, NEW next, NEW release, NEW rows, HasForm(s), UNCHANGED tables,
             Goto(s, Writing(task[s].q, task[s].seen, next, release, rows))
      PROVE  \A o \in Staff : SeesDates(task'[o], request')
  <2>. DEFINE t == Writing(task[s].q, task[s].seen, next, release, rows)
  <2>1. t.q = task[s].q /\ t.seen = task[s].seen
    BY DEF Writing
  <2>. HIDE DEF t
  <2>. QED
    BY <1>7, <1>8, <2>1 DEF t
<1>9. ASSUME NEW s \in Staff, NEW p, NEW rid, NEW r, NEW allow,
             CheckEdit(s, p, rid, r) \/ CheckApprove(s, r, allow) \/ CheckReject(s)
               \/ CheckCancel(s)
      PROVE  \A o \in Staff : SeesDates(task'[o], request')
  BY <1>8, <1>9 DEF CheckEdit, CheckApprove, CheckReject, CheckCancel
<1>10. ASSUME NEW s \in Staff, NEW p, NEW rid, NEW r, NEW allow, CheckAmend(s, p, rid, r, allow)
       PROVE  \A o \in Staff : SeesDates(task'[o], request')
  <2>. DEFINE next == WithFields(task[s].seen, p, rid, r)
              k    == [at |-> "amending", q |-> task[s].q, seen |-> task[s].seen,
                       next |-> next, allow |-> allow]
  <2>1. HasForm(s) /\ UNCHANGED tables
    BY <1>10 DEF CheckAmend
  <2>2. CASE Goto(s, k)
    <3>1. k.q = task[s].q /\ k.seen = task[s].seen
      OBVIOUS
    <3>. HIDE DEF k
    <3>. QED
      BY <1>7, <2>1, <2>2, <3>1
  <2>. QED
    BY <1>8, <1>10, <2>1, <2>2 DEF CheckAmend
<1>11. ASSUME NEW s \in Staff, NEW p, NEW rid, CheckCreate(s, p, rid)
       PROVE  \A o \in Staff : SeesDates(task'[o], request')
  <2>. DEFINE t == Writing(NoRequest, NewRequest(p, rid), NewRequest(p, rid), {}, << >>)
  <2>1. t.at = "writing" /\ t.q = NoRequest
    BY DEF Writing
  <2>2. UNCHANGED tables /\ Goto(s, t)
    BY <1>11 DEF CheckCreate
  <2>. HIDE DEF t
  <2>3. ~ HasRow(t)
    BY <2>1, Zenon DEF HasRow
  <2>. QED
    BY <1>1, <1>5, <2>2, <2>3 DEF SeesDates
<1>12. ASSUME NEW s \in Staff, NEW q \in DOMAIN request, UNCHANGED tables,
              NEW t, Goto(s, t), t.q = q, t.seen = request[q]
       PROVE  \A o \in Staff : SeesDates(task'[o], request')
  BY <1>1, <1>5, <1>12 DEF SeesDates
<1>13. ASSUME NEW s \in Staff, NEW q \in DOMAIN request, CheckReopen(s, q)
       PROVE  \A o \in Staff : SeesDates(task'[o], request')
  <2>. DEFINE t == Writing(q, request[q], [request[q] EXCEPT !.status = "PENDING"], {}, << >>)
  <2>1. t.q = q /\ t.seen = request[q]
    BY DEF Writing
  <2>2. UNCHANGED tables /\ Goto(s, t)
    BY <1>13 DEF CheckReopen
  <2>. HIDE DEF t
  <2>. QED
    BY <1>12, <2>1, <2>2
<1>14. ASSUME NEW s \in Staff, NEW q \in DOMAIN request, Load(s, q)
       PROVE  \A o \in Staff : SeesDates(task'[o], request')
  <2>. DEFINE t == [at |-> "awaiting form", q |-> q, seen |-> request[q]]
  <2>1. t.q = q /\ t.seen = request[q]
    BY Zenon
  <2>2. UNCHANGED tables /\ Goto(s, t)
    BY <1>14, Zenon DEF Load
  <2>. HIDE DEF t
  <2>. QED
    BY <1>12, <2>1, <2>2
<1>15. ASSUME NEW a \in Actor, Rollback(a)
       PROVE  \A o \in Staff : SeesDates(task'[o], request')
  BY <1>3, <1>5, <1>15 DEF Rollback
<1>16. ASSUME NEW a \in Actor, CommitRelease(a) \/ CommitManual(a) \/ CommitImport(a)
       PROVE  \A o \in Staff : SeesDates(task'[o], request')
  <2>1. Goto(a, Idle)
    BY <1>16 DEF CommitRelease, CommitManual, CommitImport
  <2>. QED
    BY <1>2, <1>3, <1>16, <2>1, OthersKeepPeriods
<1>17. ASSUME NEW a \in Actor, UNCHANGED tables,
              NEW t, Goto(a, t), t.at \in {"releasing", "inserting", "importing"}
       PROVE  \A o \in Staff : SeesDates(task'[o], request')
  BY <1>5, <1>17, TasksWithoutRow DEF SeesDates
<1>18. ASSUME NEW t \in Thread, ThreadStep(t)
       PROVE  \A o \in Staff : SeesDates(task'[o], request')
  BY <1>1, <1>16, <1>17, <1>18 DEF ThreadStep, LoadReservation, CheckManual
<1>19. ASSUME NEW w \in Worker, WorkerStep(w)
       PROVE  \A o \in Staff : SeesDates(task'[o], request')
  BY <1>1, <1>16, <1>17, <1>19 DEF WorkerStep, ReadApplication
<1>20. ASSUME request' = request, task' = task
       PROVE  \A o \in Staff : SeesDates(task'[o], request')
  BY <1>1, <1>20
<1>21. ASSUME NEW s \in Staff, StaffStep(s)
       PROVE  \A o \in Staff : SeesDates(task'[o], request')
  BY <1>6, <1>9, <1>10, <1>11, <1>13, <1>14, <1>21 DEF StaffStep
<1>. QED
  BY <1>15, <1>18, <1>19, <1>20, <1>21 DEF Next, CommitResource, vars

\* With one member of staff at a time the dates of every request run forward,
\* whatever the calendar's threads and the workers do beside them.
THEOREM LoneDatesInOrder == LoneStaff => (Spec => []DatesInOrder)
<1>. SUFFICES ASSUME LoneStaff
              PROVE  Spec => []DatesInOrder
  OBVIOUS
<1>1. Init => DatesInv
  <2>1. Init => DatesInOrder
    BY DEF Init, DatesInOrder
  <2>2. Init => \A s \in Staff : SeesDates(task[s], request)
    BY TasksWithoutRow DEF Init, SeesDates, Actor
  <2>. QED
    BY <2>1, <2>2 DEF DatesInv
<1>2. HandlersTypeOK /\ FormsOK /\ DatesInv /\ [Next]_vars => DatesInv'
  <2>. SUFFICES ASSUME HandlersTypeOK, FormsOK, DatesInv, [Next]_vars
                PROVE  DatesInv'
    OBVIOUS
  <2>1. \A s \in Staff : SeesDates(task'[s], request')
    BY DatesStaySeen
  <2>2. ASSUME NEW q \in DOMAIN request'
        PROVE  RunsForward(request'[q].period)
    <3>1. CASE q \in DOMAIN request /\ request'[q].period = request[q].period
      BY <3>1 DEF DatesInv, DatesInOrder
    <3>2. ASSUME q \in DOMAIN request, NEW s \in Staff, FormEnds(s), task[s].q = q
          PROVE  task[s].seen.period = request[q].period
      <4>1. request \in Seq(RequestRow)
        BY DEF HandlersTypeOK
      <4>2. q # NoRequest
        BY <3>2, <4>1, LenProperties DEF NoRequest
      <4>3. HasRow(task[s])
        BY <3>2, <4>2, Zenon DEF FormEnds, HasRow
      <4>. QED
        BY <3>2, <4>3 DEF DatesInv, SeesDates
    <3>. QED
      BY <2>2, <3>1, <3>2, DatesAreKept DEF KeepsDates
  <2>. QED
    BY <2>1, <2>2 DEF DatesInv, DatesInOrder
<1>. QED
  BY <1>1, <1>2, FormsAreOK, PTL DEF Spec, DatesInv

-----------------------------------------------------------------------------
(* What breaks a booking, whoever interleaves                              *)

\* A decision between its check and its commit.
Deciding(t) == t.at \in {"writing", "amending"}

\* The rows that belong to request q, active or not.
RowsOf(q) == {i \in DOMAIN reservation : reservation[i].request = q}

\* What is about to be written is all of a decision, whatever became of the row it
\* is about: of its own request it releases what was active when it was checked.
WritesAll(t) ==
  \/ t.q = NoRequest /\ WritesNothing(t) /\ t.next.status # "APPROVED"
  \/ /\ t.q # NoRequest
     /\ Gives(t.rows, t.q, t.next)
     /\ t.release \subseteq RowsOf(t.q)
     /\ t.seen.status = "APPROVED" => ActiveOf(t.q) \subseteq t.release

AmendsAll(t) ==
  /\ t.next.status = "APPROVED" /\ t.next.assigned \in Resource
  /\ ExpandSlots(t.next.period) # << >>

ReleasesOwn(t) == t.i \in RowsOf(t.q) /\ t.approved \in BOOLEAN

InHand(t) ==
  /\ t.at = "writing" => WritesAll(t)
  /\ t.at = "amending" => AmendsAll(t)
  /\ t.at = "releasing" => ReleasesOwn(t)

\* The inductive invariant: only one decision of the event loop is in hand at a
\* time.
DecisionsInv ==
  /\ \A a \in Actor : InHand(task[a])
  /\ \A a \in Actor : Deciding(task[a]) => a \in Staff
  /\ \A a, b \in Actor : Deciding(task[a]) /\ Deciding(task[b]) => a = b

\* The steps that only read, and what they leave in hand.
OnlyChecks ==
  /\ UNCHANGED <<request, reservation>>
  /\ \/ task' = task
     \/ \E a \in Actor : \E t :
          /\ Goto(a, t) /\ InHand(t)
          /\ Deciding(t) => a \in Staff /\ LoopIsFree

\* The steps that write requests or reservations.
Commits ==
  \/ \E s \in Staff : Commit(s) \/ CommitAmend(s)
  \/ \E t \in Thread : CommitRelease(t) \/ CommitManual(t)
  \/ \E w \in Worker : CommitImport(w)

\* A task without decision is in hand as it should be.
LEMMA NothingInHand ==
  ASSUME NEW t, t.at \notin {"writing", "amending", "releasing"}
  PROVE  InHand(t) /\ ~ Deciding(t)
BY DEF InHand, Deciding

\* Every step checks, or commits.
LEMMA ChecksOrCommits ==
  ASSUME HandlersTypeOK, [Next]_vars
  PROVE  OnlyChecks \/ Commits
<1>1. /\ Periods \subseteq Period
      /\ Staff \subseteq Actor /\ Thread \subseteq Actor /\ Worker \subseteq Actor
  BY HandlerAssumption DEF Actor
<1>2. /\ DOMAIN request = 1 .. Len(request)
      /\ \A q \in DOMAIN request : request[q] \in RequestRow /\ q # NoRequest
      /\ \A a \in Actor : TaskOK(task[a], DOMAIN request, DOMAIN reservation)
  BY LenProperties, ElementOfSeq DEF HandlersTypeOK, TasksOK, NoRequest
<1>3. ASSUME NEW a \in Actor, NEW t, Goto(a, t), UNCHANGED tables,
             t.at \notin {"writing", "amending", "releasing"}
      PROVE  OnlyChecks
  BY <1>3, NothingInHand DEF OnlyChecks, tables
\* A decision that is checked.
<1>4. ASSUME NEW s \in Staff, NEW q \in DOMAIN request, NEW seen, NEW next, NEW rows,
             NEW release, release \subseteq RowsOf(q),
             seen.status = "APPROVED" => ActiveOf(q) \subseteq release,
             Gives(rows, q, next), LoopIsFree, UNCHANGED tables,
             Goto(s, Writing(q, seen, next, release, rows))
      PROVE  OnlyChecks
  <2>1. q # NoRequest
    BY <1>2
  <2>2. InHand(Writing(q, seen, next, release, rows))
    BY <1>4, <2>1 DEF InHand, Writing, WritesAll
  <2>. QED
    BY <1>1, <1>4, <2>2 DEF OnlyChecks, tables
\* A row that was loaded before the form.
<1>5. ASSUME NEW s \in Staff, HasForm(s)
      PROVE  /\ task[s].q \in DOMAIN request /\ LoopIsFree
             /\ task[s].seen \in RequestRow /\ task[s].seen.period \in Period
  <2>1. task[s].at = "awaiting form" /\ LoopIsFree
    BY <1>5 DEF HasForm
  <2>2. TaskOK(task[s], DOMAIN request, DOMAIN reservation)
    BY <1>1, <1>2
  <2>3. task[s].q \in DOMAIN request /\ task[s].seen \in RequestRow
    BY <2>1, <2>2, Zenon DEF TaskOK
  <2>. QED
    BY <2>1, <2>3 DEF RequestRow
<1>6. \A q : {} \subseteq RowsOf(q) /\ ActiveOf(q) \subseteq RowsOf(q)
  BY DEF RowsOf, ActiveOf
<1>7. ASSUME NEW s \in Staff, NEW q \in DOMAIN request, Load(s, q)
      PROVE  OnlyChecks
  <2>1. UNCHANGED tables /\ Goto(s, [at |-> "awaiting form", q |-> q, seen |-> request[q]])
    BY <1>7 DEF Load
  <2>2. [at |-> "awaiting form", q |-> q, seen |-> request[q]].at
          \notin {"writing", "amending", "releasing"}
    BY Zenon
  <2>. QED
    BY <1>1, <1>3, <2>1, <2>2
<1>8. ASSUME NEW a \in Actor, Rollback(a)
      PROVE  OnlyChecks
  BY <1>3, <1>8 DEF Rollback, Idle
<1>9. ASSUME NEW s \in Staff, NEW p, NEW rid, CheckCreate(s, p, rid)
      PROVE  OnlyChecks
  <2>. DEFINE t == Writing(NoRequest, NewRequest(p, rid), NewRequest(p, rid), {}, << >>)
  <2>1. InHand(t)
    BY DEF InHand, Writing, WritesAll, WritesNothing, NewRequest
  <2>2. Goto(s, t) /\ LoopIsFree /\ UNCHANGED tables
    BY <1>9 DEF CheckCreate
  <2>. HIDE DEF t
  <2>. QED
    BY <1>1, <2>1, <2>2 DEF OnlyChecks, tables
<1>10. ASSUME NEW s \in Staff, NEW p, NEW rid, NEW r, CheckEdit(s, p, rid, r)
       PROVE  OnlyChecks
  <2>. DEFINE next == WithFields(task[s].seen, p, rid, r)
  <2>1. /\ HasForm(s) /\ task[s].seen.status = "PENDING" /\ UNCHANGED tables
        /\ Goto(s, Writing(task[s].q, task[s].seen, next, {}, << >>))
    BY <1>10 DEF CheckEdit
  <2>2. next.status = "PENDING"
    BY <1>5, <2>1 DEF WithFields, RequestRow
  <2>. HIDE DEF next
  <2>3. Gives(<< >>, task[s].q, next)
    BY <2>2 DEF Gives
  <2>. QED
    BY <1>4, <1>5, <1>6, <2>1, <2>3
<1>11. ASSUME NEW s \in Staff, NEW r \in Resource, NEW allow, CheckApprove(s, r, allow)
       PROVE  OnlyChecks
  <2>. DEFINE t     == task[s]
              slots == ExpandSlots(t.seen.period)
              rows  == BookingRows(t.q, r, slots, SlotConflicts(reservation, r, slots, t.q))
              next  == [t.seen EXCEPT !.assigned = r, !.status = "APPROVED"]
  <2>1. /\ HasForm(s) /\ t.seen.status = "PENDING" /\ UNCHANGED tables /\ slots # << >>
        /\ Goto(s, Writing(t.q, t.seen, next, {}, rows))
    BY <1>11 DEF CheckApprove
  <2>2. /\ next.status = "APPROVED" /\ next.assigned = r
        /\ next.period = t.seen.period
    BY <1>5, <2>1 DEF RequestRow
  <2>. HIDE DEF next
  <2>3. Gives(rows, t.q, next)
    BY <2>1, <2>2 DEF Gives
  <2>. HIDE DEF rows
  <2>. QED
    BY <1>4, <1>5, <1>6, <2>1, <2>3
<1>12. ASSUME NEW s \in Staff, NEW p \in Periods, NEW rid, NEW r \in Resource, NEW allow,
              CheckAmend(s, p, rid, r, allow)
       PROVE  OnlyChecks
  <2>. DEFINE t     == task[s]
              slots == ExpandSlots(p)
              rows  == BookingRows(t.q, r, slots, SlotConflicts(reservation, r, slots, t.q))
              next  == WithFields(t.seen, p, rid, r)
              k     == [at |-> "amending", q |-> t.q, seen |-> t.seen, next |-> next,
                        allow |-> allow]
  <2>1. /\ HasForm(s) /\ t.seen.status = "APPROVED" /\ UNCHANGED tables /\ ValidPeriod(p)
        /\ \/ Goto(s, Writing(t.q, t.seen, next, ActiveOf(t.q), rows))
           \/ Goto(s, k)
    BY <1>12 DEF CheckAmend
  <2>2. next.status = "APPROVED" /\ next.assigned = r /\ next.period = p
    BY <1>1, <1>5, <2>1, NullAssumption DEF WithFields, RequestRow
  <2>3. slots # << >>
    BY <1>1, <2>1, ValidPeriodHasSlots
  <2>. HIDE DEF next
  <2>4. CASE Goto(s, Writing(t.q, t.seen, next, ActiveOf(t.q), rows))
    <3>1. Gives(rows, t.q, next)
      BY <2>2, <2>3 DEF Gives
    <3>. HIDE DEF rows
    <3>. QED
      BY <1>4, <1>5, <1>6, <2>1, <2>4, <3>1
  <2>5. CASE Goto(s, k)
    <3>1. k.at = "amending" /\ k.next = next
      OBVIOUS
    <3>. HIDE DEF k
    <3>2. InHand(k)
      BY <2>2, <2>3, <3>1 DEF InHand, AmendsAll
    <3>. QED
      BY <1>1, <1>5, <2>1, <2>5, <3>2 DEF OnlyChecks, tables
  <2>. QED
    BY <2>1, <2>4, <2>5
<1>13. ASSUME NEW s \in Staff, CheckReject(s)
       PROVE  OnlyChecks
  <2>. DEFINE next == [task[s].seen EXCEPT !.status = "REJECTED"]
  <2>1. /\ HasForm(s) /\ task[s].seen.status = "PENDING" /\ UNCHANGED tables
        /\ Goto(s, Writing(task[s].q, task[s].seen, next, {}, << >>))
    BY <1>13 DEF CheckReject
  <2>2. next.status = "REJECTED"
    BY <1>5, <2>1 DEF RequestRow
  <2>. HIDE DEF next
  <2>3. Gives(<< >>, task[s].q, next)
    BY <2>2 DEF Gives
  <2>. QED
    BY <1>4, <1>5, <1>6, <2>1, <2>3
<1>14. ASSUME NEW s \in Staff, CheckCancel(s)
       PROVE  OnlyChecks
  <2>. DEFINE next == [task[s].seen EXCEPT !.status = "CANCELLED"]
  <2>1. /\ HasForm(s) /\ UNCHANGED tables
        /\ Goto(s, Writing(task[s].q, task[s].seen, next, ActiveOf(task[s].q), << >>))
    BY <1>14 DEF CheckCancel
  <2>2. next.status = "CANCELLED"
    BY <1>5, <2>1 DEF RequestRow
  <2>. HIDE DEF next
  <2>3. Gives(<< >>, task[s].q, next)
    BY <2>2 DEF Gives
  <2>. QED
    BY <1>4, <1>5, <1>6, <2>1, <2>3
<1>15. ASSUME NEW s \in Staff, NEW q \in DOMAIN request, CheckReopen(s, q)
       PROVE  OnlyChecks
  <2>. DEFINE next == [request[q] EXCEPT !.status = "PENDING"]
  <2>1. /\ LoopIsFree /\ request[q].status \in ClosedStatus /\ UNCHANGED tables
        /\ Goto(s, Writing(q, request[q], next, {}, << >>))
    BY <1>15 DEF CheckReopen
  <2>2. next.status = "PENDING" /\ request[q].status # "APPROVED"
    BY <1>2, <2>1 DEF RequestRow, ClosedStatus
  <2>. HIDE DEF next
  <2>3. Gives(<< >>, q, next)
    BY <2>2 DEF Gives
  <2>. QED
    BY <1>4, <1>6, <2>1, <2>2, <2>3
<1>16. ASSUME NEW t \in Thread, NEW i \in DOMAIN reservation, LoadReservation(t, i)
       PROVE  OnlyChecks
  <2>. DEFINE q == reservation[i].request
              k == [at |-> "releasing", i |-> i, q |-> q,
                    approved |-> q # NoRequest /\ request[q].status = "APPROVED"]
  <2>1. Goto(t, k) /\ UNCHANGED tables
    BY <1>16 DEF LoadReservation
  <2>2. k.at = "releasing" /\ k.i = i /\ k.q = q /\ k.approved \in BOOLEAN
    OBVIOUS
  <2>. HIDE DEF k
  <2>3. InHand(k) /\ ~ Deciding(k)
    BY <2>2 DEF InHand, ReleasesOwn, RowsOf, Deciding
  <2>. QED
    BY <1>1, <2>1, <2>3 DEF OnlyChecks, tables
<1>17. ASSUME NEW t \in Thread, ThreadStep(t)
       PROVE  OnlyChecks \/ Commits
  BY <1>1, <1>3, <1>16, <1>17 DEF ThreadStep, CheckManual, Commits
<1>18. ASSUME NEW w \in Worker, WorkerStep(w)
       PROVE  OnlyChecks \/ Commits
  BY <1>1, <1>3, <1>18 DEF WorkerStep, ReadApplication, Commits
<1>19. ASSUME NEW s \in Staff, Commit(s) \/ CommitAmend(s)
       PROVE  Commits
  BY <1>1, <1>19 DEF Commits
<1>20. ASSUME NEW s \in Staff, NEW r \in Resource, NEW status, CommitResource(s, r, status)
       PROVE  OnlyChecks
  BY <1>20 DEF CommitResource, OnlyChecks
<1>21. CASE UNCHANGED vars
  BY <1>21 DEF vars, OnlyChecks
<1>. QED
  BY <1>7, <1>8, <1>9, <1>10, <1>11, <1>12, <1>13, <1>14, <1>15, <1>17, <1>18, <1>19, <1>20,
     <1>21
  DEF Next, StaffStep

\* A write: some old rows are cancelled, some are added.
Writes(ids, rows) ==
  /\ rows \in Seq(ReservationRow)
  /\ reservation' = Cancelled(ids) \o rows

\* The calendar after that, row by row.
LEMMA WrittenRows ==
  ASSUME reservation \in Seq(ReservationRow), NEW ids, NEW rows, Writes(ids, rows)
  PROVE  LET n == Len(reservation)
         IN  /\ n \in Nat /\ DOMAIN reservation = 1 .. n
             /\ DOMAIN reservation' \subseteq Nat \ {0}
             /\ DOMAIN reservation \subseteq DOMAIN reservation'
             /\ \A i \in DOMAIN reservation :
                  /\ reservation'[i].request = reservation[i].request
                  /\ reservation'[i].resource = reservation[i].resource
                  /\ reservation'[i].start = reservation[i].start
                  /\ reservation'[i].end = reservation[i].end
                  /\ ActiveRow(reservation'[i]) <=> ActiveRow(reservation[i]) /\ i \notin ids
             /\ \A i \in DOMAIN reservation' \ DOMAIN reservation :
                  i - n \in DOMAIN rows /\ reservation'[i] = rows[i - n]
<1>. DEFINE n   == Len(reservation)
            m   == Len(rows)
            old == Cancelled(ids)
<1>1. /\ n \in Nat /\ DOMAIN reservation = 1 .. n
      /\ rows \in Seq(ReservationRow) /\ m \in Nat /\ DOMAIN rows = 1 .. m
      /\ \A i \in DOMAIN reservation : reservation[i] \in ReservationRow
  BY LenProperties, ElementOfSeq DEF Writes
<1>2. /\ old \in Seq(ReservationRow) /\ Len(old) = n
      /\ \A i \in DOMAIN reservation :
           old[i] = IF i \in ids THEN [reservation[i] EXCEPT !.status = "CANCELLED"]
                                 ELSE reservation[i]
  BY CancelledType
<1>3. reservation' = old \o rows
  BY DEF Writes
<1>. HIDE DEF old
<1>4. /\ old \o rows \in Seq(ReservationRow)
      /\ Len(old \o rows) = Len(old) + m
      /\ \A i \in 1 .. Len(old) + m :
           (old \o rows)[i] = IF i <= Len(old) THEN old[i] ELSE rows[i - Len(old)]
  BY <1>1, <1>2, ConcatProperties
<1>5. DOMAIN reservation' = 1 .. n + m
  BY <1>2, <1>3, <1>4, LenProperties
<1>6. \A i \in 1 .. n + m : reservation'[i] = IF i <= n THEN old[i] ELSE rows[i - n]
  BY <1>2, <1>3, <1>4
<1>7. ASSUME NEW i \in DOMAIN reservation
      PROVE  /\ reservation'[i].request = reservation[i].request
             /\ reservation'[i].resource = reservation[i].resource
             /\ reservation'[i].start = reservation[i].start
             /\ reservation'[i].end = reservation[i].end
             /\ ActiveRow(reservation'[i]) <=> ActiveRow(reservation[i]) /\ i \notin ids
  <2>1. reservation'[i] = IF i \in ids THEN [reservation[i] EXCEPT !.status = "CANCELLED"]
                                       ELSE reservation[i]
    <3>1. i \in 1 .. n + m /\ i <= n
      BY <1>1
    <3>. QED
      BY <1>2, <1>6, <3>1
  <2>. QED
    BY <1>1, <2>1 DEF ReservationRow, ActiveRow
<1>8. ASSUME NEW i \in DOMAIN reservation' \ DOMAIN reservation
      PROVE  i - n \in DOMAIN rows /\ reservation'[i] = rows[i - n]
  BY <1>1, <1>5, <1>6
<1>. QED
  BY <1>1, <1>5, <1>7, <1>8

\* What request o holds after a write that gives it nothing.
LEMMA HeldAfterWrite ==
  ASSUME reservation \in Seq(ReservationRow), NEW ids, NEW rows, Writes(ids, rows),
         NEW o, \A k \in DOMAIN rows : rows[k].request # o
  PROVE  ActiveOf(o)' = ActiveOf(o) \ ids
<1>1. ASSUME NEW i
      PROVE  i \in ActiveOf(o)' <=> i \in ActiveOf(o) /\ i \notin ids
  <2>1. /\ i \in ActiveOf(o)' <=> /\ i \in DOMAIN reservation'
                                 /\ reservation'[i].request = o
                                 /\ ActiveRow(reservation'[i])
        /\ i \in ActiveOf(o) <=> /\ i \in DOMAIN reservation
                                /\ reservation[i].request = o
                                /\ ActiveRow(reservation[i])
    BY DEF ActiveOf
  <2>2. /\ DOMAIN reservation \subseteq DOMAIN reservation'
        /\ i \in DOMAIN reservation =>
             /\ reservation'[i].request = reservation[i].request
             /\ ActiveRow(reservation'[i]) <=> ActiveRow(reservation[i]) /\ i \notin ids
        /\ i \in DOMAIN reservation' /\ i \notin DOMAIN reservation =>
             \E k \in DOMAIN rows : reservation'[i] = rows[k]
    BY WrittenRows
  <2>. QED
    BY <2>1, <2>2
<1>. QED
  BY <1>1

\* A booking that is whole stays so when it loses slots and has some left.
LEMMA LessIsWhole ==
  ASSUME reservation \in Seq(ReservationRow), NEW ids, NEW rows, Writes(ids, rows),
         NEW o, \A k \in DOMAIN rows : rows[k].request # o,
         BookingIsWhole(o),
         request'[o].period = request[o].period, request'[o].assigned = request[o].assigned,
         request'[o].status = "APPROVED" <=> ActiveOf(o) \ ids # {}
  PROVE  BookingIsWhole(o)'
<1>1. ActiveOf(o)' = ActiveOf(o) \ ids
  BY HeldAfterWrite
<1>2. \A i \in ActiveOf(o)' : /\ i \in ActiveOf(o)
                             /\ reservation'[i].resource = reservation[i].resource
                             /\ reservation'[i].start = reservation[i].start
                             /\ reservation'[i].end = reservation[i].end
  BY <1>1, WrittenRows DEF ActiveOf
<1>. QED
  BY <1>1, <1>2 DEF BookingIsWhole, Overlaps

\* A request that is given nothing or all it asks for, and loses what it held,
\* has a booking that is whole.
LEMMA GivenIsWhole ==
  ASSUME reservation \in Seq(ReservationRow), NEW ids, NEW rows, Writes(ids, rows),
         NEW q \in Nat, NEW row \in RequestRow, Gives(rows, q, row), request'[q] = row,
         ActiveOf(q) \subseteq ids
  PROVE  BookingIsWhole(q)'
<1>. DEFINE slots == ExpandSlots(row.period)
            n     == Len(reservation)
<1>1. /\ \A k \in DOMAIN rows :
           /\ k \in DOMAIN slots
           /\ rows[k].request = q /\ rows[k].resource = row.assigned
           /\ rows[k].start = slots[k].start /\ rows[k].end = slots[k].end
      /\ HoldsActiveSlot(rows, q) <=> row.status = "APPROVED"
  BY GivenRows
<1>2. row.period \in Period
  BY DEF RequestRow
<1>3. /\ n \in Nat /\ DOMAIN reservation = 1 .. n
      /\ DOMAIN reservation' \subseteq Nat \ {0}
      /\ DOMAIN reservation \subseteq DOMAIN reservation'
      /\ \A i \in DOMAIN reservation :
           /\ reservation'[i].request = reservation[i].request
           /\ ActiveRow(reservation'[i]) <=> ActiveRow(reservation[i]) /\ i \notin ids
      /\ \A i \in DOMAIN reservation' \ DOMAIN reservation :
           i - n \in DOMAIN rows /\ reservation'[i] = rows[i - n]
  BY WrittenRows
<1>. HIDE DEF n
<1>4. ASSUME NEW i \in ActiveOf(q)'
      PROVE  /\ i \in Nat /\ i > n /\ i - n \in DOMAIN rows /\ reservation'[i] = rows[i - n]
             /\ i - n \in DOMAIN slots
  <2>1. /\ i \in DOMAIN reservation' /\ reservation'[i].request = q
        /\ ActiveRow(reservation'[i])
    BY DEF ActiveOf
  <2>2. i \notin DOMAIN reservation
    BY <1>3, <2>1 DEF ActiveOf
  <2>. QED
    BY <1>1, <1>3, <2>1, <2>2
<1>5. row.status = "APPROVED" <=> ActiveOf(q)' # {}
  <2>1. ASSUME row.status = "APPROVED"
        PROVE  ActiveOf(q)' # {}
    <3>1. PICK k \in DOMAIN rows : rows[k].request = q /\ ActiveRow(rows[k])
      BY <1>1, <2>1 DEF HoldsActiveSlot
    <3>2. /\ DOMAIN reservation' = 1 .. n + Len(rows)
          /\ Len(rows) \in Nat /\ DOMAIN rows = 1 .. Len(rows)
      <4>1. /\ Cancelled(ids) \in Seq(ReservationRow) /\ Len(Cancelled(ids)) = n
            /\ rows \in Seq(ReservationRow) /\ reservation' = Cancelled(ids) \o rows
        BY CancelledType DEF Writes, n
      <4>2. /\ Cancelled(ids) \o rows \in Seq(ReservationRow)
            /\ Len(Cancelled(ids) \o rows) = n + Len(rows)
        BY <4>1, ConcatProperties
      <4>. QED
        BY <4>1, <4>2, LenProperties
    <3>3. /\ n + k \in DOMAIN reservation' \ DOMAIN reservation
          /\ (n + k) - n = k
      BY <1>3, <3>1, <3>2
    <3>4. reservation'[n + k] = rows[k]
      BY <1>3, <3>3
    <3>5. n + k \in ActiveOf(q)'
      BY <3>1, <3>3, <3>4 DEF ActiveOf
    <3>. QED
      BY <3>5
  <2>2. ASSUME NEW i \in ActiveOf(q)'
        PROVE  row.status = "APPROVED"
    <3>1. i - n \in DOMAIN rows /\ ActiveRow(rows[i - n]) /\ rows[i - n].request = q
      BY <1>1, <1>4, <2>2 DEF ActiveOf
    <3>. QED
      BY <1>1, <3>1 DEF HoldsActiveSlot
  <2>. QED
    BY <2>1, <2>2
<1>6. ASSUME NEW i \in ActiveOf(q)', NEW j \in ActiveOf(q)',
             Overlaps(reservation'[i], reservation'[j]), i < j
      PROVE  FALSE
  <2>1. /\ i - n \in DOMAIN slots /\ j - n \in DOMAIN slots /\ i - n < j - n
    BY <1>3, <1>4, <1>6
  <2>2. slots[i - n].end <= slots[j - n].start
    BY <1>2, <2>1, SlotsInOrder
  <2>3. slots[i - n].end \in Int /\ slots[j - n].start \in Int
    BY <1>2, <2>1, SlotsAreProper DEF Slot
  <2>4. /\ reservation'[i].end = slots[i - n].end
        /\ reservation'[j].start = slots[j - n].start
    BY <1>1, <1>4
  <2>5. reservation'[j].start < reservation'[i].end
    BY <1>6 DEF Overlaps
  <2>. QED
    BY <2>2, <2>3, <2>4, <2>5
<1>7. ASSUME NEW i \in ActiveOf(q)', NEW j \in ActiveOf(q)',
             Overlaps(reservation'[i], reservation'[j])
      PROVE  i = j
  <2>1. Overlaps(reservation'[j], reservation'[i])
    BY <1>7 DEF Overlaps
  <2>2. i \in Nat /\ j \in Nat
    BY <1>4
  <2>. QED
    BY <1>6, <1>7, <2>1, <2>2
<1>8. ASSUME NEW i \in ActiveOf(q)'
      PROVE  /\ reservation'[i].resource = row.assigned
             /\ \E k \in DOMAIN slots : /\ slots[k].start = reservation'[i].start
                                       /\ slots[k].end = reservation'[i].end
  BY <1>1, <1>4
<1>. HIDE DEF slots
<1>. QED
  BY <1>5, <1>7, <1>8 DEF BookingIsWhole, slots

\* Request q comes out of the step whole, unless it is overtaken or was not whole.
KeepsBooking(q) ==
  q \in DOMAIN request' =>
    \/ BookingIsWhole(q)'
    \/ q \in DOMAIN request /\ (~ BookingIsWhole(q) \/ Overtaken(q))

\* An actor is done and has written to request q only, or, as NoRequest, to none.
Touches(a, q, ids, rows) ==
  /\ Goto(a, Idle) /\ Writes(ids, rows)
  /\ ids \subseteq RowsOf(q)
  /\ \A k \in DOMAIN rows : rows[k].request = q
  /\ q \in DOMAIN request /\ rows # << >> => Deciding(task[a])
  /\ DOMAIN request \subseteq DOMAIN request'
  /\ DOMAIN request' \subseteq DOMAIN request \union {q}
  /\ \A o \in DOMAIN request \ {q} : request'[o] = request[o]
  /\ KeepsBooking(q)

TouchesOne(a) == \E q, ids, rows : Touches(a, q, ids, rows)

\* A request that is new is given nothing or all it asks for.
LEMMA AddingTouchesOne ==
  ASSUME HandlersTypeOK, NEW a, Goto(a, Idle), NEW row \in RequestRow,
         NEW rows, request' = Append(request, row), Writes({}, rows),
         Gives(rows, Len(request) + 1, row)
  PROVE  TouchesOne(a)
<1>. PICK q : q = Len(request) + 1
  OBVIOUS
<1>1. /\ request \in Seq(RequestRow) /\ reservation \in Seq(ReservationRow)
      /\ DOMAIN request = 1 .. Len(request) /\ Len(request) \in Nat
      /\ OwnedBy(reservation, Owners)
  BY LenProperties DEF HandlersTypeOK
<1>2. /\ Append(request, row) \in Seq(RequestRow)
      /\ Len(Append(request, row)) = q
      /\ Append(request, row)[q] = row
      /\ \A o \in 1 .. Len(request) : Append(request, row)[o] = request[o]
  BY <1>1, AppendProperties
<1>3. DOMAIN request' = 1 .. q /\ request'[q] = row
  BY <1>2, LenProperties
<1>4. q \in Nat /\ q \notin DOMAIN request /\ q # NoRequest
  BY <1>1 DEF NoRequest
<1>5. ActiveOf(q) \subseteq {}
  BY <1>1, <1>4 DEF ActiveOf, OwnedBy, Owners
<1>6. \A k \in DOMAIN rows : rows[k].request = q
  BY <1>4, GivenRows
<1>7. BookingIsWhole(q)'
  BY <1>1, <1>3, <1>4, <1>5, GivenIsWhole
<1>8. Touches(a, q, {}, rows)
  <2>1. DOMAIN request \subseteq DOMAIN request' /\ DOMAIN request' \subseteq DOMAIN request \union {q}
    BY <1>1, <1>3
  <2>2. \A o \in DOMAIN request \ {q} : request'[o] = request[o]
    BY <1>1, <1>2
  <2>. QED
    BY <1>4, <1>6, <1>7, <2>1, <2>2 DEF Touches, KeepsBooking
<1>. QED
  BY <1>8 DEF TouchesOne

\* A decision on a row that is as it was loaded leaves the booking whole.
LEMMA DecidingTouchesOne ==
  ASSUME HandlersTypeOK, NEW s \in Staff, NEW t, t = task[s], Deciding(t), Goto(s, Idle),
         t.q \in DOMAIN request, t.seen \in RequestRow, t.next \in RequestRow,
         NEW ids, NEW rows, Writes(ids, rows), ids \subseteq RowsOf(t.q),
         Gives(rows, t.q, t.next),
         t.seen.status = "APPROVED" => ActiveOf(t.q) \subseteq ids,
         request' = [request EXCEPT ![t.q] = WriteBack(request[t.q], t.seen, t.next)]
  PROVE  TouchesOne(s)
<1>1. /\ request \in Seq(RequestRow) /\ reservation \in Seq(ReservationRow)
      /\ DOMAIN request = 1 .. Len(request) /\ Len(request) \in Nat
      /\ request[t.q] \in RequestRow
  BY LenProperties, ElementOfSeq DEF HandlersTypeOK
<1>2. DOMAIN request' = DOMAIN request /\ \A o \in DOMAIN request \ {t.q} : request'[o] = request[o]
  OBVIOUS
<1>3. t.q \in Nat /\ \A k \in DOMAIN rows : rows[k].request = t.q
  BY <1>1, GivenRows
<1>4. FormEnds(s)
  BY DEF FormEnds, Deciding, Goto, HandlersTypeOK, Actor
<1>5. ASSUME BookingIsWhole(t.q), ~ Overtaken(t.q)
      PROVE  BookingIsWhole(t.q)'
  <2>1. t.seen = request[t.q]
    BY <1>4, <1>5 DEF Overtaken
  <2>2. request'[t.q] = t.next
    BY <1>1, <2>1, FreshWriteBack
  <2>3. ActiveOf(t.q) \subseteq ids
    BY <1>5, <2>1 DEF BookingIsWhole
  <2>. QED
    BY <1>1, <1>3, <2>2, <2>3, GivenIsWhole
<1>6. Touches(s, t.q, ids, rows)
  BY <1>2, <1>3, <1>5 DEF Touches, KeepsBooking
<1>. QED
  BY <1>6 DEF TouchesOne

\* A write of rows that belong to no request.
LEMMA EntryTouchesNone ==
  ASSUME HandlersTypeOK, NEW a, Goto(a, Idle), request' = request,
         NEW rows, Writes({}, rows), \A k \in DOMAIN rows : rows[k].request = NoRequest
  PROVE  TouchesOne(a)
<1>1. NoRequest \notin DOMAIN request
  <2>1. DOMAIN request = 1 .. Len(request)
    BY LenProperties DEF HandlersTypeOK
  <2>. QED
    BY <2>1 DEF NoRequest
<1>2. Touches(a, NoRequest, {}, rows)
  BY <1>1 DEF Touches, KeepsBooking
<1>. QED
  BY <1>2 DEF TouchesOne

\* The commits of staff.
LEMMA StaffTouchOne ==
  ASSUME HandlersTypeOK, DecisionsInv, NEW s \in Actor, Commit(s) \/ CommitAmend(s)
  PROVE  TouchesOne(s)
<1>1. PICK t : t = task[s]
  OBVIOUS
<1>2. /\ Deciding(t) /\ InHand(t) /\ Goto(s, Idle)
      /\ TaskOK(t, DOMAIN request, DOMAIN reservation)
  BY <1>1 DEF Commit, CommitAmend, Deciding, DecisionsInv, HandlersTypeOK, TasksOK
<1>3. s \in Staff
  BY <1>1, <1>2 DEF DecisionsInv
<1>4. reservation \in Seq(ReservationRow)
  BY DEF HandlersTypeOK
<1>5. Writes({}, << >>) <=> reservation' = reservation
  BY <1>4, NothingWritten DEF Writes
<1>6. CASE Commit(s)
  <2>1. /\ t.at = "writing" /\ reservation' = Cancelled(t.release) \o t.rows
        /\ t.q = NoRequest => request' = Append(request, t.next)
        /\ t.q # NoRequest =>
             request' = [request EXCEPT ![t.q] = WriteBack(request[t.q], t.seen, t.next)]
    BY <1>1, <1>6 DEF Commit
  <2>2. /\ WritesAll(t) /\ t.seen \in RequestRow /\ t.next \in RequestRow
        /\ t.q \in DOMAIN request \union {NoRequest}
        /\ Writes(t.release, t.rows)
    BY <1>2, <2>1 DEF InHand, TaskOK, Writes
  <2>3. CASE t.q = NoRequest
    <3>1. t.release = {} /\ t.rows = << >> /\ t.next.status # "APPROVED"
      BY <2>2, <2>3 DEF WritesAll, WritesNothing
    <3>2. Gives(<< >>, Len(request) + 1, t.next) /\ Writes({}, << >>)
      BY <2>2, <3>1 DEF Gives
    <3>. QED
      BY <1>2, <2>1, <2>2, <2>3, <3>2, AddingTouchesOne
  <2>4. CASE t.q # NoRequest
    BY <1>1, <1>2, <1>3, <2>1, <2>2, <2>4, DecidingTouchesOne DEF WritesAll
  <2>. QED
    BY <2>3, <2>4
<1>7. CASE CommitAmend(s)
  <2>. DEFINE r         == t.next.assigned
              slots     == ExpandSlots(t.next.period)
              conflicts == SlotConflicts(reservation, r, slots, t.q)
              rows      == BookingRows(t.q, r, slots, conflicts)
  <2>1. /\ t.at = "amending"
        /\ \/ UNCHANGED <<request, reservation>>
           \/ /\ request' = [request EXCEPT ![t.q] = WriteBack(request[t.q], t.seen, t.next)]
              /\ reservation' = Cancelled(ActiveOf(t.q)) \o rows
    BY <1>1, <1>7 DEF CommitAmend
  <2>2. /\ AmendsAll(t) /\ t.seen \in RequestRow /\ t.next \in RequestRow
        /\ t.q \in DOMAIN request
    BY <1>2, <2>1 DEF InHand, TaskOK
  <2>3. CASE UNCHANGED <<request, reservation>>
    BY <1>2, <1>5, <2>3, EntryTouchesNone
  <2>4. CASE /\ request' = [request EXCEPT ![t.q] = WriteBack(request[t.q], t.seen, t.next)]
             /\ reservation' = Cancelled(ActiveOf(t.q)) \o rows
    <3>1. Gives(rows, t.q, t.next)
      BY <2>2 DEF AmendsAll, Gives
    <3>2. t.q \in Nat
      BY <2>2, LenProperties DEF HandlersTypeOK
    <3>3. rows \in Seq(ReservationRow)
      BY <2>2, <3>1, <3>2, GivenRows
    <3>4. PICK v : v = rows
      OBVIOUS
    <3>. HIDE DEF rows
    <3>5. Writes(ActiveOf(t.q), v) /\ Gives(v, t.q, t.next)
      BY <2>4, <3>1, <3>3, <3>4 DEF Writes
    <3>6. ActiveOf(t.q) \subseteq RowsOf(t.q)
      BY DEF ActiveOf, RowsOf
    <3>. QED
      BY <1>1, <1>2, <1>3, <2>2, <2>4, <3>5, <3>6, DecidingTouchesOne
  <2>. QED
    BY <2>1, <2>3, <2>4
<1>. QED
  BY <1>6, <1>7

\* The release of a single slot.
LEMMA ReleaseTouchesOne ==
  ASSUME HandlersTypeOK, DecisionsInv, NEW a \in Thread, CommitRelease(a)
  PROVE  TouchesOne(a)
<1>0. PICK q, i : q = task[a].q /\ i = task[a].i
  OBVIOUS
<1>a. a \in Actor
  BY DEF Actor
<1>1. /\ task[a].at = "releasing" /\ Goto(a, Idle)
      /\ reservation' = Cancelled({i})
      /\ request' = IF task[a].approved /\ ~ HoldsActiveSlot(reservation', q)
                      THEN WithStatus(request, q, "CANCELLED") ELSE request
  BY <1>0 DEF CommitRelease
<1>2. /\ request \in Seq(RequestRow) /\ reservation \in Seq(ReservationRow)
      /\ DOMAIN request = 1 .. Len(request) /\ Len(request) \in Nat
      /\ \A o \in DOMAIN request : request[o] \in RequestRow
  BY LenProperties, ElementOfSeq DEF HandlersTypeOK
<1>3. /\ i \in RowsOf(q) /\ task[a].approved \in BOOLEAN
      /\ task[a].approved => q \in DOMAIN request
  BY <1>0, <1>a, <1>1 DEF DecisionsInv, InHand, ReleasesOwn, HandlersTypeOK, TasksOK, TaskOK
<1>4. Writes({i}, << >>)
  <2>1. Cancelled({i}) \o << >> = Cancelled({i})
    BY <1>2, CancelledType, ConcatEmptySeq
  <2>. QED
    BY <1>1, <1>2, <2>1, EmptySeq DEF Writes
<1>5. /\ DOMAIN request' = DOMAIN request
      /\ \A o \in DOMAIN request \ {q} : request'[o] = request[o]
      /\ \A o \in DOMAIN request :
           request'[o].period = request[o].period /\ request'[o].assigned = request[o].assigned
  BY <1>1, <1>2, <1>3 DEF WithStatus, RequestRow
<1>6. ActiveOf(q)' = ActiveOf(q) \ {i}
  BY <1>2, <1>4, HeldAfterWrite
<1>7. HoldsActiveSlot(reservation', q) <=> ActiveOf(q) \ {i} # {}
  BY <1>6 DEF HoldsActiveSlot, ActiveOf
<1>8. ASSUME q \in DOMAIN request, BookingIsWhole(q), ~ Overtaken(q)
      PROVE  BookingIsWhole(q)'
  <2>1. task[a].approved = (request[q].status = "APPROVED")
    <3>1. task'[a] = Idle
      BY <1>a, <1>1 DEF Goto, HandlersTypeOK
    <3>. QED
      BY <1>0, <1>1, <1>8, <3>1 DEF Overtaken
  <2>2. request'[q].status = "APPROVED" <=> ActiveOf(q) \ {i} # {}
    <3>1. CASE task[a].approved /\ ActiveOf(q) \ {i} = {}
      <4>1. request' = WithStatus(request, q, "CANCELLED")
        BY <1>1, <1>7, <3>1
      <4>2. request'[q].status = "CANCELLED"
        BY <1>2, <1>8, <4>1 DEF WithStatus, RequestRow
      <4>. QED
        BY <3>1, <4>2
    <3>2. CASE task[a].approved /\ ActiveOf(q) \ {i} # {}
      BY <1>1, <1>7, <2>1, <3>2
    <3>3. CASE ~ task[a].approved
      BY <1>1, <1>8, <2>1, <3>3 DEF BookingIsWhole
    <3>. QED
      BY <3>1, <3>2, <3>3
  <2>3. \A k \in DOMAIN << >> : << >>[k].request # q
    OBVIOUS
  <2>. QED
    BY <1>2, <1>4, <1>5, <1>8, <2>2, <2>3, LessIsWhole
<1>9. Touches(a, q, {i}, << >>)
  <2>1. /\ {i} \subseteq RowsOf(q)
        /\ DOMAIN request \subseteq DOMAIN request'
        /\ DOMAIN request' \subseteq DOMAIN request \union {q}
        /\ \A k \in DOMAIN << >> : << >>[k].request = q
    BY <1>3, <1>5
  <2>2. KeepsBooking(q)
    BY <1>5, <1>8 DEF KeepsBooking
  <2>. QED
    BY <1>1, <1>4, <1>5, <2>1, <2>2 DEF Touches
<1>. QED
  BY <1>9 DEF TouchesOne

\* A new entry in the calendar.
LEMMA EntryTouchesOne ==
  ASSUME HandlersTypeOK, NEW a \in Actor, CommitManual(a)
  PROVE  TouchesOne(a)
<1>. DEFINE row == task[a].row
<1>1. /\ Goto(a, Idle) /\ request' = request /\ reservation' = Append(reservation, row)
      /\ reservation \in Seq(ReservationRow)
      /\ row \in ReservationRow /\ row.request = NoRequest
  BY DEF CommitManual, HandlersTypeOK, TasksOK, TaskOK
<1>. HIDE DEF row
<1>2. /\ Append(reservation, row) = reservation \o <<row>>
      /\ <<row>> \in Seq(ReservationRow)
      /\ Cancelled({}) = reservation
  BY <1>1, AppendIsConcat, NothingWritten
<1>3. Writes({}, <<row>>)
  BY <1>1, <1>2 DEF Writes
<1>. QED
  BY <1>1, <1>3, EntryTouchesNone

\* An import.
LEMMA ImportTouchesOne ==
  ASSUME HandlersTypeOK, NEW w \in Actor, CommitImport(w)
  PROVE  TouchesOne(w)
<1>. DEFINE t         == task[w]
            q         == Len(request) + 1
            new       == NewRequest(t.period, t.responseId)
            booked    == [new EXCEPT !.assigned = t.robot, !.status = "APPROVED"]
            slots     == ExpandSlots(t.period)
            conflicts == SlotConflicts(reservation, t.robot, slots, q)
            given     == BookingRows(q, t.robot, slots, conflicts)
<1>1. /\ t.at = "importing" /\ Goto(w, Idle)
      /\ \/ /\ StillFree(t, conflicts)
            /\ request' = Append(request, booked)
            /\ reservation' = reservation \o given
         \/ request' = Append(request, new) /\ reservation' = reservation
  BY DEF CommitImport
<1>2. TaskOK(t, DOMAIN request, DOMAIN reservation)
  BY DEF HandlersTypeOK, TasksOK
<1>3. /\ t.period \in Period /\ t.responseId \in ResponseId \union {NoResponseId}
      /\ slots # << >>
      /\ t.available = TRUE => t.robot \in Resource
  BY <1>1, <1>2, ValidPeriodHasSlots DEF TaskOK
<1>4. new \in RequestRow /\ new.status # "APPROVED" /\ new.period = t.period
  BY <1>3, NewRequestType DEF NewRequest
<1>5. /\ reservation \in Seq(ReservationRow) /\ q \in Nat
      /\ Cancelled({}) = reservation /\ Cancelled({}) \o << >> = reservation
  BY LenProperties, NothingWritten DEF HandlersTypeOK
<1>6. CASE /\ StillFree(t, conflicts)
           /\ request' = Append(request, booked)
           /\ reservation' = reservation \o given
  <2>1. t.robot \in Resource
    BY <1>3, <1>6 DEF StillFree
  <2>2. given \in Seq(ReservationRow)
    BY <1>3, <1>5, <2>1, RowsForPeriod
  <2>3. /\ booked \in RequestRow /\ booked.status = "APPROVED"
        /\ booked.assigned = t.robot /\ booked.period = t.period
    BY <1>4, <2>1 DEF RequestRow, RequestStatus
  <2>. HIDE DEF booked, conflicts, new
  <2>4. Gives(given, q, booked)
    BY <1>3, <2>1, <2>3 DEF Gives
  <2>5. Writes({}, given)
    BY <1>5, <1>6, <2>2 DEF Writes
  <2>. HIDE DEF given
  <2>. QED
    BY <1>1, <1>6, <2>3, <2>4, <2>5, AddingTouchesOne
<1>7. CASE request' = Append(request, new) /\ reservation' = reservation
  <2>1. Gives(<< >>, q, new) /\ Writes({}, << >>)
    BY <1>4, <1>5, <1>7, EmptySeq DEF Gives, Writes
  <2>. HIDE DEF new
  <2>. QED
    BY <1>1, <1>4, <1>7, <2>1, AddingTouchesOne
<1>. QED
  BY <1>1, <1>6, <1>7

\* Every commit writes to one request.
LEMMA CommitsTouchOne ==
  ASSUME HandlersTypeOK, DecisionsInv, Commits
  PROVE  \E a \in Actor : TouchesOne(a)
<1>1. Staff \subseteq Actor /\ Thread \subseteq Actor /\ Worker \subseteq Actor
  BY DEF Actor
<1>. QED
  BY <1>1, StaffTouchOne, ReleaseTouchesOne, EntryTouchesOne, ImportTouchesOne DEF Commits

\* What the others have in hand stays as it should be.
LEMMA OthersStayInHand ==
  ASSUME HandlersTypeOK, DecisionsInv, NEW a \in Actor, TouchesOne(a),
         NEW b \in Actor, b # a
  PROVE  InHand(task[b])'
<1>1. PICK q, ids, rows : Touches(a, q, ids, rows)
  BY DEF TouchesOne
<1>2. /\ reservation \in Seq(ReservationRow) /\ Writes(ids, rows)
      /\ ids \subseteq RowsOf(q) /\ \A k \in DOMAIN rows : rows[k].request = q
      /\ q \in DOMAIN request /\ rows # << >> => Deciding(task[a])
  BY <1>1 DEF Touches, HandlersTypeOK
<1>3. PICK t : t = task[b]
  OBVIOUS
<1>4. task'[b] = t /\ InHand(t) /\ TaskOK(t, DOMAIN request, DOMAIN reservation)
  BY <1>1, <1>3 DEF Touches, Goto, HandlersTypeOK, TasksOK, DecisionsInv
<1>5. ASSUME NEW o
      PROVE  RowsOf(o) \subseteq RowsOf(o)'
  BY <1>2, WrittenRows DEF RowsOf
<1>6. ASSUME t.at = "writing", t.q # NoRequest, t.seen.status = "APPROVED"
      PROVE  ActiveOf(t.q)' \subseteq t.release
  <2>1. t.q \in DOMAIN request /\ ActiveOf(t.q) \subseteq t.release
    BY <1>4, <1>6 DEF InHand, WritesAll, TaskOK
  <2>2. t.q # q \/ rows = << >>
    BY <1>2, <1>3, <1>6, <2>1 DEF DecisionsInv, Deciding
  <2>3. \A k \in DOMAIN rows : rows[k].request # t.q
    BY <1>2, <2>2
  <2>. QED
    BY <1>2, <2>1, <2>3, HeldAfterWrite
<1>7. t.at = "writing" => WritesAll(t)'
  BY <1>4, <1>5, <1>6 DEF InHand, WritesAll
<1>8. t.at = "releasing" => ReleasesOwn(t)'
  BY <1>4, <1>5 DEF InHand, ReleasesOwn
<1>9. t.at = "amending" => AmendsAll(t)'
  BY <1>4 DEF InHand, AmendsAll
<1>10. InHand(t)'
  BY <1>7, <1>8, <1>9 DEF InHand
<1>. QED
  BY <1>4, <1>10

\* The invariant is inductive: a decision starts when the loop is free, and what a
\* commit writes to another request, or takes from this one, is not in its way.
LEMMA DecisionsKept ==
  ASSUME HandlersTypeOK, DecisionsInv, [Next]_vars
  PROVE  DecisionsInv'
<1>1. CASE OnlyChecks /\ task' = task
  <2>1. \A t : InHand(t)' <=> InHand(t)
    BY <1>1 DEF OnlyChecks, InHand, WritesAll, AmendsAll, ReleasesOwn, RowsOf, ActiveOf
  <2>. QED
    BY <1>1, <2>1 DEF DecisionsInv, Deciding
<1>2. ASSUME OnlyChecks, NEW a \in Actor, NEW t, Goto(a, t), InHand(t),
             Deciding(t) => a \in Staff /\ LoopIsFree
      PROVE  DecisionsInv'
  <2>1. \A u : InHand(u)' <=> InHand(u)
    BY <1>2 DEF OnlyChecks, InHand, WritesAll, AmendsAll, ReleasesOwn, RowsOf, ActiveOf
  <2>2. \A b \in Actor : task'[b] = IF b = a THEN t ELSE task[b]
    BY <1>2 DEF Goto, HandlersTypeOK
  <2>3. \A b \in Actor : InHand(task'[b])
    BY <1>2, <2>2 DEF DecisionsInv
  <2>4. Deciding(t) => a \in Staff /\ \A b \in Actor : ~ Deciding(task[b])
    BY <1>2 DEF LoopIsFree, DecisionsInv, Deciding
  <2>5. \A u : Deciding(u)' <=> Deciding(u)
    BY DEF Deciding
  <2>. QED
    BY <2>1, <2>2, <2>3, <2>4 DEF DecisionsInv, Deciding
<1>3. CASE Commits
  <2>1. PICK a \in Actor : TouchesOne(a)
    BY <1>3, CommitsTouchOne
  <2>2. \A b \in Actor : task'[b] = IF b = a THEN Idle ELSE task[b]
    BY <2>1 DEF TouchesOne, Touches, Goto, HandlersTypeOK
  <2>3. ASSUME NEW b \in Actor
        PROVE  InHand(task[b])'
    <3>1. CASE b = a
      <4>1. task'[b] = Idle
        BY <2>2, <3>1
      <4>. QED
        BY <4>1 DEF InHand, Idle
    <3>2. CASE b # a
      BY <2>1, <3>2, OthersStayInHand
    <3>. QED
      BY <3>1, <3>2
  <2>4. ~ Deciding(Idle)
    BY DEF Deciding, Idle
  <2>5. \A b \in Actor : Deciding(task'[b]) => Deciding(task[b])
    BY <2>2, <2>4
  <2>. QED
    BY <2>3, <2>5 DEF DecisionsInv, Deciding
<1>. QED
  BY <1>1, <1>2, <1>3, ChecksOrCommits DEF OnlyChecks

\* What is in hand is as it should be, in every reachable state.
LEMMA DecisionsAreInHand == Spec => [](HandlersTypeOK /\ DecisionsInv)
<1>1. Init => DecisionsInv
  BY DEF Init, DecisionsInv, InHand, Deciding, Idle
<1>. QED
  BY <1>1, HandlersTypeCorrect, DecisionsKept, PTL DEF Spec

\* A booking that is whole comes apart only by an actor who decides on a row that
\* somebody has changed since it was loaded, however staff, threads and workers
\* interleave.
THEOREM OnlyOvertakingBreaksBookings == Spec => BookingsBreakOnlyByOvertaking
<1>1. HandlersTypeOK /\ DecisionsInv /\ [Next]_vars => KeepsBookings
  <2>. SUFFICES ASSUME HandlersTypeOK, DecisionsInv, [Next]_vars,
                       NEW o \in DOMAIN request'
                PROVE  KeepsBooking(o)
    BY DEF KeepsBookings, KeepsBooking
  <2>1. CASE OnlyChecks
    <3>1. request' = request /\ reservation' = reservation
      BY <2>1 DEF OnlyChecks
    <3>2. BookingIsWhole(o)' <=> BookingIsWhole(o)
      BY <3>1 DEF BookingIsWhole, ActiveOf
    <3>. QED
      BY <3>1, <3>2 DEF KeepsBooking
  <2>2. CASE Commits
    <3>1. PICK a, q, ids, rows : Touches(a, q, ids, rows)
      BY <2>2, CommitsTouchOne DEF TouchesOne
    <3>2. CASE o = q
      BY <3>1, <3>2 DEF Touches
    <3>3. CASE o # q
      <4>1. o \in DOMAIN request /\ request'[o] = request[o]
        BY <3>1, <3>3 DEF Touches
      <4>2. /\ reservation \in Seq(ReservationRow) /\ Writes(ids, rows)
            /\ \A k \in DOMAIN rows : rows[k].request # o
        BY <3>1, <3>3 DEF Touches, HandlersTypeOK
      <4>3. ActiveOf(o) \ ids = ActiveOf(o)
        BY <3>1, <3>3 DEF Touches, RowsOf, ActiveOf
      <4>4. BookingIsWhole(o) => BookingIsWhole(o)'
        <5>1. ASSUME BookingIsWhole(o)
              PROVE  request'[o].status = "APPROVED" <=> ActiveOf(o) \ ids # {}
          BY <4>1, <4>3, <5>1 DEF BookingIsWhole
        <5>. QED
          BY <4>1, <4>2, <5>1, LessIsWhole
      <4>. QED
        BY <4>1, <4>4 DEF KeepsBooking
    <3>. QED
      BY <3>2, <3>3
  <2>. QED
    BY <2>1, <2>2, ChecksOrCommits
<1>. QED
  BY <1>1, DecisionsAreInHand, PTL DEF Spec, BookingsBreakOnlyByOvertaking

=============================================================================
