------------------------ MODULE BookingServiceProofs ------------------------
(***************************************************************************)
(* Proofs about BookingService: type correctness, the uniqueness of live   *)
(* Response IDs, the history of the reservations table, and the agreement  *)
(* of approved requests with their slots, for every set of robots, forms,  *)
(* timetables and bounds.                                                  *)
(***************************************************************************)
EXTENDS BookingService, BookingRulesProofs

-----------------------------------------------------------------------------
(* Type correctness                                                        *)

\* Every decision leaves rows of the declared kinds.
LEMMA StepsKeepTypes ==
  ASSUME TypeOK, [Next]_vars
  PROVE  TypeOK'
<1> USE DEF TypeOK
<1>0. /\ DOMAIN request = 1 .. Len(request)
      /\ DOMAIN reservation = 1 .. Len(reservation)
      /\ \A q \in DOMAIN request : request[q] \in RequestRow
      /\ \A i \in DOMAIN reservation : reservation[i] \in ReservationRow
      /\ Len(request) \in Nat
  BY LenProperties, ElementOfSeq
<1>p. \A q \in DOMAIN request : request[q].period \in Period
  BY <1>0 DEF RequestRow
<1>1. ASSUME NEW p \in Periods, NEW rid \in ResponseId \union {NoResponseId},
             CreateRequest(p, rid)
      PROVE  TypeOK'
  <2>1. NewRequest(p, rid) \in RequestRow
    BY InputAssumption, NewRequestType
  <2>2. QED
    BY <1>1, <2>1 DEF CreateRequest
<1>2. ASSUME NEW p \in Periods, NEW rid \in ResponseId \union {NoResponseId},
             NEW r \in Resource, ImportApproved(p, rid, r)
      PROVE  TypeOK'
  <2> DEFINE q == Len(request) + 1
             slots == ExpandSlots(p)
             rows == BookingRows(q, r, slots, SlotConflicts(reservation, r, slots, q))
             row == [NewRequest(p, rid) EXCEPT !.assigned = r, !.status = "APPROVED"]
  <2>1. rows \in Seq(ReservationRow)
    <3>1. q \in Nat
      BY <1>0
    <3>2. QED
      BY <3>1, InputAssumption, RowsForPeriod
  <2>2. row \in RequestRow
    BY InputAssumption DEF NewRequest, RequestRow, RequestStatus
  <2>3. reservation' = reservation \o rows /\ request' = Append(request, row)
    BY <1>2 DEF ImportApproved
  <2>4. reservation' \in Seq(ReservationRow)
    BY <2>1, <2>3, ConcatProperties
  <2>5. QED
    BY <1>2, <2>2, <2>3, <2>4 DEF ImportApproved
<1>3. ASSUME NEW q \in DOMAIN request, NEW p \in Periods,
             NEW rid \in ResponseId \union {NoResponseId},
             NEW r \in Resource \union {NoResource}, EditRequest(q, p, rid, r)
      PROVE  TypeOK'
  <2>1. WithFields(request[q], p, rid, r) \in RequestRow
    BY <1>0, InputAssumption, WithFieldsType
  <2>2. QED
    BY <1>0, <1>3, <2>1, ExceptSeq DEF EditRequest
<1>4. ASSUME NEW q \in DOMAIN request, NEW p \in Periods,
             NEW rid \in ResponseId \union {NoResponseId},
             NEW r \in Resource, NEW allow \in BOOLEAN, Amend(q, p, rid, r, allow)
      PROVE  TypeOK'
  <2> DEFINE slots == ExpandSlots(p)
             rows == BookingRows(q, r, slots, SlotConflicts(reservation, r, slots, q))
  <2>1. WithFields(request[q], p, rid, r) \in RequestRow
    BY <1>0, InputAssumption, WithFieldsType
  <2>2. request' \in Seq(RequestRow)
    BY <1>0, <1>4, <2>1, ExceptSeq DEF Amend
  <2>3. rows \in Seq(ReservationRow)
    <3>1. q \in Nat
      BY <1>0
    <3>2. QED
      BY <3>1, InputAssumption, RowsForPeriod
  <2>4. reservation' = Released(reservation, q) \o rows
    BY <1>4 DEF Amend
  <2>5. reservation' \in Seq(ReservationRow)
    BY <2>3, <2>4, ReleasedType, ConcatProperties
  <2>6. QED
    BY <1>4, <2>2, <2>5 DEF Amend
<1>5. ASSUME NEW q \in DOMAIN request, NEW r \in Resource, NEW allow \in BOOLEAN,
             Approve(q, r, allow)
      PROVE  TypeOK'
  <2> DEFINE slots == ExpandSlots(request[q].period)
             rows == BookingRows(q, r, slots, SlotConflicts(reservation, r, slots, q))
             row == [request[q] EXCEPT !.assigned = r, !.status = "APPROVED"]
  <2>1. row \in RequestRow
    BY <1>0 DEF RequestRow, RequestStatus
  <2>2. request' = [request EXCEPT ![q] = row]
    BY <1>0, <1>5 DEF Approve
  <2>3. rows \in Seq(ReservationRow)
    <3>1. q \in Nat
      BY <1>0
    <3>2. QED
      BY <3>1, <1>p, RowsForPeriod
  <2>4. reservation' = reservation \o rows
    BY <1>5 DEF Approve
  <2>5. reservation' \in Seq(ReservationRow)
    BY <2>3, <2>4, ConcatProperties
  <2>6. request' \in Seq(RequestRow)
    <3> HIDE DEF row
    <3>1. QED
      BY <1>0, <2>1, <2>2, ExceptSeq
  <2>7. QED
    BY <1>5, <2>5, <2>6 DEF Approve
<1>6. ASSUME NEW q \in DOMAIN request, Reject(q)
      PROVE  TypeOK'
  BY <1>6, StatusUpdateType DEF Reject, RequestStatus
<1>7. ASSUME NEW q \in DOMAIN request, Cancel(q)
      PROVE  TypeOK'
  BY <1>7, StatusUpdateType, ReleasedType DEF Cancel, RequestStatus
<1>8. ASSUME NEW q \in DOMAIN request, Reopen(q)
      PROVE  TypeOK'
  BY <1>8, StatusUpdateType DEF Reopen, RequestStatus
<1>9. ASSUME NEW i \in DOMAIN reservation, CancelReservation(i)
      PROVE  TypeOK'
  <2>1. [reservation[i] EXCEPT !.status = "CANCELLED"] \in ReservationRow
    BY <1>0 DEF ReservationRow
  <2>2. reservation' = [reservation EXCEPT
                          ![i] = [reservation[i] EXCEPT !.status = "CANCELLED"]]
    BY <1>0, <1>9 DEF CancelReservation
  <2>3. reservation' \in Seq(ReservationRow)
    BY <1>0, <2>1, <2>2, ExceptSeq
  <2>4. request' \in Seq(RequestRow)
    <3> DEFINE q == reservation[i].request
    <3>1. CASE q \in DOMAIN request
      BY <1>9, <3>1, StatusUpdateType
      DEF CancelReservation, ReleasingClosesRequest, RequestStatus
    <3>2. CASE q \notin DOMAIN request
      <4>1. request = [j \in DOMAIN request |-> request[j]]
        BY <1>0
      <4>2. WithStatus(request, q, "CANCELLED") = request
        BY <3>2, <4>1 DEF WithStatus
      <4>3. QED
        BY <1>9, <4>2 DEF CancelReservation, ReleasingClosesRequest
    <3>3. QED
      BY <3>1, <3>2
  <2>5. QED
    BY <1>9, <2>3, <2>4 DEF CancelReservation
<1>10. ASSUME NEW r \in Resource, NEW source \in EntrySources,
              NEW interval \in EntryTimes, CreateManual(r, source, interval)
       PROVE  TypeOK'
  <2>1. EntryRow(r, source, interval) \in ReservationRow
    BY InputAssumption, EntryRowType
  <2>2. <<EntryRow(r, source, interval)>> \in Seq(ReservationRow)
    BY <2>1
  <2>3. reservation' = reservation \o <<EntryRow(r, source, interval)>>
    BY <1>10 DEF CreateManual
  <2>4. reservation' \in Seq(ReservationRow)
    BY <2>2, <2>3, ConcatProperties
  <2>5. QED
    BY <1>10, <2>4 DEF CreateManual
<1>11. ASSUME NEW robots \in RobotLists, NEW lessons \in LessonBatches,
              ImportLessons(robots, lessons)
       PROVE  TypeOK'
  <2>1. LessonRows(robots, lessons) \in Seq(ReservationRow)
    BY <1>11, InputAssumption, LessonRowsType DEF ImportLessons
  <2>2. reservation' = reservation \o LessonRows(robots, lessons)
    BY <1>11 DEF ImportLessons
  <2>3. reservation' \in Seq(ReservationRow)
    BY <2>1, <2>2, ConcatProperties
  <2>4. QED
    BY <1>11, <2>3 DEF ImportLessons
<1>12. ASSUME NEW r \in Resource, NEW status \in StatusChoices,
              SetResourceStatus(r, status)
       PROVE  TypeOK'
  BY <1>12, InputAssumption DEF SetResourceStatus
<1>13. CASE UNCHANGED vars
  BY <1>13 DEF vars
<1>14. QED
  BY <1>1, <1>2, <1>3, <1>4, <1>5, <1>6, <1>7, <1>8, <1>9, <1>10, <1>11, <1>12,
     <1>13 DEF Next, RequestStep

\* The committed tables always hold well-formed rows.
THEOREM TypeCorrect == Spec => []TypeOK
<1>1. Init => TypeOK
  BY EmptySeq DEF Init, TypeOK, ResourceStatus, Missing
<1>2. TypeOK /\ [Next]_vars => TypeOK'
  BY StepsKeepTypes
<1>3. QED
  BY <1>1, <1>2, PTL DEF Spec

-----------------------------------------------------------------------------
(* Live Response IDs                                                       *)

\* The order makes no difference.
LEMMA UniqueInIsUnique ==
  ASSUME request \in Seq(RequestRow)
  PROVE  UniqueLiveResponseId <=> UniqueIn(request)
<1>1. DOMAIN request = 1 .. Len(request) /\ Len(request) \in Nat
  BY LenProperties
<1>2. ASSUME UniqueLiveResponseId,
             NEW q \in DOMAIN request, NEW o \in DOMAIN request, q # o,
             LiveRequest(request[q]), LiveRequest(request[o]),
             request[q].responseId # NoResponseId,
             request[q].responseId = request[o].responseId
      PROVE  FALSE
  <2>1. CASE o < q
    BY <1>1, <1>2, <2>1 DEF UniqueLiveResponseId
  <2>2. CASE q < o
    BY <1>1, <1>2, <2>2 DEF UniqueLiveResponseId
  <2>3. QED
    BY <1>1, <1>2, <2>1, <2>2
<1>3. ASSUME UniqueIn(request), NEW q \in DOMAIN request, NEW o \in 1 .. q - 1
      PROVE  o \in DOMAIN request /\ q # o
  BY <1>1
<1>4. QED
  BY <1>2, <1>3 DEF UniqueLiveResponseId, UniqueIn

\* A Response ID names at most one live request, whatever is created, edited,
\* imported, amended and reopened.
THEOREM LiveResponseIdsUnique == Spec => []UniqueLiveResponseId
<1>1. Init => UniqueIn(request)
  BY DEF Init, UniqueIn
<1>2. UniqueIn(request) /\ TypeOK /\ TypeOK' /\ [Next]_vars => UniqueIn(request)'
  <2> SUFFICES ASSUME UniqueIn(request), TypeOK, TypeOK', [Next]_vars
               PROVE  UniqueIn(request')
    BY DEF UniqueIn
  <2>0. /\ request \in Seq(RequestRow) /\ request' \in Seq(RequestRow)
        /\ DOMAIN request = 1 .. Len(request) /\ Len(request) \in Nat
        /\ \A q \in DOMAIN request : request[q] \in RequestRow
    BY LenProperties, ElementOfSeq DEF TypeOK
  \* A status change of request q, provided it was live or its id is free.
  <2>s. ASSUME NEW q \in DOMAIN request, NEW status \in RequestStatus,
               request' = WithStatus(request, q, status),
               \/ status \in ClosedStatus
               \/ ~ ResponseIdTaken(request, request[q].responseId, q)
        PROVE  UniqueIn(request')
    <3>1. /\ DOMAIN request' = DOMAIN request
          /\ request'[q] = [request[q] EXCEPT !.status = status]
          /\ \A j \in DOMAIN request \ {q} : request'[j] = request[j]
      BY <2>s DEF WithStatus
    <3>2. /\ request'[q].status = status
          /\ request'[q].responseId = request[q].responseId
          /\ request[q].responseId \in ResponseId \union {NoResponseId}
      BY <2>0, <3>1 DEF RequestRow
    <3>3. ASSUME LiveRequest(request'[q]), request'[q].responseId # NoResponseId
          PROVE  \A j \in DOMAIN request \ {q} :
                   ~ HoldsResponseId(request, j, request'[q].responseId)
      <4>1. ~ ResponseIdTaken(request, request[q].responseId, q)
        BY <2>s, <3>2, <3>3 DEF LiveRequest
      <4>2. QED
        BY <2>0, <3>2, <3>3, <4>1, OldestHolderDecides
    <3>4. QED
      BY <2>0, <3>1, <3>3, OneRowKeepsUnique
  \* A new row at the end of the table.
  <2>a. ASSUME NEW row, request' = Append(request, row),
               row.responseId \in ResponseId \union {NoResponseId},
               ~ ResponseIdTaken(request, row.responseId, NoRequest)
        PROVE  UniqueIn(request')
    <3> DEFINE q == Len(request) + 1
    <3>1. /\ DOMAIN request' = 1 .. q
          /\ request'[q] = row
          /\ \A j \in DOMAIN request' \ {q} :
               j \in DOMAIN request /\ request'[j] = request[j]
      BY <2>0, <2>a
    <3>2. NoRequest \notin DOMAIN request /\ q \notin DOMAIN request
      BY <2>0 DEF NoRequest
    <3>3. ASSUME row.responseId # NoResponseId
          PROVE  \A j \in DOMAIN request \ {q} :
                   ~ HoldsResponseId(request, j, row.responseId)
      BY <2>0, <2>a, <3>2, <3>3, OldestHolderDecides
    <3>4. QED
      BY <2>0, <3>1, <3>3, OneRowKeepsUnique
  \* New fields for request q.
  <2>f. ASSUME NEW q \in DOMAIN request, NEW p \in Periods,
               NEW rid \in ResponseId \union {NoResponseId},
               NEW r \in Resource \union {NoResource},
               ~ ResponseIdTaken(request, rid, q),
               request' = [request EXCEPT ![q] = WithFields(request[q], p, rid, r)]
        PROVE  UniqueIn(request')
    <3>1. WithFields(request[q], p, rid, r).responseId = rid
      BY <2>0, InputAssumption, WithFieldsType
    <3>2. /\ DOMAIN request' = DOMAIN request
          /\ request'[q].responseId = rid
          /\ \A j \in DOMAIN request \ {q} : request'[j] = request[j]
      BY <2>f, <3>1
    <3>3. ASSUME rid # NoResponseId
          PROVE  \A j \in DOMAIN request \ {q} : ~ HoldsResponseId(request, j, rid)
      BY <2>0, <2>f, <3>3, OldestHolderDecides
    <3>4. QED
      BY <2>0, <3>2, <3>3, OneRowKeepsUnique
  <2>1. ASSUME NEW p \in Periods, NEW rid \in ResponseId \union {NoResponseId},
               CreateRequest(p, rid)
        PROVE  UniqueIn(request')
    <3>1. NewRequest(p, rid).responseId = rid
      BY DEF NewRequest
    <3>2. QED
      BY <2>1, <2>a, <3>1 DEF CreateRequest
  <2>2. ASSUME NEW p \in Periods, NEW rid \in ResponseId \union {NoResponseId},
               NEW r \in Resource, ImportApproved(p, rid, r)
        PROVE  UniqueIn(request')
    <3> DEFINE row == [NewRequest(p, rid) EXCEPT !.assigned = r, !.status = "APPROVED"]
    <3>1. row.responseId = rid
      BY DEF NewRequest
    <3>2. /\ request' = Append(request, row)
          /\ ~ ResponseIdTaken(request, rid, NoRequest)
      BY <2>2 DEF ImportApproved
    <3> HIDE DEF row
    <3>3. QED
      BY <2>a, <3>1, <3>2
  <2>3. ASSUME NEW q \in DOMAIN request, NEW p \in Periods,
               NEW rid \in ResponseId \union {NoResponseId},
               NEW r \in Resource \union {NoResource}, EditRequest(q, p, rid, r)
        PROVE  UniqueIn(request')
    BY <2>3, <2>f DEF EditRequest
  <2>4. ASSUME NEW q \in DOMAIN request, NEW p \in Periods,
               NEW rid \in ResponseId \union {NoResponseId},
               NEW r \in Resource, NEW allow \in BOOLEAN, Amend(q, p, rid, r, allow)
        PROVE  UniqueIn(request')
    BY <2>4, <2>f DEF Amend
  <2>5. ASSUME NEW q \in DOMAIN request, NEW r \in Resource, NEW allow \in BOOLEAN,
               Approve(q, r, allow)
        PROVE  UniqueIn(request')
    <3>1. /\ request[q].status = "PENDING"
          /\ DOMAIN request' = DOMAIN request
          /\ \A j \in DOMAIN request \ {q} : request'[j] = request[j]
      BY <2>5 DEF Approve
    <3>2. request'[q].responseId = request[q].responseId
      BY <2>0, <2>5 DEF Approve, RequestRow
    <3>3. LiveRequest(request[q])
      BY <3>1 DEF LiveRequest, ClosedStatus
    <3>4. QED
      BY <3>1, <3>2, <3>3 DEF UniqueIn
  <2>6. ASSUME NEW q \in DOMAIN request, Reject(q)
        PROVE  UniqueIn(request')
    BY <2>6, <2>s DEF Reject, RequestStatus, ClosedStatus
  <2>7. ASSUME NEW q \in DOMAIN request, Cancel(q)
        PROVE  UniqueIn(request')
    BY <2>7, <2>s DEF Cancel, RequestStatus, ClosedStatus
  <2>8. ASSUME NEW q \in DOMAIN request, Reopen(q)
        PROVE  UniqueIn(request')
    BY <2>8, <2>s DEF Reopen, RequestStatus
  <2>9. ASSUME NEW i \in DOMAIN reservation, CancelReservation(i)
        PROVE  UniqueIn(request')
    <3> DEFINE q == reservation[i].request
    <3>1. \/ request' = request
          \/ request' = WithStatus(request, q, "CANCELLED")
      BY <2>9 DEF CancelReservation, ReleasingClosesRequest
    <3>2. CASE request' = WithStatus(request, q, "CANCELLED") /\ q \in DOMAIN request
      BY <2>s, <3>2 DEF RequestStatus, ClosedStatus
    <3>3. CASE request' = WithStatus(request, q, "CANCELLED") /\ q \notin DOMAIN request
      <4>1. \A j \in DOMAIN request' : j \in DOMAIN request /\ request'[j] = request[j]
        BY <3>3 DEF WithStatus
      <4>2. QED
        BY <4>1 DEF UniqueIn
    <3>4. QED
      BY <3>1, <3>2, <3>3
  <2>10. CASE request' = request
    BY <2>10
  <2>11. QED
    BY <2>1, <2>2, <2>3, <2>4, <2>5, <2>6, <2>7, <2>8, <2>9, <2>10
    DEF Next, RequestStep, CreateManual, ImportLessons, SetResourceStatus, vars
<1>3. TypeOK /\ UniqueIn(request) => UniqueLiveResponseId
  BY UniqueInIsUnique DEF TypeOK
<1>4. QED
  BY <1>1, <1>2, <1>3, TypeCorrect, PTL DEF Spec

-----------------------------------------------------------------------------
(* The reservations table                                                  *)

\* A step adds rows or cancels some; it changes and removes none.
LEMMA StepsKeepHistory ==
  ASSUME TypeOK, [Next]_vars
  PROVE  KeepsHistory
<1>0. /\ reservation \in Seq(ReservationRow)
      /\ DOMAIN reservation = 1 .. Len(reservation) /\ Len(reservation) \in Nat
      /\ Len(request) + 1 \in Nat
      /\ \A q \in DOMAIN request : q \in Nat /\ request[q].period \in Period
  <2>1. /\ reservation \in Seq(ReservationRow)
        /\ DOMAIN reservation = 1 .. Len(reservation) /\ Len(reservation) \in Nat
    BY LenProperties DEF TypeOK
  <2>2. DOMAIN request = 1 .. Len(request) /\ Len(request) \in Nat
    BY LenProperties DEF TypeOK
  <2>3. \A q \in DOMAIN request : request[q] \in RequestRow
    BY <2>2, ElementOfSeq DEF TypeOK
  <2>4. QED
    BY <2>1, <2>2, <2>3 DEF RequestRow
\* Some rows are released, others added.
<1>a. ASSUME NEW old \in Seq(ReservationRow), NEW rows \in Seq(ReservationRow),
             Len(old) = Len(reservation),
             \A i \in DOMAIN reservation :
               old[i] \in {reservation[i],
                           [reservation[i] EXCEPT !.status = "CANCELLED"]},
             reservation' = old \o rows
      PROVE  KeepsHistory
  <2>1. /\ Len(rows) \in Nat
        /\ DOMAIN reservation' = 1 .. Len(reservation) + Len(rows)
        /\ \A i \in 1 .. Len(reservation) : reservation'[i] = old[i]
    <3>1. /\ old \o rows \in Seq(ReservationRow)
          /\ Len(old \o rows) = Len(old) + Len(rows)
          /\ \A i \in 1 .. Len(old) + Len(rows) :
               (old \o rows)[i] = IF i <= Len(old) THEN old[i] ELSE rows[i - Len(old)]
      BY ConcatProperties
    <3>2. Len(rows) \in Nat /\ DOMAIN (old \o rows) = 1 .. Len(old \o rows)
      BY <3>1, LenProperties
    <3>3. QED
      BY <1>0, <1>a, <3>1, <3>2
  <2>2. QED
    BY <1>0, <1>a, <2>1 DEF KeepsHistory
<1>r. ASSUME NEW q
      PROVE  /\ Released(reservation, q) \in Seq(ReservationRow)
             /\ Len(Released(reservation, q)) = Len(reservation)
             /\ \A i \in DOMAIN reservation :
                  Released(reservation, q)[i] \in
                    {reservation[i], [reservation[i] EXCEPT !.status = "CANCELLED"]}
  <2>1. /\ Released(reservation, q) \in Seq(ReservationRow)
        /\ Len(Released(reservation, q)) = Len(reservation)
    BY <1>0, ReleasedType
  <2>2. QED
    BY <2>1 DEF Released
<1>1. CASE reservation' = reservation
  BY <1>1 DEF KeepsHistory
<1>2. ASSUME NEW p \in Periods, NEW rid \in ResponseId \union {NoResponseId},
             NEW r \in Resource, ImportApproved(p, rid, r)
      PROVE  KeepsHistory
  <2> DEFINE q == Len(request) + 1
             slots == ExpandSlots(p)
             rows == BookingRows(q, r, slots, SlotConflicts(reservation, r, slots, q))
  <2>1. reservation' = reservation \o rows
    BY <1>2 DEF ImportApproved
  <2>2. rows \in Seq(ReservationRow)
    BY <1>0, InputAssumption, RowsForPeriod
  <2> HIDE DEF rows
  <2>3. QED
    BY <1>0, <1>a, <2>1, <2>2
<1>3. ASSUME NEW q \in DOMAIN request, NEW p \in Periods,
             NEW rid \in ResponseId \union {NoResponseId},
             NEW r \in Resource, NEW allow \in BOOLEAN, Amend(q, p, rid, r, allow)
      PROVE  KeepsHistory
  <2> DEFINE slots == ExpandSlots(p)
             rows == BookingRows(q, r, slots, SlotConflicts(reservation, r, slots, q))
  <2>1. reservation' = Released(reservation, q) \o rows
    BY <1>3 DEF Amend
  <2>2. rows \in Seq(ReservationRow)
    BY <1>0, InputAssumption, RowsForPeriod
  <2> HIDE DEF rows
  <2>3. QED
    BY <1>a, <1>r, <2>1, <2>2
<1>4. ASSUME NEW q \in DOMAIN request, NEW r \in Resource, NEW allow \in BOOLEAN,
             Approve(q, r, allow)
      PROVE  KeepsHistory
  <2> DEFINE slots == ExpandSlots(request[q].period)
             rows == BookingRows(q, r, slots, SlotConflicts(reservation, r, slots, q))
  <2>1. reservation' = reservation \o rows
    BY <1>4 DEF Approve
  <2>2. rows \in Seq(ReservationRow)
    BY <1>0, RowsForPeriod
  <2> HIDE DEF rows
  <2>3. QED
    BY <1>0, <1>a, <2>1, <2>2
<1>5. ASSUME NEW q \in DOMAIN request, Cancel(q)
      PROVE  KeepsHistory
  BY <1>0, <1>5, <1>r, LenProperties DEF Cancel, KeepsHistory
<1>6. ASSUME NEW i \in DOMAIN reservation, CancelReservation(i)
      PROVE  KeepsHistory
  BY <1>6 DEF CancelReservation, KeepsHistory
<1>7. ASSUME NEW r \in Resource, NEW source \in EntrySources,
             NEW interval \in EntryTimes, CreateManual(r, source, interval)
      PROVE  KeepsHistory
  <2> DEFINE rows == <<EntryRow(r, source, interval)>>
  <2>1. reservation' = reservation \o rows
    BY <1>7 DEF CreateManual
  <2>2. rows \in Seq(ReservationRow)
    <3>1. EntryRow(r, source, interval) \in ReservationRow
      BY InputAssumption, EntryRowType
    <3>2. QED
      BY <3>1
  <2> HIDE DEF rows
  <2>3. QED
    BY <1>0, <1>a, <2>1, <2>2
<1>8. ASSUME NEW robots \in RobotLists, NEW lessons \in LessonBatches,
             ImportLessons(robots, lessons)
      PROVE  KeepsHistory
  <2>1. reservation' = reservation \o LessonRows(robots, lessons)
    BY <1>8 DEF ImportLessons
  <2>2. LessonRows(robots, lessons) \in Seq(ReservationRow)
    BY <1>8, InputAssumption, LessonRowsType DEF ImportLessons
  <2>3. QED
    BY <1>0, <1>a, <2>1, <2>2
<1>9. QED
  BY <1>1, <1>2, <1>3, <1>4, <1>5, <1>6, <1>7, <1>8
  DEF Next, RequestStep, CreateRequest, EditRequest, Reject, Reopen,
      SetResourceStatus, vars

\* No decision removes a reservation, revives a cancelled one or rewrites what
\* it says.
THEOREM ReservationsAreAHistory == Spec => HistoryKept
<1>1. TypeOK /\ [Next]_vars => [KeepsHistory]_reservation
  BY StepsKeepHistory
<1>2. QED
  BY <1>1, TypeCorrect, PTL DEF Spec, HistoryKept

-----------------------------------------------------------------------------
(* Approved requests and their slots                                       *)

Owners == {NoRequest} \union DOMAIN request

\* The inductive invariant: a request that is not in the table yet holds no
\* slot, or it would be created with one.
SlotsInv == OwnedBy(reservation, Owners) /\ ApprovedHoldsSlots

\* It holds whatever is imported, approved, amended, released slot by slot,
\* cancelled and reopened.
LEMMA SlotsInvariant == Spec => []SlotsInv
<1>1. Init => SlotsInv
  BY DEF Init, SlotsInv, OwnedBy, ApprovedHoldsSlots
<1>2. SlotsInv /\ TypeOK /\ TypeOK' /\ [Next]_vars => SlotsInv'
  <2> SUFFICES ASSUME SlotsInv, TypeOK, TypeOK', [Next]_vars
               PROVE  SlotsInv'
    OBVIOUS
  <2>0. /\ request \in Seq(RequestRow)
        /\ DOMAIN request = 1 .. Len(request) /\ Len(request) \in Nat
        /\ reservation \in Seq(ReservationRow)
    BY LenProperties DEF TypeOK
  <2>p. \A q \in DOMAIN request :
          request[q] \in RequestRow /\ request[q].period \in Period
    <3>1. \A q \in DOMAIN request : request[q] \in RequestRow
      BY <2>0, ElementOfSeq
    <3>2. QED
      BY <3>1 DEF RequestRow
  <2>h. /\ OwnedBy(reservation, Owners)
        /\ \A q \in DOMAIN request :
             request[q].status = "APPROVED" <=> HoldsActiveSlot(reservation, q)
    BY DEF SlotsInv, ApprovedHoldsSlots
  <2>n. \A q \in DOMAIN request : q # NoRequest /\ q \in Nat
    BY <2>0 DEF NoRequest
  \* The slots stay; one request may change, but not between APPROVED and others.
  <2>s. ASSUME reservation' = reservation,
               DOMAIN request' = DOMAIN request,
               \A j \in DOMAIN request :
                 request'[j].status = "APPROVED" <=> request[j].status = "APPROVED"
        PROVE  SlotsInv'
    BY <2>h, <2>s DEF SlotsInv, ApprovedHoldsSlots, Owners, OwnedBy
  \* A new row at the end of the request table.
  <2>a. ASSUME NEW row, request' = Append(request, row)
        PROVE  LET q == Len(request) + 1
               IN  /\ DOMAIN request' = 1 .. q /\ q \in Nat
                   /\ q \notin Owners
                   /\ request'[q] = row
                   /\ \A j \in DOMAIN request : request'[j] = request[j] /\ j # q
                   /\ \A j \in DOMAIN request' : j = q \/ j \in DOMAIN request
                   /\ ~ HoldsActiveSlot(reservation, q)
    <3> DEFINE q == Len(request) + 1
    <3>1. q \notin Owners
      BY <2>0 DEF Owners, NoRequest
    <3>2. ~ HoldsActiveSlot(reservation, q)
      BY <2>h, <3>1 DEF OwnedBy, HoldsActiveSlot
    <3>3. QED
      BY <2>0, <2>a, <3>1, <3>2
  <2>1. ASSUME NEW p \in Periods, NEW rid \in ResponseId \union {NoResponseId},
               CreateRequest(p, rid)
        PROVE  SlotsInv'
    <3>1. request' = Append(request, NewRequest(p, rid)) /\ reservation' = reservation
      BY <2>1 DEF CreateRequest
    <3>2. NewRequest(p, rid).status # "APPROVED"
      BY DEF NewRequest
    <3>3. OwnedBy(reservation, Owners')
      BY <2>a, <2>h, <3>1 DEF OwnedBy, Owners
    <3>4. QED
      BY <2>a, <2>h, <3>1, <3>2, <3>3 DEF SlotsInv, ApprovedHoldsSlots
  <2>2. ASSUME NEW p \in Periods, NEW rid \in ResponseId \union {NoResponseId},
               NEW r \in Resource, ImportApproved(p, rid, r)
        PROVE  SlotsInv'
    <3> DEFINE q == Len(request) + 1
               slots == ExpandSlots(p)
               conflicts == SlotConflicts(reservation, r, slots, q)
               rows == BookingRows(q, r, slots, conflicts)
               row == [NewRequest(p, rid) EXCEPT !.assigned = r, !.status = "APPROVED"]
    <3>1. /\ request' = Append(request, row)
          /\ reservation' = reservation \o rows
          /\ slots # << >>
      BY <2>2 DEF ImportApproved
    <3>2. row.status = "APPROVED"
      BY DEF NewRequest
    <3>3. p \in Period /\ q \in Nat
      BY <2>0, InputAssumption
    <3>4. rows \in Seq(ReservationRow)
      BY <3>3, RowsForPeriod
    <3> HIDE DEF conflicts, row, q
    <3>5. OwnedBy(rows, {q}) /\ \A o : HoldsActiveSlot(rows, o) <=> o = q
      BY <3>1, <3>3, BookedSlots
    <3> HIDE DEF rows, slots
    <3>6. \A o : HoldsActiveSlot(reservation', o)
                   <=> HoldsActiveSlot(reservation, o) \/ o = q
      BY <2>0, <3>1, <3>4, <3>5, ConcatSlots
    <3>7. OwnedBy(reservation, Owners') /\ OwnedBy(rows, Owners')
      BY <2>a, <2>h, <3>1, <3>5 DEF OwnedBy, Owners, q
    <3>8. OwnedBy(reservation', Owners')
      BY <2>0, <3>1, <3>4, <3>7, ConcatSlots
    <3>9. QED
      BY <2>a, <2>h, <3>1, <3>2, <3>6, <3>8 DEF SlotsInv, ApprovedHoldsSlots, q
  <2>3. ASSUME NEW q \in DOMAIN request, NEW p \in Periods,
               NEW rid \in ResponseId \union {NoResponseId},
               NEW r \in Resource \union {NoResource}, EditRequest(q, p, rid, r)
        PROVE  SlotsInv'
    <3>p. p \in Period /\ request[q] \in RequestRow
      BY <2>p, InputAssumption
    <3>1. WithFields(request[q], p, rid, r).status = request[q].status
      BY <3>p, WithFieldsType
    <3>2. QED
      BY <2>3, <2>s, <3>1 DEF EditRequest
  \* Request q comes out APPROVED, with new rows; old is what is kept of the table.
  <2>b. ASSUME NEW q \in DOMAIN request, NEW p \in Period, ExpandSlots(p) # << >>,
               NEW r \in Resource, NEW conflicts, NEW old \in Seq(ReservationRow),
               OwnedBy(old, Owners),
               \A o \in DOMAIN request \ {q} :
                 HoldsActiveSlot(old, o) <=> HoldsActiveSlot(reservation, o),
               reservation' = old \o BookingRows(q, r, ExpandSlots(p), conflicts),
               DOMAIN request' = DOMAIN request,
               request'[q].status = "APPROVED",
               \A j \in DOMAIN request \ {q} : request'[j] = request[j]
        PROVE  SlotsInv'
    <3> DEFINE rows == BookingRows(q, r, ExpandSlots(p), conflicts)
    <3>1. rows \in Seq(ReservationRow)
      BY <2>n, RowsForPeriod
    <3>2. OwnedBy(rows, {q}) /\ \A o : HoldsActiveSlot(rows, o) <=> o = q
      BY <2>b, <2>n, BookedSlots
    <3>3. reservation' = old \o rows
      BY <2>b
    <3> HIDE DEF rows
    <3>4. OwnedBy(rows, Owners)
      BY <3>2 DEF OwnedBy, Owners
    <3>5. OwnedBy(reservation', Owners)
      BY <2>b, <3>1, <3>3, <3>4, ConcatSlots
    <3>6. \A o : HoldsActiveSlot(reservation', o) <=> HoldsActiveSlot(old, o) \/ o = q
      BY <3>1, <3>2, <3>3, ConcatSlots
    <3>7. QED
      BY <2>b, <2>h, <3>5, <3>6 DEF SlotsInv, ApprovedHoldsSlots, Owners
  <2>4. ASSUME NEW q \in DOMAIN request, NEW p \in Periods,
               NEW rid \in ResponseId \union {NoResponseId},
               NEW r \in Resource, NEW allow \in BOOLEAN, Amend(q, p, rid, r, allow)
        PROVE  SlotsInv'
    <3> DEFINE slots == ExpandSlots(p)
               old == Released(reservation, q)
    <3>1. /\ request[q].status = "APPROVED"
          /\ slots # << >>
          /\ reservation' = old \o BookingRows(q, r, slots,
                                               SlotConflicts(reservation, r, slots, q))
          /\ request' = [request EXCEPT ![q] = WithFields(request[q], p, rid, r)]
      BY <2>4 DEF Amend
    <3>2. WithFields(request[q], p, rid, r).status = request[q].status
      BY <2>p, InputAssumption, WithFieldsType
    <3>3. old \in Seq(ReservationRow)
      BY <2>0, ReleasedType
    <3>4. OwnedBy(old, Owners)
      BY <2>0, <2>h, ReleasedSlots
    <3>5. \A o \in DOMAIN request \ {q} :
            HoldsActiveSlot(old, o) <=> HoldsActiveSlot(reservation, o)
      BY <2>0, ReleasedSlots
    <3>6. /\ DOMAIN request' = DOMAIN request
          /\ request'[q].status = "APPROVED"
          /\ \A j \in DOMAIN request \ {q} : request'[j] = request[j]
      BY <3>1, <3>2
    <3>7. p \in Period
      BY InputAssumption
    <3> HIDE DEF old
    <3>8. QED
      BY <2>b, <3>1, <3>3, <3>4, <3>5, <3>6, <3>7
  <2>5. ASSUME NEW q \in DOMAIN request, NEW r \in Resource, NEW allow \in BOOLEAN,
               Approve(q, r, allow)
        PROVE  SlotsInv'
    <3> DEFINE slots == ExpandSlots(request[q].period)
    <3>1. /\ slots # << >>
          /\ reservation' = reservation \o
               BookingRows(q, r, slots, SlotConflicts(reservation, r, slots, q))
          /\ request' = [request EXCEPT ![q].assigned = r, ![q].status = "APPROVED"]
      BY <2>5 DEF Approve
    <3>2. /\ DOMAIN request' = DOMAIN request
          /\ \A j \in DOMAIN request \ {q} : request'[j] = request[j]
      BY <3>1
    <3>3. request'[q].status = "APPROVED"
      BY <2>p, <3>1 DEF RequestRow
    <3>4. QED
      BY <2>0, <2>b, <2>h, <2>p, <3>1, <3>2, <3>3
  <2>6. ASSUME NEW q \in DOMAIN request, Reject(q)
        PROVE  SlotsInv'
    <3>1. /\ DOMAIN request' = DOMAIN request
          /\ request[q].status = "PENDING" /\ request'[q].status = "REJECTED"
          /\ \A j \in DOMAIN request \ {q} : request'[j] = request[j]
      BY <2>p, <2>6 DEF Reject, WithStatus, RequestRow
    <3>2. QED
      BY <2>6, <2>s, <3>1 DEF Reject
  <2>7. ASSUME NEW q \in DOMAIN request, Cancel(q)
        PROVE  SlotsInv'
    <3>1. /\ DOMAIN request' = DOMAIN request
          /\ request'[q].status = "CANCELLED"
          /\ \A j \in DOMAIN request \ {q} : request'[j] = request[j]
      BY <2>p, <2>7 DEF Cancel, WithStatus, RequestRow
    <3>2. /\ OwnedBy(reservation', Owners)
          /\ \A o : HoldsActiveSlot(reservation', o)
                      <=> o # q /\ HoldsActiveSlot(reservation, o)
      BY <2>0, <2>7, <2>h, ReleasedSlots DEF Cancel
    <3>3. QED
      BY <2>h, <3>1, <3>2 DEF SlotsInv, ApprovedHoldsSlots, Owners
  <2>8. ASSUME NEW q \in DOMAIN request, Reopen(q)
        PROVE  SlotsInv'
    <3>1. /\ DOMAIN request' = DOMAIN request
          /\ request[q].status \in ClosedStatus /\ request'[q].status = "PENDING"
          /\ \A j \in DOMAIN request \ {q} : request'[j] = request[j]
      BY <2>p, <2>8 DEF Reopen, WithStatus, RequestRow
    <3>2. QED
      BY <2>8, <2>s, <3>1 DEF Reopen, ClosedStatus
  <2>9. ASSUME NEW i \in DOMAIN reservation, CancelReservation(i)
        PROVE  SlotsInv'
    <3> DEFINE q == reservation[i].request
    <3>1. /\ ActiveRow(reservation[i])
          /\ reservation' = [reservation EXCEPT ![i].status = "CANCELLED"]
          /\ request' = ReleasingClosesRequest(q, reservation')
      BY <2>9 DEF CancelReservation
    <3>2. \A j \in DOMAIN reservation : reservation[j] \in ReservationRow
      BY <2>0, LenProperties, ElementOfSeq
    <3>3. /\ DOMAIN reservation' = DOMAIN reservation
          /\ \A j \in DOMAIN reservation : reservation'[j].request = reservation[j].request
          /\ \A j \in DOMAIN reservation \ {i} : reservation'[j] = reservation[j]
      BY <3>1, <3>2 DEF ReservationRow
    <3>4. \A o : o # q => (HoldsActiveSlot(reservation', o)
                            <=> HoldsActiveSlot(reservation, o))
      BY <3>3 DEF HoldsActiveSlot
    <3>5. HoldsActiveSlot(reservation, q)
      BY <3>1 DEF HoldsActiveSlot
    <3>6. q \in Owners
      BY <2>h DEF OwnedBy
    <3>7. OwnedBy(reservation', Owners)
      BY <2>h, <3>3 DEF OwnedBy
    <3>8. CASE q = NoRequest
      <4>1. request' = request
        BY <3>1, <3>8 DEF ReleasingClosesRequest
      <4>2. QED
        BY <2>h, <2>n, <3>4, <3>7, <3>8, <4>1 DEF SlotsInv, ApprovedHoldsSlots, Owners
    <3>9. CASE q \in DOMAIN request
      <4>1. request[q].status = "APPROVED"
        BY <2>h, <3>5, <3>9
      <4>2. CASE HoldsActiveSlot(reservation', q)
        <5>1. request' = request
          BY <3>1, <4>2 DEF ReleasingClosesRequest
        <5>2. QED
          BY <2>h, <3>4, <3>7, <4>1, <4>2, <5>1 DEF SlotsInv, ApprovedHoldsSlots, Owners
      <4>3. CASE ~ HoldsActiveSlot(reservation', q)
        <5>1. request' = WithStatus(request, q, "CANCELLED")
          BY <2>n, <3>1, <3>9, <4>1, <4>3 DEF ReleasingClosesRequest
        <5>2. /\ DOMAIN request' = DOMAIN request
              /\ request'[q].status = "CANCELLED"
              /\ \A j \in DOMAIN request \ {q} : request'[j] = request[j]
          BY <2>p, <3>9, <5>1 DEF WithStatus, RequestRow
        <5>3. QED
          BY <2>h, <3>4, <3>7, <4>3, <5>2 DEF SlotsInv, ApprovedHoldsSlots, Owners
      <4>4. QED
        BY <4>2, <4>3
    <3>10. QED
      BY <3>6, <3>8, <3>9 DEF Owners
  \* Entries of no request are added.
  <2>e. ASSUME NEW rows \in Seq(ReservationRow),
               \A k \in DOMAIN rows : rows[k].request = NoRequest,
               reservation' = reservation \o rows, request' = request
        PROVE  SlotsInv'
    <3>1. /\ OwnedBy(rows, {NoRequest})
          /\ \A q \in DOMAIN request : ~ HoldsActiveSlot(rows, q)
      BY <2>e, <2>n DEF OwnedBy, HoldsActiveSlot
    <3>2. OwnedBy(rows, Owners)
      BY <3>1 DEF OwnedBy, Owners
    <3>3. OwnedBy(reservation', Owners)
      BY <2>0, <2>e, <2>h, <3>2, ConcatSlots
    <3>4. \A q \in DOMAIN request : HoldsActiveSlot(reservation', q)
                                      <=> HoldsActiveSlot(reservation, q)
      BY <2>0, <2>e, <3>1, ConcatSlots
    <3>5. QED
      BY <2>e, <2>h, <3>3, <3>4 DEF SlotsInv, ApprovedHoldsSlots, Owners
  <2>10. ASSUME NEW r \in Resource, NEW source \in EntrySources,
                NEW interval \in EntryTimes, CreateManual(r, source, interval)
         PROVE  SlotsInv'
    <3> DEFINE row == EntryRow(r, source, interval)
               rows == <<row>>
    <3>1. row \in ReservationRow
      BY InputAssumption, EntryRowType
    <3>2. row.request = NoRequest
      BY DEF EntryRow
    <3>3. reservation' = reservation \o rows /\ request' = request
      BY <2>10 DEF CreateManual
    <3> HIDE DEF row
    <3>4. /\ rows \in Seq(ReservationRow)
          /\ \A k \in DOMAIN rows : rows[k].request = NoRequest
      BY <3>1, <3>2
    <3> HIDE DEF rows
    <3>5. QED
      BY <2>e, <3>2, <3>3, <3>4
  <2>11. ASSUME NEW robots \in RobotLists, NEW lessons \in LessonBatches,
                ImportLessons(robots, lessons)
         PROVE  SlotsInv'
    <3> DEFINE rows == LessonRows(robots, lessons)
    <3>1. reservation' = reservation \o rows /\ request' = request
      BY <2>11 DEF ImportLessons
    <3>2. rows \in Seq(ReservationRow)
      BY <2>11, InputAssumption, LessonRowsType DEF ImportLessons
    <3>3. \A k \in DOMAIN rows : rows[k].request = NoRequest
      BY DEF LessonRows, EntryRow
    <3> HIDE DEF rows
    <3>4. QED
      BY <2>e, <3>1, <3>2, <3>3
  <2>12. CASE UNCHANGED <<request, reservation>>
    BY <2>12, <2>s
  <2>13. QED
    BY <2>1, <2>2, <2>3, <2>4, <2>5, <2>6, <2>7, <2>8, <2>9, <2>10, <2>11, <2>12
    DEF Next, RequestStep, SetResourceStatus, vars
<1>3. QED
  BY <1>1, <1>2, TypeCorrect, PTL DEF Spec

\* A request is APPROVED exactly while it holds a slot, whatever is imported,
\* approved, amended, released slot by slot, cancelled and reopened.
THEOREM ApprovedExactlyWithSlots == Spec => []ApprovedHoldsSlots
<1>1. SlotsInv => ApprovedHoldsSlots
  BY DEF SlotsInv
<1>2. QED
  BY <1>1, SlotsInvariant, PTL

=============================================================================
