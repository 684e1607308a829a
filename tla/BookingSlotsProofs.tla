-------------------------- MODULE BookingSlotsProofs --------------------------
(***************************************************************************)
(* What BookingService promises about the calendar, for every set of       *)
(* robots, forms, timetables and bounds: nothing overlaps in silence, no   *)
(* request holds a session twice, the slots held are those asked for, and  *)
(* a decision books all or nothing.                                        *)
(***************************************************************************)
EXTENDS BookingServiceProofs

-----------------------------------------------------------------------------
(* What a decision can be                                                  *)

\* The row booked for slot k of period p.
BookedRow(q, p, r, k) ==
  LET slots == ExpandSlots(p)
  IN  [resource |-> r, source |-> "BOOKING", request |-> q,
       start |-> slots[k].start, end |-> slots[k].end, status |-> "ACTIVE",
       note |-> SlotConflicts(reservation, r, slots, q)[k] # {}]

\* Request q is given the slots of period p on robot r, and loses what it held.
Books(q, p, r) ==
  LET n == Len(reservation)
  IN  /\ p \in Period /\ r \in Resource
      /\ ExpandSlots(p) # << >>
      /\ resourceStatus[r] = "Active"
      /\ q # NoRequest /\ q \in DOMAIN request'
      /\ request'[q].status = "APPROVED"
      /\ request'[q].period = p /\ request'[q].assigned = r
      /\ \A o \in DOMAIN request \ {q} : o \in DOMAIN request' /\ request'[o] = request[o]
      /\ \A i \in DOMAIN reservation :
           /\ i \in DOMAIN reservation'
           /\ reservation'[i] = Released(reservation, q)[i]
      /\ \A k \in DOMAIN ExpandSlots(p) :
           n + k \in DOMAIN reservation' /\ reservation'[n + k] = BookedRow(q, p, r, k)
      /\ \A i \in DOMAIN reservation' \ DOMAIN reservation :
           i - n \in DOMAIN ExpandSlots(p)

\* Some slots are released, or none; no holder of a slot is moved.
Releases ==
  /\ DOMAIN reservation' = DOMAIN reservation
  /\ \A i \in DOMAIN reservation :
       reservation'[i] \in {reservation[i],
                            [reservation[i] EXCEPT !.status = "CANCELLED"]}
  /\ \A q \in DOMAIN request :
       /\ q \in DOMAIN request'
       /\ HoldsActiveSlot(reservation', q)
            => /\ request'[q].period = request[q].period
               /\ request'[q].assigned = request[q].assigned

\* Entries of no request are added: one where nothing is in the way, or lessons.
Enters(rows) ==
  LET n == Len(reservation)
  IN  /\ request' = request
      /\ \A i \in DOMAIN reservation :
           i \in DOMAIN reservation' /\ reservation'[i] = reservation[i]
      /\ \A j \in DOMAIN reservation' \ DOMAIN reservation :
           j - n \in DOMAIN rows /\ reservation'[j] = rows[j - n]
      /\ \A k \in DOMAIN rows : rows[k].request = NoRequest
      /\ \/ \A k \in DOMAIN rows : rows[k].source = "LESSON"
         \/ /\ DOMAIN rows = {1}
            /\ \A i \in DOMAIN reservation :
                 ActiveRow(reservation[i]) /\ reservation[i].resource = rows[1].resource
                   => ~ Overlaps(reservation[i], rows[1])

\* The two tables after a booking, row by row.
LEMMA BookingShape ==
  ASSUME TypeOK, NEW q \in Nat, NEW p \in Period, NEW r \in Resource,
         q # NoRequest, q \in DOMAIN request',
         ExpandSlots(p) # << >>, resourceStatus[r] = "Active",
         request'[q].status = "APPROVED",
         request'[q].period = p, request'[q].assigned = r,
         \A o \in DOMAIN request \ {q} : o \in DOMAIN request' /\ request'[o] = request[o],
         reservation' = Released(reservation, q) \o
           BookingRows(q, r, ExpandSlots(p),
                       SlotConflicts(reservation, r, ExpandSlots(p), q))
  PROVE  Books(q, p, r)
<1>. DEFINE slots == ExpandSlots(p)
            old   == Released(reservation, q)
            rows  == BookingRows(q, r, slots, SlotConflicts(reservation, r, slots, q))
            n     == Len(reservation)
            m     == Len(slots)
<1>1. /\ slots \in Seq(Slot) /\ m \in Nat /\ DOMAIN slots = 1 .. m
      /\ reservation \in Seq(ReservationRow) /\ n \in Nat /\ DOMAIN reservation = 1 .. n
  BY ExpandSlotsType, LenProperties DEF TypeOK
<1>2. old \in Seq(ReservationRow) /\ Len(old) = n
  BY <1>1, ReleasedType
<1>3. /\ rows \in Seq(ReservationRow) /\ Len(rows) = m
      /\ \A k \in 1 .. m : rows[k] = BookedRow(q, p, r, k)
  <2>. DEFINE conflicts == SlotConflicts(reservation, r, slots, q)
  <2>1. \A k \in 1 .. m :
          BookedRow(q, p, r, k) =
            [resource |-> r, source |-> "BOOKING", request |-> q,
             start |-> slots[k].start, end |-> slots[k].end,
             status |-> "ACTIVE", note |-> conflicts[k] # {}]
    BY Zenon DEF BookedRow
  <2>2. rows \in Seq(ReservationRow)
    BY RowsForPeriod
  <2>3. /\ DOMAIN rows = DOMAIN slots
        /\ \A k \in DOMAIN slots :
             rows[k] = [resource |-> r, source |-> "BOOKING", request |-> q,
                        start |-> slots[k].start, end |-> slots[k].end,
                        status |-> "ACTIVE", note |-> conflicts[k] # {}]
    BY Zenon DEF BookingRows
  <2>. HIDE DEF conflicts, slots, rows
  <2>4. Len(rows) = m
    BY <1>1, <2>2, <2>3, LenProperties
  <2>. QED
    BY <1>1, <2>1, <2>2, <2>3, <2>4
<1>4. reservation' = old \o rows
  OBVIOUS
<1>. HIDE DEF old, rows, n, m, slots
<1>5. /\ DOMAIN reservation' = 1 .. n + m
      /\ \A i \in 1 .. n + m :
           reservation'[i] = IF i <= n THEN old[i] ELSE rows[i - n]
  BY <1>1, <1>2, <1>3, <1>4, ConcatProperties, LenProperties
<1>6. \A i \in DOMAIN reservation :
        i \in DOMAIN reservation' /\ reservation'[i] = old[i]
  BY <1>1, <1>5
<1>7. ASSUME NEW k \in DOMAIN slots
      PROVE  n + k \in DOMAIN reservation' /\ reservation'[n + k] = BookedRow(q, p, r, k)
  <2>1. n + k \in 1 .. n + m /\ ~ (n + k <= n) /\ (n + k) - n = k
    BY <1>1
  <2>. QED
    BY <1>1, <1>3, <1>5, <2>1
<1>8. \A i \in DOMAIN reservation' \ DOMAIN reservation : i - n \in DOMAIN slots
  BY <1>1, <1>5
<1>. QED
  BY <1>6, <1>7, <1>8 DEF Books, old, n, slots

\* The same for entries.
LEMMA EntryShape ==
  ASSUME TypeOK, NEW rows \in Seq(ReservationRow), request' = request,
         reservation' = reservation \o rows,
         \A k \in DOMAIN rows : rows[k].request = NoRequest,
         \/ \A k \in DOMAIN rows : rows[k].source = "LESSON"
         \/ /\ DOMAIN rows = {1}
            /\ \A i \in DOMAIN reservation :
                 ActiveRow(reservation[i]) /\ reservation[i].resource = rows[1].resource
                   => ~ Overlaps(reservation[i], rows[1])
  PROVE  Enters(rows)
<1>. DEFINE n == Len(reservation)
            m == Len(rows)
<1>1. /\ reservation \in Seq(ReservationRow) /\ n \in Nat /\ DOMAIN reservation = 1 .. n
      /\ m \in Nat /\ DOMAIN rows = 1 .. m
  BY LenProperties DEF TypeOK
<1>. HIDE DEF n, m
<1>2. /\ DOMAIN reservation' = 1 .. n + m
      /\ \A i \in 1 .. n + m :
           reservation'[i] = IF i <= n THEN reservation[i] ELSE rows[i - n]
  BY <1>1, ConcatProperties, LenProperties DEF n, m
<1>3. \A i \in DOMAIN reservation :
        i \in DOMAIN reservation' /\ reservation'[i] = reservation[i]
  BY <1>1, <1>2
<1>4. \A j \in DOMAIN reservation' \ DOMAIN reservation :
        j - n \in DOMAIN rows /\ reservation'[j] = rows[j - n]
  BY <1>1, <1>2
<1>. QED
  BY <1>3, <1>4 DEF Enters, n

\* No request other than those in the table holds a slot.
LEMMA StrangersHoldNothing ==
  ASSUME SlotsInv, NEW q, q \notin Owners
  PROVE  ~ HoldsActiveSlot(reservation, q)
BY DEF SlotsInv, OwnedBy, HoldsActiveSlot

\* Nothing happens to the calendar but a release, a whole booking or an entry.
LEMMA EveryStep ==
  ASSUME TypeOK, SlotsInv, [Next]_vars
  PROVE  \/ Releases
         \/ \E q \in Nat, p \in Period, r \in Resource : Books(q, p, r)
         \/ \E rows : Enters(rows)
<1>. DEFINE Goal == \/ Releases
                    \/ \E q \in Nat, p \in Period, r \in Resource : Books(q, p, r)
                    \/ \E rows : Enters(rows)
<1>0. /\ request \in Seq(RequestRow) /\ reservation \in Seq(ReservationRow)
      /\ DOMAIN request = 1 .. Len(request) /\ Len(request) \in Nat
      /\ DOMAIN reservation = 1 .. Len(reservation)
      /\ \A q \in DOMAIN request : request[q] \in RequestRow
      /\ \A i \in DOMAIN reservation : reservation[i] \in ReservationRow
  BY LenProperties, ElementOfSeq DEF TypeOK
<1>p. /\ \A q \in DOMAIN request : request[q].period \in Period
      /\ \A q \in DOMAIN request : q \in Nat /\ q # NoRequest
      /\ \A p \in Periods : p \in Period
  BY <1>0, InputAssumption DEF RequestRow, NoRequest
<1>h. \A q \in DOMAIN request :
        request[q].status # "APPROVED" => ~ HoldsActiveSlot(reservation, q)
  BY DEF SlotsInv, ApprovedHoldsSlots
\* One request that holds no slot changes, or a new one is added.
<1>s. ASSUME reservation' = reservation,
             \A q \in DOMAIN request : q \in DOMAIN request',
             \A q \in DOMAIN request :
               HoldsActiveSlot(reservation, q) => request'[q] = request[q]
      PROVE  Goal
  <2>1. Releases
    BY <1>s DEF Releases
  <2>. QED
    BY <2>1
<1>1. ASSUME NEW p \in Periods, NEW rid \in ResponseId \union {NoResponseId},
             CreateRequest(p, rid)
      PROVE  Goal
  <2>1. request' = Append(request, NewRequest(p, rid)) /\ reservation' = reservation
    BY <1>1 DEF CreateRequest
  <2>. HIDE DEF Goal
  <2>. QED
    BY <1>0, <1>s, <2>1
<1>2. ASSUME NEW p \in Periods, NEW rid \in ResponseId \union {NoResponseId},
             NEW r \in Resource, ImportApproved(p, rid, r)
      PROVE  Goal
  <2>. DEFINE q == Len(request) + 1
              row == [NewRequest(p, rid) EXCEPT !.assigned = r, !.status = "APPROVED"]
              rows == BookingRows(q, r, ExpandSlots(p),
                                  SlotConflicts(reservation, r, ExpandSlots(p), q))
  <2>1. /\ ExpandSlots(p) # << >> /\ resourceStatus[r] = "Active"
        /\ request' = Append(request, row)
        /\ reservation' = reservation \o rows
    BY <1>2 DEF ImportApproved
  <2>2. row.status = "APPROVED" /\ row.period = p /\ row.assigned = r
    BY DEF NewRequest
  <2>3. q \in Nat /\ q # NoRequest /\ q \notin Owners
    BY <1>0 DEF Owners, NoRequest
  <2>4. Released(reservation, q) = reservation
    BY <1>0, <2>3, StrangersHoldNothing, NothingToRelease
  <2>. HIDE DEF row
  <2>5. /\ q \in DOMAIN request' /\ request'[q] = row
        /\ \A o \in DOMAIN request \ {q} : o \in DOMAIN request' /\ request'[o] = request[o]
    BY <1>0, <2>1
  <2>6. Books(q, p, r)
    <3>1. reservation' = Released(reservation, q) \o rows
      BY <2>1, <2>4, Zenon
    <3>. HIDE DEF q
    <3>. QED
      BY <1>p, <2>1, <2>2, <2>3, <2>5, <3>1, BookingShape
  <2>. QED
    BY <1>p, <2>3, <2>6
<1>3. ASSUME NEW q \in DOMAIN request, NEW p \in Periods,
             NEW rid \in ResponseId \union {NoResponseId},
             NEW r \in Resource \union {NoResource}, EditRequest(q, p, rid, r)
      PROVE  Goal
  <2>1. /\ request[q].status = "PENDING" /\ reservation' = reservation
        /\ DOMAIN request' = DOMAIN request
        /\ \A o \in DOMAIN request \ {q} : request'[o] = request[o]
    BY <1>3 DEF EditRequest
  <2>. HIDE DEF Goal
  <2>. QED
    BY <1>h, <1>s, <2>1
<1>4. ASSUME NEW q \in DOMAIN request, NEW p \in Periods,
             NEW rid \in ResponseId \union {NoResponseId},
             NEW r \in Resource, NEW allow \in BOOLEAN, Amend(q, p, rid, r, allow)
      PROVE  Goal
  <2>1. /\ request[q].status = "APPROVED"
        /\ ExpandSlots(p) # << >> /\ resourceStatus[r] = "Active"
        /\ reservation' = Released(reservation, q) \o
             BookingRows(q, r, ExpandSlots(p),
                         SlotConflicts(reservation, r, ExpandSlots(p), q))
        /\ request' = [request EXCEPT ![q] = WithFields(request[q], p, rid, r)]
    BY <1>4 DEF Amend
  <2>2. r # NoResource
    BY NullAssumption
  <2>3. /\ WithFields(request[q], p, rid, r).status = "APPROVED"
        /\ WithFields(request[q], p, rid, r).period = p
        /\ WithFields(request[q], p, rid, r).assigned = r
    <3>1. request[q] \in RequestRow /\ p \in Period
      BY <1>0, <1>p
    <3>. QED
      BY <2>1, <2>2, <3>1 DEF WithFields, RequestRow
  <2>4. /\ q \in DOMAIN request'
        /\ request'[q] = WithFields(request[q], p, rid, r)
        /\ \A o \in DOMAIN request \ {q} : o \in DOMAIN request' /\ request'[o] = request[o]
    BY <2>1
  <2>5. Books(q, p, r)
    BY <1>p, <2>1, <2>3, <2>4, BookingShape
  <2>. QED
    BY <1>p, <2>5
<1>5. ASSUME NEW q \in DOMAIN request, NEW r \in Resource, NEW allow \in BOOLEAN,
             Approve(q, r, allow)
      PROVE  Goal
  <2>. DEFINE p == request[q].period
              rows == BookingRows(q, r, ExpandSlots(p),
                                  SlotConflicts(reservation, r, ExpandSlots(p), q))
  <2>1. /\ request[q].status = "PENDING"
        /\ ExpandSlots(p) # << >> /\ resourceStatus[r] = "Active"
        /\ reservation' = reservation \o rows
        /\ request' = [request EXCEPT ![q].assigned = r, ![q].status = "APPROVED"]
    BY <1>5 DEF Approve
  <2>2. Released(reservation, q) = reservation
    BY <1>0, <1>h, <2>1, NothingToRelease
  <2>3. /\ q \in DOMAIN request'
        /\ request'[q].status = "APPROVED"
        /\ request'[q].period = p /\ request'[q].assigned = r
        /\ \A o \in DOMAIN request \ {q} : o \in DOMAIN request' /\ request'[o] = request[o]
    BY <1>0, <2>1 DEF RequestRow
  <2>4. reservation' = Released(reservation, q) \o rows
    BY <2>1, <2>2, Zenon
  <2>5. p \in Period
    BY <1>p
  <2>6. Books(q, p, r)
    BY <1>p, <2>1, <2>3, <2>4, <2>5, BookingShape
  <2>. QED
    BY <1>p, <2>5, <2>6
<1>6. ASSUME NEW q \in DOMAIN request, Reject(q)
      PROVE  Goal
  <2>1. /\ request[q].status = "PENDING" /\ reservation' = reservation
        /\ DOMAIN request' = DOMAIN request
        /\ \A o \in DOMAIN request \ {q} : request'[o] = request[o]
    BY <1>6 DEF Reject, WithStatus
  <2>. HIDE DEF Goal
  <2>. QED
    BY <1>h, <1>s, <2>1
<1>7. ASSUME NEW q \in DOMAIN request, Cancel(q)
      PROVE  Goal
  <2>1. /\ reservation' = Released(reservation, q)
        /\ DOMAIN request' = DOMAIN request
        /\ \A o \in DOMAIN request \ {q} : request'[o] = request[o]
    BY <1>7 DEF Cancel, WithStatus
  <2>2. ~ HoldsActiveSlot(reservation', q)
    BY <1>0, <2>1, ReleasedSlots
  <2>3. /\ DOMAIN reservation' = DOMAIN reservation
        /\ \A i \in DOMAIN reservation :
             reservation'[i] \in {reservation[i],
                                  [reservation[i] EXCEPT !.status = "CANCELLED"]}
    BY <2>1 DEF Released
  <2>4. Releases
    BY <2>1, <2>2, <2>3 DEF Releases
  <2>. QED
    BY <2>4
<1>8. ASSUME NEW q \in DOMAIN request, Reopen(q)
      PROVE  Goal
  <2>1. /\ request[q].status # "APPROVED" /\ reservation' = reservation
        /\ DOMAIN request' = DOMAIN request
        /\ \A o \in DOMAIN request \ {q} : request'[o] = request[o]
    BY <1>8 DEF Reopen, WithStatus, ClosedStatus
  <2>. HIDE DEF Goal
  <2>. QED
    BY <1>h, <1>s, <2>1
<1>9. ASSUME NEW i \in DOMAIN reservation, CancelReservation(i)
      PROVE  Goal
  <2>. DEFINE q == reservation[i].request
  <2>1. /\ reservation' = [reservation EXCEPT ![i].status = "CANCELLED"]
        /\ request' = ReleasingClosesRequest(q, reservation')
    BY <1>9 DEF CancelReservation
  <2>2. /\ DOMAIN reservation' = DOMAIN reservation
        /\ \A j \in DOMAIN reservation :
             reservation'[j] \in {reservation[j],
                                  [reservation[j] EXCEPT !.status = "CANCELLED"]}
    BY <2>1
  <2>. HIDE DEF q
  <2>3. /\ DOMAIN request' = DOMAIN request
        /\ \A o \in DOMAIN request :
             HoldsActiveSlot(reservation', o) => request'[o] = request[o]
    BY <2>1 DEF ReleasingClosesRequest, WithStatus
  <2>4. Releases
    BY <2>2, <2>3 DEF Releases
  <2>. QED
    BY <2>4
<1>10. ASSUME NEW r \in Resource, NEW source \in EntrySources,
              NEW interval \in EntryTimes, CreateManual(r, source, interval)
       PROVE  Goal
  <2>. DEFINE row == EntryRow(r, source, interval)
              rows == <<row>>
  <2>1. /\ reservation' = reservation \o rows /\ request' = request
        /\ {i \in ActiveReservations(reservation, r, interval.start,
                                     interval.end, NoRequest) :
              Overlaps(interval, reservation[i])} = {}
    BY <1>10 DEF CreateManual
  <2>2. /\ row \in ReservationRow /\ row.request = NoRequest /\ row.resource = r
        /\ row.start = interval.start /\ row.end = interval.end
    <3>1. row \in ReservationRow
      BY InputAssumption, EntryRowType
    <3>. QED
      BY <3>1 DEF EntryRow
  <2>3. interval \in Slot
    BY InputAssumption
  <2>4. ASSUME NEW i \in DOMAIN reservation, ActiveRow(reservation[i]),
               reservation[i].resource = r, Overlaps(reservation[i], row)
        PROVE  FALSE
    <3>1. /\ reservation[i].start < interval.end
          /\ reservation[i].end > interval.start
      BY <2>2, <2>4 DEF Overlaps
    <3>2. /\ interval.start < reservation[i].end
          /\ interval.end > reservation[i].start
      BY <1>0, <2>3, <3>1 DEF ReservationRow, Slot
    <3>3. i \in ActiveReservations(reservation, r, interval.start, interval.end, NoRequest)
      BY <2>4, <3>1 DEF ActiveReservations
    <3>. QED
      BY <2>1, <3>2, <3>3 DEF Overlaps
  <2>. HIDE DEF row
  <2>5. /\ rows \in Seq(ReservationRow) /\ DOMAIN rows = {1} /\ rows[1] = row
    BY <2>2
  <2>. HIDE DEF rows
  <2>6. Enters(rows)
    BY <2>1, <2>2, <2>4, <2>5, EntryShape
  <2>. QED
    BY <2>6
<1>11. ASSUME NEW robots \in RobotLists, NEW lessons \in LessonBatches,
              ImportLessons(robots, lessons)
       PROVE  Goal
  <2>. DEFINE rows == LessonRows(robots, lessons)
  <2>1. reservation' = reservation \o rows /\ request' = request
    BY <1>11 DEF ImportLessons
  <2>2. rows \in Seq(ReservationRow)
    BY <1>11, InputAssumption, LessonRowsType DEF ImportLessons
  <2>3. \A k \in DOMAIN rows : rows[k].request = NoRequest /\ rows[k].source = "LESSON"
    BY DEF LessonRows, EntryRow
  <2>. HIDE DEF rows
  <2>4. Enters(rows)
    BY <2>1, <2>2, <2>3, EntryShape
  <2>. QED
    BY <2>4
<1>12. ASSUME UNCHANGED <<request, reservation>>
       PROVE  Goal
  <2>1. reservation' = reservation /\ request' = request
    BY <1>12
  <2>. HIDE DEF Goal
  <2>. QED
    BY <1>s, <2>1
<1>. HIDE DEF Goal
<1>13. Goal
  BY <1>1, <1>2, <1>3, <1>4, <1>5, <1>6, <1>7, <1>8, <1>9, <1>10, <1>11, <1>12
  DEF Next, RequestStep, SetResourceStatus, vars
<1>. QED
  BY <1>13 DEF Goal

-----------------------------------------------------------------------------
(* Nothing overlaps in silence                                             *)

\* What a booking puts on the calendar, and what it leaves.
LEMMA BookingEffect ==
  ASSUME TypeOK, TypeOK', NEW q \in Nat, NEW p \in Period, NEW r \in Resource, Books(q, p, r)
  PROVE  LET n == Len(reservation)
             slots == ExpandSlots(p)
         IN  /\ n \in Nat /\ DOMAIN reservation = 1 .. n
             /\ DOMAIN slots \subseteq Nat \ {0}
             \* an old row is as it was, or released
             /\ \A i \in DOMAIN reservation :
                  /\ i \in DOMAIN reservation'
                  /\ ActiveRow(reservation'[i])
                       => /\ reservation'[i] = reservation[i]
                          /\ reservation[i].request # q
             \* a new row is a slot of the request
             /\ \A j \in DOMAIN reservation' \ DOMAIN reservation :
                  /\ j > n /\ j - n \in DOMAIN slots
                  /\ reservation'[j] = BookedRow(q, p, r, j - n)
             /\ \A k \in DOMAIN slots :
                  /\ n + k \in DOMAIN reservation'
                  /\ reservation'[n + k] = BookedRow(q, p, r, k)
<1>. DEFINE n == Len(reservation)
            slots == ExpandSlots(p)
<1>1. /\ n \in Nat /\ DOMAIN reservation = 1 .. n
      /\ \A i \in DOMAIN reservation : reservation[i] \in ReservationRow
  BY LenProperties, ElementOfSeq DEF TypeOK
<1>2. DOMAIN slots \subseteq Nat \ {0}
  BY SlotsByDay
<1>. HIDE DEF n, slots
<1>3. ASSUME NEW i \in DOMAIN reservation
      PROVE  /\ i \in DOMAIN reservation'
             /\ ActiveRow(reservation'[i])
                  => /\ reservation'[i] = reservation[i]
                     /\ reservation[i].request # q
  <2>1. i \in DOMAIN reservation' /\ reservation'[i] = Released(reservation, q)[i]
    BY DEF Books
  <2>2. reservation'[i] = IF reservation[i].request = q
                            THEN [reservation[i] EXCEPT !.status = "CANCELLED"]
                            ELSE reservation[i]
    BY <2>1 DEF Released
  <2>. QED
    BY <1>1, <2>1, <2>2 DEF ActiveRow, ReservationRow
<1>4. \A k \in DOMAIN slots :
        n + k \in DOMAIN reservation' /\ reservation'[n + k] = BookedRow(q, p, r, k)
  BY DEF Books, n, slots
<1>5. ASSUME NEW j \in DOMAIN reservation' \ DOMAIN reservation
      PROVE  /\ j > n /\ j - n \in DOMAIN slots
             /\ reservation'[j] = BookedRow(q, p, r, j - n)
  <2>1. j - n \in DOMAIN slots
    BY DEF Books, n, slots
  <2>2. j \in Int
    <3>1. DOMAIN reservation' = 1 .. Len(reservation') /\ Len(reservation') \in Nat
      BY LenProperties DEF TypeOK
    <3>. QED
      BY <3>1
  <2>3. n + (j - n) = j /\ j > n
    BY <1>1, <1>2, <2>1, <2>2
  <2>. QED
    BY <1>4, <2>1, <2>3
<1>. QED
  BY <1>1, <1>2, <1>3, <1>4, <1>5 DEF n, slots

\* The fields of the row booked for a slot.
LEMMA BookedRowFields ==
  ASSUME NEW q, NEW p, NEW r, NEW k
  PROVE  /\ BookedRow(q, p, r, k).start = ExpandSlots(p)[k].start
         /\ BookedRow(q, p, r, k).end = ExpandSlots(p)[k].end
         /\ BookedRow(q, p, r, k).resource = r
         /\ BookedRow(q, p, r, k).request = q
         /\ BookedRow(q, p, r, k).status = "ACTIVE"
         /\ BookedRow(q, p, r, k).note
              <=> SlotConflicts(reservation, r, ExpandSlots(p), q)[k] # {}
BY DEF BookedRow

\* A booking never overlaps itself, and a slot without a note overlaps nobody.
LEMMA BookingIsHeard ==
  ASSUME TypeOK, TypeOK', NEW q \in Nat, NEW p \in Period, NEW r \in Resource,
         Books(q, p, r),
         NEW j \in DOMAIN reservation' \ DOMAIN reservation, NEW i \in 1 .. j - 1,
         BothHeld(i, j)'
  PROVE  /\ i \in DOMAIN reservation
         /\ reservation[i].request # q
         /\ reservation'[j].note
<1>. DEFINE n == Len(reservation)
            slots == ExpandSlots(p)
            k == j - n
<1>1. /\ n \in Nat /\ DOMAIN reservation = 1 .. n
      /\ j > n /\ k \in DOMAIN slots /\ k \in Nat \ {0}
      /\ reservation'[j] = BookedRow(q, p, r, k)
  BY BookingEffect
<1>2. /\ reservation'[j].start = slots[k].start /\ reservation'[j].end = slots[k].end
      /\ reservation'[j].resource = r
      /\ reservation'[j].note <=> SlotConflicts(reservation, r, slots, q)[k] # {}
  BY <1>1, BookedRowFields
<1>3. /\ ActiveRow(reservation'[i]) /\ reservation'[i].resource = r
      /\ reservation'[i].start < reservation'[j].end
      /\ reservation'[i].end > reservation'[j].start
  BY <1>2 DEF BothHeld, Overlaps
<1>4. i \in DOMAIN reservation' /\ reservation'[i] \in ReservationRow
  <2>1. DOMAIN reservation' = 1 .. Len(reservation') /\ Len(reservation') \in Nat
    BY LenProperties DEF TypeOK
  <2>2. i \in 1 .. Len(reservation')
    BY <2>1
  <2>. QED
    BY <2>1, <2>2, ElementOfSeq DEF TypeOK
<1>5. i \in DOMAIN reservation
  <2>. SUFFICES ASSUME i \notin DOMAIN reservation PROVE FALSE
    OBVIOUS
  <2>1. /\ i - n \in DOMAIN slots /\ i - n < k
        /\ reservation'[i] = BookedRow(q, p, r, i - n)
    <3>1. i - n \in DOMAIN slots /\ reservation'[i] = BookedRow(q, p, r, i - n)
      BY <1>4, BookingEffect
    <3>2. i - n < k
      BY <1>1
    <3>. QED
      BY <3>1, <3>2
  <2>2. reservation'[i].end = slots[i - n].end
    BY <2>1, BookedRowFields
  <2>3. slots[i - n].end <= slots[k].start
    BY <1>1, <2>1, SlotsInOrder
  <2>4. slots[i - n].end \in Int /\ slots[k].start \in Int
    BY <1>1, <2>1, SlotsAreProper DEF Slot
  <2>. QED
    BY <1>2, <1>3, <2>2, <2>3, <2>4
<1>6. reservation'[i] = reservation[i] /\ reservation[i].request # q
  BY <1>3, <1>5, BookingEffect
<1>7. Overlaps(slots[k], reservation[i])
  <2>1. slots[k].start \in Int /\ slots[k].end \in Int
    BY <1>1, SlotsAreProper DEF Slot
  <2>2. reservation[i].start \in Int /\ reservation[i].end \in Int
    BY <1>4, <1>6 DEF ReservationRow
  <2>. HIDE DEF slots, k
  <2>. QED
    BY <1>2, <1>3, <1>6, <2>1, <2>2 DEF Overlaps
<1>8. i \in SlotConflicts(reservation, r, slots, q)[k]
  BY <1>1, <1>3, <1>5, <1>6, <1>7, ReportIsComplete DEF TypeOK
<1>. QED
  BY <1>2, <1>5, <1>6, <1>8

\* An entry that is no lesson overlaps nobody.
LEMMA EntryIsHeard ==
  ASSUME TypeOK, TypeOK', NEW rows, Enters(rows),
         NEW j \in DOMAIN reservation' \ DOMAIN reservation
  PROVE  /\ reservation'[j].request = NoRequest
         /\ \A i \in 1 .. j - 1 : BothHeld(i, j)' => reservation'[j].source = "LESSON"
<1>. DEFINE n == Len(reservation)
            k == j - n
<1>1. n \in Nat /\ DOMAIN reservation = 1 .. n
  BY LenProperties DEF TypeOK
<1>2. k \in DOMAIN rows /\ reservation'[j] = rows[k]
  BY DEF Enters
<1>3. /\ DOMAIN reservation' = 1 .. Len(reservation') /\ Len(reservation') \in Nat
      /\ j \in 1 .. Len(reservation')
      /\ \A i \in 1 .. Len(reservation') : reservation'[i] \in ReservationRow
  BY LenProperties, ElementOfSeq DEF TypeOK
<1>4. reservation'[j].request = NoRequest
  BY <1>2 DEF Enters
<1>5. ASSUME NEW i \in 1 .. j - 1, BothHeld(i, j)', rows[k].source # "LESSON"
      PROVE  FALSE
  <2>1. /\ DOMAIN rows = {1}
        /\ \A o \in DOMAIN reservation :
             ActiveRow(reservation[o]) /\ reservation[o].resource = rows[1].resource
               => ~ Overlaps(reservation[o], rows[1])
    BY <1>2, <1>5 DEF Enters
  <2>2. k = 1 /\ j = n + 1
    BY <1>1, <1>2, <1>3, <2>1
  <2>3. i \in DOMAIN reservation
    BY <1>1, <2>2
  <2>4. reservation'[i] = reservation[i]
    BY <2>3 DEF Enters
  <2>. QED
    BY <1>2, <1>5, <2>1, <2>2, <2>3, <2>4 DEF BothHeld
<1>. QED
  BY <1>2, <1>4, <1>5

\* Rows that were there before overlap only if they did before.
LEMMA OldOverlaps ==
  ASSUME TypeOK, TypeOK', SlotsInv, [Next]_vars,
         NEW j \in DOMAIN reservation, NEW i \in 1 .. j - 1, BothHeld(i, j)'
  PROVE  /\ BothHeld(i, j)
         /\ reservation'[i] = reservation[i] /\ reservation'[j] = reservation[j]
<1>1. /\ i \in DOMAIN reservation
      /\ \A o \in DOMAIN reservation : reservation[o] \in ReservationRow
  <2>1. DOMAIN reservation = 1 .. Len(reservation) /\ Len(reservation) \in Nat
    BY LenProperties DEF TypeOK
  <2>2. i \in 1 .. Len(reservation)
    BY <2>1
  <2>. QED
    BY <2>1, <2>2, ElementOfSeq DEF TypeOK
<1>2. \A o \in DOMAIN reservation :
        ActiveRow(reservation'[o]) => reservation'[o] = reservation[o]
  <2>1. CASE Releases
    BY <1>1, <2>1 DEF Releases, ActiveRow, ReservationRow
  <2>2. ASSUME NEW q \in Nat, NEW p \in Period, NEW r \in Resource, Books(q, p, r)
        PROVE  \A o \in DOMAIN reservation :
                 ActiveRow(reservation'[o]) => reservation'[o] = reservation[o]
    BY <2>2, BookingEffect
  <2>3. ASSUME NEW rows, Enters(rows)
        PROVE  \A o \in DOMAIN reservation : reservation'[o] = reservation[o]
    BY <2>3 DEF Enters
  <2>. QED
    BY <2>1, <2>2, <2>3, EveryStep
<1>. QED
  BY <1>1, <1>2 DEF BothHeld

\* Only a booking or an entry adds a row.
LEMMA NewRows ==
  ASSUME TypeOK, SlotsInv, [Next]_vars,
         NEW j \in DOMAIN reservation', j \notin DOMAIN reservation
  PROVE  \/ \E q \in Nat, p \in Period, r \in Resource : Books(q, p, r)
         \/ \E rows : Enters(rows)
BY EveryStep DEF Releases

\* An entry that starts to share a robot with an older one is a booking with a
\* conflict note, or a lesson: no decision and no calendar form overlaps in
\* silence, whichever of them came in between.
THEOREM OverlapsAreAnnounced == Spec => []NoSilentOverlap
<1>1. Init => NoSilentOverlap
  BY DEF Init, NoSilentOverlap
<1>2. NoSilentOverlap /\ TypeOK /\ TypeOK' /\ SlotsInv /\ [Next]_vars => NoSilentOverlap'
  <2>. SUFFICES ASSUME NoSilentOverlap, TypeOK, TypeOK', SlotsInv, [Next]_vars,
                       NEW j \in DOMAIN reservation', NEW i \in 1 .. j - 1,
                       BothHeld(i, j)'
                PROVE  reservation'[j].note \/ reservation'[j].source = "LESSON"
    BY DEF NoSilentOverlap
  <2>1. CASE j \in DOMAIN reservation
    BY <2>1, OldOverlaps DEF NoSilentOverlap
  <2>2. ASSUME NEW q \in Nat, NEW p \in Period, NEW r \in Resource, Books(q, p, r),
               j \notin DOMAIN reservation
        PROVE  reservation'[j].note
    BY <2>2, BookingIsHeard
  <2>3. ASSUME NEW rows, Enters(rows), j \notin DOMAIN reservation
        PROVE  reservation'[j].source = "LESSON"
    BY <2>3, EntryIsHeard
  <2>. QED
    BY <2>1, <2>2, <2>3, NewRows
<1>3. QED
  BY <1>1, <1>2, TypeCorrect, SlotsInvariant, PTL DEF Spec

\* A request never holds one session twice, however often it is approved,
\* amended and reopened.
THEOREM SessionsAreHeldOnce == Spec => []NoSlotHeldTwice
<1>1. Init => NoSlotHeldTwice
  BY DEF Init, NoSlotHeldTwice
<1>2. NoSlotHeldTwice /\ TypeOK /\ TypeOK' /\ SlotsInv /\ [Next]_vars => NoSlotHeldTwice'
  <2>. SUFFICES ASSUME NoSlotHeldTwice, TypeOK, TypeOK', SlotsInv, [Next]_vars,
                       NEW j \in DOMAIN reservation', NEW i \in 1 .. j - 1,
                       BothHeld(i, j)', reservation'[j].request # NoRequest
                PROVE  reservation'[i].request # reservation'[j].request
    BY DEF NoSlotHeldTwice
  <2>1. CASE j \in DOMAIN reservation
    BY <2>1, OldOverlaps DEF NoSlotHeldTwice
  <2>2. ASSUME NEW q \in Nat, NEW p \in Period, NEW r \in Resource, Books(q, p, r),
               j \notin DOMAIN reservation
        PROVE  reservation'[i].request # reservation'[j].request
    <3>1. i \in DOMAIN reservation /\ reservation[i].request # q
      BY <2>2, BookingIsHeard
    <3>2. reservation'[i] = reservation[i]
      BY <2>2, <3>1, BookingEffect DEF BothHeld
    <3>3. reservation'[j].request = q
      BY <2>2, BookingEffect DEF BookedRow
    <3>. QED
      BY <3>1, <3>2, <3>3
  <2>3. ASSUME NEW rows, Enters(rows), j \notin DOMAIN reservation
        PROVE  FALSE
    BY <2>3, EntryIsHeard
  <2>. QED
    BY <2>1, <2>2, <2>3, NewRows
<1>3. QED
  BY <1>1, <1>2, TypeCorrect, SlotsInvariant, PTL DEF Spec

\* Every slot a booking holds is one its request asks for, on the robot the
\* request is assigned to: what may be edited holds nothing, and amending
\* rebuilds what it edits.
THEOREM SlotsAreThoseAskedFor == Spec => []SlotsMatchRequest
<1>. DEFINE Match(row, requests) ==
       /\ row.request \in DOMAIN requests
       /\ row.resource = requests[row.request].assigned
       /\ \E k \in DOMAIN ExpandSlots(requests[row.request].period) :
            SameTime(ExpandSlots(requests[row.request].period)[k], row)
<1>1. Init => SlotsMatchRequest
  BY DEF Init, SlotsMatchRequest
<1>2. SlotsMatchRequest /\ TypeOK /\ TypeOK' /\ SlotsInv /\ [Next]_vars => SlotsMatchRequest'
  <2>. SUFFICES ASSUME SlotsMatchRequest, TypeOK, TypeOK', SlotsInv, [Next]_vars,
                       NEW i \in DOMAIN reservation', ActiveRow(reservation'[i]),
                       reservation'[i].request # NoRequest
                PROVE  Match(reservation'[i], request')
    BY DEF SlotsMatchRequest
  <2>0. \A o \in DOMAIN reservation :
          ActiveRow(reservation[o]) /\ reservation[o].request # NoRequest
            => Match(reservation[o], request)
    BY DEF SlotsMatchRequest
  <2>1. ASSUME Releases
        PROVE  Match(reservation'[i], request')
    <3>. DEFINE q == reservation'[i].request
    <3>1. /\ i \in DOMAIN reservation
          /\ reservation'[i] = reservation[i]
      <4>1. /\ i \in DOMAIN reservation
            /\ reservation'[i] \in {reservation[i],
                                    [reservation[i] EXCEPT !.status = "CANCELLED"]}
        BY <2>1 DEF Releases
      <4>2. reservation[i] \in ReservationRow
        BY <4>1, LenProperties, ElementOfSeq DEF TypeOK
      <4>. QED
        BY <4>1, <4>2 DEF ActiveRow, ReservationRow
    <3>2. Match(reservation[i], request)
      BY <2>0, <3>1
    <3>3. HoldsActiveSlot(reservation', q)
      BY DEF HoldsActiveSlot
    <3>4. /\ q \in DOMAIN request' /\ request'[q].period = request[q].period
          /\ request'[q].assigned = request[q].assigned
      BY <2>1, <3>1, <3>2, <3>3 DEF Releases
    <3>. QED
      BY <3>1, <3>2, <3>4
  <2>2. ASSUME NEW q \in Nat, NEW p \in Period, NEW r \in Resource, Books(q, p, r)
        PROVE  Match(reservation'[i], request')
    <3>1. CASE i \in DOMAIN reservation
      <4>1. reservation'[i] = reservation[i] /\ reservation[i].request # q
        BY <2>2, <3>1, BookingEffect
      <4>2. Match(reservation[i], request)
        BY <2>0, <3>1, <4>1
      <4>3. LET o == reservation[i].request
            IN  o \in DOMAIN request' /\ request'[o] = request[o]
        BY <2>2, <4>1, <4>2 DEF Books
      <4>. QED
        BY <4>1, <4>2, <4>3
    <3>2. CASE i \notin DOMAIN reservation
      <4>. DEFINE k == i - Len(reservation)
      <4>1. k \in DOMAIN ExpandSlots(p) /\ reservation'[i] = BookedRow(q, p, r, k)
        BY <2>2, <3>2, BookingEffect
      <4>. HIDE DEF k
      <4>2. /\ reservation'[i].start = ExpandSlots(p)[k].start
            /\ reservation'[i].end = ExpandSlots(p)[k].end
            /\ reservation'[i].resource = r /\ reservation'[i].request = q
        BY <4>1, BookedRowFields
      <4>3. /\ q \in DOMAIN request'
            /\ request'[q].period = p /\ request'[q].assigned = r
        BY <2>2 DEF Books
      <4>. QED
        BY <4>1, <4>2, <4>3 DEF SameTime
    <3>. QED
      BY <3>1, <3>2
  <2>3. ASSUME NEW rows, Enters(rows)
        PROVE  Match(reservation'[i], request')
    <3>1. i \in DOMAIN reservation
      BY <2>3, EntryIsHeard
    <3>2. reservation'[i] = reservation[i] /\ request' = request
      BY <2>3, <3>1 DEF Enters
    <3>. QED
      BY <2>0, <3>1, <3>2
  <2>. HIDE DEF Match
  <2>. QED
    BY <2>1, <2>2, <2>3, EveryStep
<1>3. QED
  BY <1>1, <1>2, TypeCorrect, SlotsInvariant, PTL DEF Spec

\* A decision books all or nothing: whoever is given a slot comes out APPROVED,
\* of a robot in service, with every slot it asks for.
THEOREM DecisionsAreWhole == Spec => DecisionIsWhole
<1>1. TypeOK /\ TypeOK' /\ SlotsInv /\ [Next]_vars => [BooksWholeRequest]_vars
  <2>. SUFFICES ASSUME TypeOK, TypeOK', SlotsInv, [Next]_vars,
                       NEW n \in DOMAIN reservation' \ DOMAIN reservation,
                       reservation'[n].request # NoRequest
                PROVE  LET q     == reservation'[n].request
                           slots == ExpandSlots(request'[q].period)
                       IN  /\ request'[q].status = "APPROVED"
                           /\ resourceStatus[reservation'[n].resource] = "Active"
                           /\ \A k \in DOMAIN slots :
                                \E i \in DOMAIN reservation' :
                                  /\ reservation'[i].request = q
                                  /\ ActiveRow(reservation'[i])
                                  /\ SameTime(slots[k], reservation'[i])
    BY DEF BooksWholeRequest
  <2>1. ASSUME NEW rows, Enters(rows)
        PROVE  FALSE
    BY <2>1, EntryIsHeard
  <2>2. PICK q \in Nat, p \in Period, r \in Resource : Books(q, p, r)
    BY <2>1, NewRows
  <2>3. reservation'[n].request = q /\ reservation'[n].resource = r
    BY <2>2, BookingEffect, BookedRowFields
  <2>4. /\ request'[q].status = "APPROVED" /\ request'[q].period = p
        /\ resourceStatus[r] = "Active"
    BY <2>2 DEF Books
  <2>5. ASSUME NEW k \in DOMAIN ExpandSlots(p)
        PROVE  \E i \in DOMAIN reservation' :
                 /\ reservation'[i].request = q
                 /\ ActiveRow(reservation'[i])
                 /\ SameTime(ExpandSlots(p)[k], reservation'[i])
    <3>. DEFINE i == Len(reservation) + k
    <3>1. i \in DOMAIN reservation' /\ reservation'[i] = BookedRow(q, p, r, k)
      BY <2>2, BookingEffect
    <3>. HIDE DEF i
    <3>2. /\ reservation'[i].request = q /\ ActiveRow(reservation'[i])
          /\ SameTime(ExpandSlots(p)[k], reservation'[i])
      BY <3>1, BookedRowFields DEF ActiveRow, SameTime
    <3>. QED
      BY <3>1, <3>2
  <2>. QED
    BY <2>3, <2>4, <2>5
<1>2. QED
  BY <1>1, TypeCorrect, SlotsInvariant, PTL DEF Spec, DecisionIsWhole

=============================================================================
