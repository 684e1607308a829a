--------------------------- MODULE BookingService ---------------------------
(***************************************************************************)
(* The booking decisions (app/services/booking_service.py, and the status  *)
(* changes of app/routes/resources.py) as the code means them: each call   *)
(* reads, checks, writes and commits as one step.  A call that ends in a   *)
(* ValidationError rolls back and changes nothing, so it is no step at     *)
(* all.  WebHandlers models what really happens when calls interleave.     *)
(***************************************************************************)
EXTENDS BookingRules

CONSTANTS
  Periods,          \* dates and sessions that forms submit
  EntryTimes,       \* start and end of lessons and manual entries
  EntrySources,     \* types the calendar form submits
  LessonBatches,    \* timetables: sequences of lesson times
  StatusChoices,    \* statuses staff pick on the resources page
  RobotLists,       \* robots selected for a timetable: sequences without repeats
  MaxRequests,      \* bound on the rows of booking_requests
  MaxReservations   \* bound on the rows of reservations

ASSUME InputAssumption ==
  /\ Periods \subseteq Period
  /\ EntryTimes \subseteq Slot
  /\ EntrySources \subseteq SourceType
  /\ LessonBatches \subseteq Seq(Slot)
  /\ StatusChoices \subseteq ResourceStatus
  /\ RobotLists \subseteq Seq(Resource)
  /\ MaxRequests \in Nat
  /\ MaxReservations \in Nat

VARIABLES
  resourceStatus,   \* table resources: the status of each robot
  request,          \* table booking_requests
  reservation       \* table reservations

vars == <<resourceStatus, request, reservation>>

TypeOK ==
  /\ resourceStatus \in [Resource -> ResourceStatus \union {Missing}]
  /\ request \in Seq(RequestRow)
  /\ reservation \in Seq(ReservationRow)

\* A fresh database: the seeded robots, nothing booked.
Init ==
  /\ resourceStatus \in [Resource -> {"Active", Missing}]
  /\ request = << >>
  /\ reservation = << >>

Room(rows) == Len(reservation) + Len(rows) <= MaxReservations

-----------------------------------------------------------------------------

\* save_request for a new application (the web form, or an import that stays
\* pending).
CreateRequest(p, rid) ==
  /\ Len(request) < MaxRequests
  /\ ValidPeriod(p)
  /\ ~ ResponseIdTaken(request, rid, NoRequest)
  /\ request' = Append(request, NewRequest(p, rid))
  /\ UNCHANGED <<resourceStatus, reservation>>

\* auto_import of the queue worker when the application resolves to one robot
\* that is in service and free: saved and approved in one transaction, never
\* over a conflict.  Otherwise (and when its facility's own robot is taken) the
\* import is a CreateRequest.
ImportApproved(p, rid, r) ==
  LET q         == Len(request) + 1
      slots     == ExpandSlots(p)
      conflicts == SlotConflicts(reservation, r, slots, q)
  IN  /\ q <= MaxRequests
      /\ ValidPeriod(p)
      /\ ~ ResponseIdTaken(request, rid, NoRequest)
      /\ resourceStatus[r] = "Active"
      /\ slots # << >>
      /\ FullyAvailable(conflicts)
      /\ Room(slots)
      /\ reservation' = reservation \o BookingRows(q, r, slots, conflicts)
      /\ request' = Append(request, [NewRequest(p, rid) EXCEPT
                                       !.assigned = r, !.status = "APPROVED"])
      /\ UNCHANGED resourceStatus

\* A deviation: decided requests are edited as well.
EditAnyStatus(q, p, rid, r) ==
  /\ ValidPeriod(p)
  /\ ~ ResponseIdTaken(request, rid, q)
  /\ r # NoResource => resourceStatus[r] # Missing
  /\ request' = [request EXCEPT ![q] = WithFields(@, p, rid, r)]
  /\ UNCHANGED <<resourceStatus, reservation>>

\* save_request for an existing one: only while nothing is decided.
EditRequest(q, p, rid, r) ==
  /\ request[q].status = "PENDING"
  /\ ValidPeriod(p)
  /\ ~ ResponseIdTaken(request, rid, q)
  /\ r # NoResource => resourceStatus[r] # Missing   \* the foreign key
  /\ request' = [request EXCEPT ![q] = WithFields(@, p, rid, r)]
  /\ UNCHANGED <<resourceStatus, reservation>>

\* approve_request: re-check, then one row per slot.  allow is the deliberate
\* override; it never overrides a robot that is not in service.
Approve(q, r, allow) ==
  LET slots     == ExpandSlots(request[q].period)
      conflicts == SlotConflicts(reservation, r, slots, q)
  IN  /\ request[q].status = "PENDING"
      /\ resourceStatus[r] = "Active"
      /\ slots # << >>
      /\ ~ FullyAvailable(conflicts) => allow
      /\ Room(slots)
      /\ reservation' = reservation \o BookingRows(q, r, slots, conflicts)
      /\ request' = [request EXCEPT ![q].assigned = r, ![q].status = "APPROVED"]
      /\ UNCHANGED resourceStatus

\* amend_request: edit an approved booking and rebuild its reservations.  The
\* form may name a robot; otherwise the assigned one is kept.
Amend(q, p, rid, r, allow) ==
  LET slots     == ExpandSlots(p)
      conflicts == SlotConflicts(reservation, r, slots, q)
  IN  /\ request[q].status = "APPROVED"
      /\ ValidPeriod(p)
      /\ ~ ResponseIdTaken(request, rid, q)
      /\ resourceStatus[r] = "Active"
      /\ slots # << >>
      /\ ~ FullyAvailable(conflicts) => allow
      /\ Room(slots)
      /\ reservation' = Released(reservation, q)
                          \o BookingRows(q, r, slots, conflicts)
      /\ request' = [request EXCEPT ![q] = WithFields(@, p, rid, r)]
      /\ UNCHANGED resourceStatus

Reject(q) ==
  /\ request[q].status = "PENDING"
  /\ request' = WithStatus(request, q, "REJECTED")
  /\ UNCHANGED <<resourceStatus, reservation>>

\* cancel_request: every slot is released with it.
Cancel(q) ==
  /\ request[q].status \in {"PENDING", "APPROVED"}
  /\ reservation' = Released(reservation, q)
  /\ request' = WithStatus(request, q, "CANCELLED")
  /\ UNCHANGED resourceStatus

\* reopen_request: the released reservations stay cancelled.
Reopen(q) ==
  /\ request[q].status \in ClosedStatus
  /\ ~ ResponseIdTaken(request, request[q].responseId, q)
  /\ request' = WithStatus(request, q, "PENDING")
  /\ UNCHANGED <<resourceStatus, reservation>>

\* A deviation: the request stays APPROVED whatever is released.
ReleasingKeepsRequest(q, left) == request

\* The last active slot takes its APPROVED request with it; left is the
\* reservations table after the release.
ReleasingClosesRequest(q, left) ==
  IF q # NoRequest /\ request[q].status = "APPROVED" /\ ~ HoldsActiveSlot(left, q)
    THEN WithStatus(request, q, "CANCELLED")
    ELSE request

\* cancel_reservation
CancelReservation(i) ==
  LET left == [reservation EXCEPT ![i].status = "CANCELLED"]
  IN  /\ ActiveRow(reservation[i])
      /\ reservation' = left
      /\ request' = ReleasingClosesRequest(reservation[i].request, left)
      /\ UNCHANGED resourceStatus

\* create_manual_reservation: refused over anything, but any robot that has a
\* row will do, in service or not.
CreateManual(r, source, interval) ==
  LET clashes == {i \in ActiveReservations(reservation, r, interval.start,
                                           interval.end, NoRequest) :
                    Overlaps(interval, reservation[i])}
      rows    == <<EntryRow(r, source, interval)>>
  IN  /\ resourceStatus[r] # Missing
      /\ interval.start < interval.end
      /\ clashes = {}
      /\ Room(rows)
      /\ reservation' = reservation \o rows
      /\ UNCHANGED <<resourceStatus, request>>

\* import_lessons: staff confirmed whatever the preview showed, so the write
\* itself checks nothing.
ImportLessons(robots, lessons) ==
  LET rows == LessonRows(robots, lessons)
  IN  /\ lessons # << >>
      /\ robots # << >>
      /\ \A k \in DOMAIN robots : resourceStatus[robots[k]] # Missing
      /\ Room(rows)
      /\ reservation' = reservation \o rows
      /\ UNCHANGED <<resourceStatus, request>>

\* create_resource and update_resource: staff may set any status at any time.
SetResourceStatus(r, status) ==
  /\ resourceStatus' = [resourceStatus EXCEPT ![r] = status]
  /\ UNCHANGED <<request, reservation>>

-----------------------------------------------------------------------------

RequestStep(q) ==
  \/ \E p \in Periods, rid \in ResponseId \union {NoResponseId} :
       \/ \E r \in Resource \union {NoResource} : EditRequest(q, p, rid, r)
       \/ \E r \in Resource, allow \in BOOLEAN : Amend(q, p, rid, r, allow)
  \/ \E r \in Resource, allow \in BOOLEAN : Approve(q, r, allow)
  \/ Reject(q)
  \/ Cancel(q)
  \/ Reopen(q)

Next ==
  \/ \E p \in Periods, rid \in ResponseId \union {NoResponseId} :
       \/ CreateRequest(p, rid)
       \/ \E r \in Resource : ImportApproved(p, rid, r)
  \/ \E q \in DOMAIN request : RequestStep(q)
  \/ \E i \in DOMAIN reservation : CancelReservation(i)
  \/ \E r \in Resource, source \in EntrySources, interval \in EntryTimes :
       CreateManual(r, source, interval)
  \/ \E robots \in RobotLists, lessons \in LessonBatches :
       ImportLessons(robots, lessons)
  \/ \E r \in Resource, status \in StatusChoices : SetResourceStatus(r, status)

Spec == Init /\ [][Next]_vars

-----------------------------------------------------------------------------

SameTime(slot, row) == slot.start = row.start /\ slot.end = row.end

BothHeld(i, j) ==
  /\ ActiveRow(reservation[i])
  /\ ActiveRow(reservation[j])
  /\ reservation[i].resource = reservation[j].resource
  /\ Overlaps(reservation[i], reservation[j])

\* An entry that starts to share a robot with an older one says so: it is a
\* booking stamped with a conflict note, or a lesson, whose clashes staff
\* confirm on screen.  The re-check of approve_request and amend_request, the
\* exclusion of a request's own slots and the clash test of the calendar form
\* have to agree for this to hold.
NoSilentOverlap ==
  \A j \in DOMAIN reservation : \A i \in 1 .. j - 1 :
    BothHeld(i, j) => \/ reservation[j].note
                      \/ reservation[j].source = "LESSON"

\* The request list and the calendar agree: a request is APPROVED exactly
\* while it holds a slot.  Cancel, amend, reopen and the release of the last
\* slot (cancel_reservation) all have to keep this.
ApprovedHoldsSlots ==
  \A q \in DOMAIN request :
    request[q].status = "APPROVED" <=> HoldsActiveSlot(reservation, q)

\* Every slot a booking holds is one its request asks for, on the robot the
\* request is assigned to: save_request refuses to edit what amend_request has
\* to rebuild.
SlotsMatchRequest ==
  \A i \in DOMAIN reservation :
    LET row == reservation[i]
    IN  ActiveRow(row) /\ row.request # NoRequest
          => /\ row.request \in DOMAIN request
             /\ row.resource = request[row.request].assigned
             /\ \E k \in DOMAIN ExpandSlots(request[row.request].period) :
                  SameTime(ExpandSlots(request[row.request].period)[k], row)

\* A request never holds the same session twice: approving happens once, and
\* amending releases the old slots before it writes the new ones.
NoSlotHeldTwice ==
  \A j \in DOMAIN reservation : \A i \in 1 .. j - 1 :
    BothHeld(i, j) /\ reservation[j].request # NoRequest
      => reservation[i].request # reservation[j].request

\* A Response ID names at most one live request, however often requests are
\* closed, re-entered under the same ID, edited and reopened.
UniqueLiveResponseId ==
  \A q \in DOMAIN request : \A o \in 1 .. q - 1 :
    LiveRequest(request[q]) /\ LiveRequest(request[o])
      /\ request[q].responseId # NoResponseId
      => request[q].responseId # request[o].responseId

\* The reservations table is a history: rows are only added, and the one thing
\* that ever changes in a row is ACTIVE becoming CANCELLED (not even reopening
\* a request revives its old slots).
KeepsHistory ==
  \A i \in DOMAIN reservation :
    /\ i \in DOMAIN reservation'
    /\ reservation'[i] \in {reservation[i],
                            [reservation[i] EXCEPT !.status = "CANCELLED"]}

HistoryKept == [][KeepsHistory]_reservation

\* A decision books all or nothing: whenever a request is given a slot, it
\* comes out APPROVED, of a robot in service, with every slot it asks for.
BooksWholeRequest ==
  \A n \in DOMAIN reservation' \ DOMAIN reservation :
    LET q     == reservation'[n].request
        slots == ExpandSlots(request'[q].period)
    IN  q # NoRequest
          => /\ request'[q].status = "APPROVED"
             /\ resourceStatus[reservation'[n].resource] = "Active"
             /\ \A k \in DOMAIN slots :
                  \E i \in DOMAIN reservation' :
                    /\ reservation'[i].request = q
                    /\ ActiveRow(reservation'[i])
                    /\ SameTime(slots[k], reservation'[i])

DecisionIsWhole == [][BooksWholeRequest]_vars

=============================================================================
