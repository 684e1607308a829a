---------------------------- MODULE WebHandlers -----------------------------
(***************************************************************************)
(* How the booking decisions really run.  A web handler loads its request, *)
(* awaits the form, re-checks and then writes; the calendar's handlers run *)
(* in a thread pool; the queue worker is another process.  They share one  *)
(* SQLite database.                                                        *)
(*                                                                         *)
(*   - Coroutines of the event loop (Staff) give way to each other only    *)
(*     at `await request.form()`; threads (Thread) and the worker (Worker) *)
(*     interleave with them anywhere.                                      *)
(*   - A row loaded before the await is not refreshed after it (SQLAlchemy *)
(*     keeps it in the session), while a new SELECT sees what is committed *)
(*     now.                                                                *)
(*   - The first flush takes SQLite's write lock and keeps it until the    *)
(*     commit, so everything from the first flush to the commit is one     *)
(*     step here.                                                          *)
(*   - A flush writes only the columns the handler changed (WriteBack).    *)
(***************************************************************************)
EXTENDS BookingRules, FiniteSets

CONSTANTS
  Periods, EntryTimes, EntrySources, StatusChoices,
  MaxRequests, MaxReservations,
                    \* as in BookingService
  Staff,            \* concurrent requests on the event loop
  Thread,           \* concurrent calendar requests in the thread pool
  Worker,           \* the queue worker, or nobody
  OneAtATime        \* TRUE: suppose nobody starts before the others finished

ASSUME HandlerAssumption ==
  /\ Periods \subseteq Period
  /\ EntryTimes \subseteq Slot
  /\ EntrySources \subseteq SourceType
  /\ StatusChoices \subseteq ResourceStatus
  /\ MaxRequests \in Nat
  /\ MaxReservations \in Nat

Actor == Staff \union Thread \union Worker

VARIABLES
  resourceStatus, request, reservation,   \* the committed tables
  task                                    \* what each actor is in the middle of

tables == <<resourceStatus, request, reservation>>
vars == <<resourceStatus, request, reservation, task>>

Idle == [at |-> "idle"]

Init ==
  /\ resourceStatus = [r \in Resource |-> "Active"]
  /\ request = << >>
  /\ reservation = << >>
  /\ task = [a \in Actor |-> Idle]

\* May actor a begin something new?
CanStart(a) ==
  /\ task[a] = Idle
  /\ OneAtATime => \A other \in Actor : task[other] = Idle

\* No coroutine is between its re-check and its commit.
LoopIsFree == \A s \in Staff : task[s].at \in {"idle", "awaiting form"}

Goto(a, t) == task' = [task EXCEPT ![a] = t]

\* A deviation: slots booked over something are overlooked.
UnflaggedActiveOf(q) ==
  {i \in DOMAIN reservation :
     /\ reservation[i].request = q
     /\ ActiveRow(reservation[i])
     /\ ~ reservation[i].note}

ActiveOf(q) ==
  {i \in DOMAIN reservation :
     reservation[i].request = q /\ ActiveRow(reservation[i])}

\* Two deviations: a status is toggled; only the first reservation is cancelled.
ToggledStatus(ids) ==
  [i \in DOMAIN reservation |->
     IF i \in ids
       THEN [reservation[i] EXCEPT !.status = IF @ = "ACTIVE" THEN "CANCELLED"
                                                              ELSE "ACTIVE"]
       ELSE reservation[i]]

FirstCancelled(ids) ==
  [i \in DOMAIN reservation |->
     IF i \in ids /\ \A j \in ids : i <= j
       THEN [reservation[i] EXCEPT !.status = "CANCELLED"]
       ELSE reservation[i]]

Cancelled(ids) ==
  [i \in DOMAIN reservation |->
     IF i \in ids THEN [reservation[i] EXCEPT !.status = "CANCELLED"]
                  ELSE reservation[i]]

\* A flush of a row loaded as seen and changed to next: the columns that
\* differ are written over whatever the table holds by now.
WriteBack(current, seen, next) ==
  [column \in DOMAIN current |->
     IF column = "period"
       THEN [c \in DOMAIN current.period |->
               IF next.period[c] # seen.period[c] THEN next.period[c]
                                                  ELSE current.period[c]]
       ELSE IF next[column] # seen[column] THEN next[column]
                                           ELSE current[column]]

\* The re-check is done: update request q (insert it when q is NoRequest),
\* cancel some reservations and insert others.
Writing(q, seen, next, release, rows) ==
  [at |-> "writing", q |-> q, seen |-> seen, next |-> next,
   release |-> release, rows |-> rows]

-----------------------------------------------------------------------------
(* Coroutines: app/routes/requests.py                                      *)

\* _load(), then `await request.form()`.
Load(s, q) ==
  /\ CanStart(s)
  /\ LoopIsFree
  /\ Goto(s, [at |-> "awaiting form", q |-> q, seen |-> request[q]])
  /\ UNCHANGED tables

\* A ValidationError, a database that stayed locked, or a browser that went
\* away: the session is closed and nothing is written.
Rollback(a) ==
  /\ task[a] # Idle
  /\ Goto(a, Idle)
  /\ UNCHANGED tables

HasForm(s) == task[s].at = "awaiting form" /\ LoopIsFree

\* create_request: the form comes first, nothing is loaded.
CheckCreate(s, p, rid) ==
  /\ CanStart(s)
  /\ LoopIsFree
  /\ ValidPeriod(p)
  /\ ~ ResponseIdTaken(request, rid, NoRequest)
  /\ Goto(s, Writing(NoRequest, NewRequest(p, rid), NewRequest(p, rid), {}, << >>))
  /\ UNCHANGED tables

\* A deviation: save_request without its status check.
CheckEditAnyStatus(s, p, rid, r) ==
  LET t == task[s]
  IN  /\ HasForm(s)
      /\ ValidPeriod(p)
      /\ ~ ResponseIdTaken(request, rid, t.q)
      /\ Goto(s, Writing(t.q, t.seen, WithFields(t.seen, p, rid, r), {}, << >>))
      /\ UNCHANGED tables

\* update_request on a request that was PENDING when it was loaded.
CheckEdit(s, p, rid, r) ==
  LET t == task[s]
  IN  /\ HasForm(s)
      /\ t.seen.status = "PENDING"
      /\ ValidPeriod(p)
      /\ ~ ResponseIdTaken(request, rid, t.q)
      /\ Goto(s, Writing(t.q, t.seen, WithFields(t.seen, p, rid, r), {}, << >>))
      /\ UNCHANGED tables

CheckApprove(s, r, allow) ==
  LET t         == task[s]
      slots     == ExpandSlots(t.seen.period)
      conflicts == SlotConflicts(reservation, r, slots, t.q)
  IN  /\ HasForm(s)
      /\ t.seen.status = "PENDING"
      /\ resourceStatus[r] = "Active"
      /\ slots # << >>
      /\ ~ FullyAvailable(conflicts) => allow
      /\ Goto(s, Writing(t.q, t.seen,
                         [t.seen EXCEPT !.assigned = r, !.status = "APPROVED"],
                         {}, BookingRows(t.q, r, slots, conflicts)))
      /\ UNCHANGED tables

\* update_request on a request that was APPROVED when it was loaded.  The flush
\* of _apply_fields takes the write lock before the re-check, except when the
\* form changes no column at all.
CheckAmend(s, p, rid, r, allow) ==
  LET t         == task[s]
      slots     == ExpandSlots(p)
      conflicts == SlotConflicts(reservation, r, slots, t.q)
      next      == WithFields(t.seen, p, rid, r)
      unchanged == p = t.seen.period /\ rid = t.seen.responseId
  IN  /\ HasForm(s)
      /\ t.seen.status = "APPROVED"
      /\ ValidPeriod(p)
      /\ ~ ResponseIdTaken(request, rid, t.q)
      /\ resourceStatus[r] = "Active"
      /\ \/ /\ unchanged
            /\ ~ FullyAvailable(conflicts) => allow
            /\ Goto(s, Writing(t.q, t.seen, next, ActiveOf(t.q),
                               BookingRows(t.q, r, slots, conflicts)))
         \/ Goto(s, [at |-> "amending", q |-> t.q, seen |-> t.seen,
                     next |-> next, allow |-> allow])
      /\ UNCHANGED tables

CheckReject(s) ==
  LET t == task[s]
  IN  /\ HasForm(s)
      /\ t.seen.status = "PENDING"
      /\ Goto(s, Writing(t.q, t.seen, [t.seen EXCEPT !.status = "REJECTED"],
                         {}, << >>))
      /\ UNCHANGED tables

\* cancel_request: the reservations are read now, the status was read before.
CheckCancel(s) ==
  LET t == task[s]
  IN  /\ HasForm(s)
      /\ t.seen.status \in {"PENDING", "APPROVED"}
      /\ Goto(s, Writing(t.q, t.seen, [t.seen EXCEPT !.status = "CANCELLED"],
                         ActiveOf(t.q), << >>))
      /\ UNCHANGED tables

\* reopen has no form to wait for: load and check are one segment.
CheckReopen(s, q) ==
  /\ CanStart(s)
  /\ LoopIsFree
  /\ request[q].status \in ClosedStatus
  /\ ~ ResponseIdTaken(request, request[q].responseId, q)
  /\ Goto(s, Writing(q, request[q], [request[q] EXCEPT !.status = "PENDING"],
                     {}, << >>))
  /\ UNCHANGED tables

\* The flush and the commit.
Commit(s) ==
  LET t == task[s]
  IN  /\ t.at = "writing"
      /\ Len(reservation) + Len(t.rows) <= MaxReservations
      /\ IF t.q = NoRequest
           THEN /\ Len(request) < MaxRequests
                /\ request' = Append(request, t.next)
           ELSE request' = [request EXCEPT ![t.q] = WriteBack(@, t.seen, t.next)]
      /\ reservation' = Cancelled(t.release) \o t.rows
      /\ Goto(s, Idle)
      /\ UNCHANGED resourceStatus

\* amend_request after _apply_fields has flushed: the re-check, the release
\* and the new rows all happen under the write lock.  A conflict rolls back.
CommitAmend(s) ==
  LET t         == task[s]
      r         == t.next.assigned
      slots     == ExpandSlots(t.next.period)
      conflicts == SlotConflicts(reservation, r, slots, t.q)
  IN  /\ t.at = "amending"
      /\ IF FullyAvailable(conflicts) \/ t.allow
           THEN /\ Len(reservation) + Len(slots) <= MaxReservations
                /\ request' = [request EXCEPT
                                 ![t.q] = WriteBack(@, t.seen, t.next)]
                /\ reservation' = Cancelled(ActiveOf(t.q))
                                    \o BookingRows(t.q, r, slots, conflicts)
           ELSE UNCHANGED <<request, reservation>>
      /\ Goto(s, Idle)
      /\ UNCHANGED resourceStatus

-----------------------------------------------------------------------------
(* Threads: app/routes/calendar.py                                         *)

\* cancel_single_reservation loads the reservation and its request.
LoadReservation(t, i) ==
  LET q == reservation[i].request
  IN  /\ CanStart(t)
      /\ ActiveRow(reservation[i])
      /\ Goto(t, [at |-> "releasing", i |-> i, q |-> q,
                  approved |-> q # NoRequest /\ request[q].status = "APPROVED"])
      /\ UNCHANGED tables

\* cancel_reservation: after its first flush it reads the other slots afresh,
\* but the request's status is the one loaded before.
CommitRelease(t) ==
  LET q == task[t].q
  IN  /\ task[t].at = "releasing"
      /\ reservation' = Cancelled({task[t].i})
      /\ request' = IF task[t].approved /\ ~ HoldsActiveSlot(reservation', q)
                      THEN WithStatus(request, q, "CANCELLED")
                      ELSE request
      /\ Goto(t, Idle)
      /\ UNCHANGED resourceStatus

\* create_reservation: the clash test reads, the insert comes later.
CheckManual(t, r, source, interval) ==
  LET clashes == {i \in ActiveReservations(reservation, r, interval.start,
                                           interval.end, NoRequest) :
                    Overlaps(interval, reservation[i])}
  IN  /\ CanStart(t)
      /\ interval.start < interval.end
      /\ clashes = {}
      /\ Goto(t, [at |-> "inserting", row |-> EntryRow(r, source, interval)])
      /\ UNCHANGED tables

CommitManual(t) ==
  /\ task[t].at = "inserting"
  /\ Len(reservation) < MaxReservations
  /\ reservation' = Append(reservation, task[t].row)
  /\ Goto(t, Idle)
  /\ UNCHANGED <<resourceStatus, request>>

-----------------------------------------------------------------------------
(* The queue worker: app/services/queue_processor.py                       *)

\* process_file and the first half of auto_import, down to the last read
\* before the import writes: the Response ID, the robots' status and the verdict
\* on the robot the facility names.  The application may ask for another robot r.
\* resolve_facility only finds robots in service; what it cannot pin down to one
\* robot is NoResource.
ReadApplication(w, p, rid, facility, r) ==
  /\ CanStart(w)
  /\ ValidPeriod(p)
  /\ ~ ResponseIdTaken(request, rid, NoRequest)
  /\ \A robot \in {facility, r} \ {NoResource} : resourceStatus[robot] = "Active"
  /\ r = NoResource => facility = NoResource
  /\ Goto(w, [at |-> "importing", period |-> p, responseId |-> rid, robot |-> r,
              available |->
                /\ facility # NoResource
                /\ FullyAvailable(SlotConflicts(reservation, facility,
                                                ExpandSlots(p), NoRequest))])
  /\ UNCHANGED tables

\* A deviation: the verdict read before the write lock is taken for final.
FreeAtVerdict(t, conflicts) == t.available

StillFree(t, conflicts) == t.available /\ FullyAvailable(conflicts)

\* The second half: save_request takes the write lock, so the re-check of
\* approve_request is final (except for the robot's status, which the session
\* still has from resolve_facility).  On a conflict the request stays PENDING.
CommitImport(w) ==
  LET t         == task[w]
      q         == Len(request) + 1
      new       == NewRequest(t.period, t.responseId)
      slots     == ExpandSlots(t.period)
      conflicts == SlotConflicts(reservation, t.robot, slots, q)
  IN  /\ t.at = "importing"
      /\ q <= MaxRequests
      /\ IF StillFree(t, conflicts)
           THEN /\ Len(reservation) + Len(slots) <= MaxReservations
                /\ request' = Append(request, [new EXCEPT !.assigned = t.robot,
                                                          !.status = "APPROVED"])
                /\ reservation' = reservation
                                    \o BookingRows(q, t.robot, slots, conflicts)
           ELSE /\ request' = Append(request, new)
                /\ UNCHANGED reservation
      /\ Goto(w, Idle)
      /\ UNCHANGED resourceStatus

-----------------------------------------------------------------------------

StaffStep(s) ==
  \/ \E q \in DOMAIN request : Load(s, q) \/ CheckReopen(s, q)
  \/ \E p \in Periods, rid \in ResponseId \union {NoResponseId} :
       \/ CheckCreate(s, p, rid)
       \/ \E r \in Resource \union {NoResource} : CheckEdit(s, p, rid, r)
       \/ \E r \in Resource, allow \in BOOLEAN : CheckAmend(s, p, rid, r, allow)
  \/ \E r \in Resource, allow \in BOOLEAN : CheckApprove(s, r, allow)
  \/ CheckReject(s)
  \/ CheckCancel(s)
  \/ Commit(s)
  \/ CommitAmend(s)

ThreadStep(t) ==
  \/ \E i \in DOMAIN reservation : LoadReservation(t, i)
  \/ CommitRelease(t)
  \/ \E r \in Resource, source \in EntrySources, interval \in EntryTimes :
       CheckManual(t, r, source, interval)
  \/ CommitManual(t)

WorkerStep(w) ==
  \/ \E p \in Periods, rid \in ResponseId \union {NoResponseId},
        facility, r \in Resource \union {NoResource} :
       ReadApplication(w, p, rid, facility, r)
  \/ CommitImport(w)

\* A deviation: the robot pages run in the thread pool, next to the event loop.
CommitResourceAnytime(s, r, status) ==
  /\ CanStart(s)
  /\ resourceStatus' = [resourceStatus EXCEPT ![r] = status]
  /\ UNCHANGED <<request, reservation, task>>

\* update_resource: the form decides the status, whatever was loaded.
CommitResource(s, r, status) ==
  /\ CanStart(s)
  /\ LoopIsFree
  /\ resourceStatus' = [resourceStatus EXCEPT ![r] = status]
  /\ UNCHANGED <<request, reservation, task>>

Next ==
  \/ \E s \in Staff : StaffStep(s)
  \/ \E s \in Staff, r \in Resource, status \in StatusChoices :
       CommitResource(s, r, status)
  \/ \E t \in Thread : ThreadStep(t)
  \/ \E w \in Worker : WorkerStep(w)
  \/ \E a \in Actor : Rollback(a)

Spec == Init /\ [][Next]_vars

-----------------------------------------------------------------------------

Service == INSTANCE BookingService
             WITH LessonBatches <- {}, RobotLists <- {}

\* While no two actors overlap, load, re-check and write add up to the atomic
\* decisions of BookingService, stale rows and column-wise writes included.
\* This is Service!Spec; most steps only read, so TLC is given the stuttering
\* alternative first.
ImplementsService == Service!Init /\ [][UNCHANGED tables \/ Service!Next]_tables

\* What the queue worker writes is never over anything, even when web handlers
\* and threads write between its verdict and its import: the re-check runs
\* under the write lock, and the worker never overrides.
WorkerBooksOnlyFreeSlots ==
  [][\A w \in Worker :
       task[w].at = "importing" /\ task'[w] = Idle
         => \A n \in DOMAIN reservation' \ DOMAIN reservation :
              \A i \in DOMAIN reservation :
                ActiveRow(reservation[i])
                  /\ reservation[i].resource = reservation'[n].resource
                  => ~ Overlaps(reservation[i], reservation'[n])]_vars

\* BookingService's property, asked of the interleaved handlers: a new entry
\* that shares a robot with an older one says so.  A clash test (_recheck,
\* create_manual_reservation) that is stale when its rows are written breaks it.
NoSilentOverlap == Service!NoSilentOverlap

\* BookingService's property, asked of the interleaved handlers: a request is
\* APPROVED exactly while it holds a slot.  reject_request and cancel_request
\* write the status of a row loaded before the form was awaited.
ApprovedHoldsSlots == Service!ApprovedHoldsSlots

\* BookingService's property, asked of the interleaved handlers: a booking's
\* slots are those its request asks for, however edits (column by column),
\* amendments and imports follow each other.
SlotsMatchRequest == Service!SlotsMatchRequest

\* BookingService's property, asked of the interleaved handlers: no request
\* holds the same session twice, as when it is approved twice.
NoSlotHeldTwice == Service!NoSlotHeldTwice

\* BookingService's property, asked of the interleaved handlers: a Response ID
\* names one live request, with response_id_errors and the insert apart.
UniqueLiveResponseId == Service!UniqueLiveResponseId

\* BookingService's property, asked of the interleaved handlers: whoever
\* releases a slot that somebody else has just released, or rebuilt, nothing
\* in the table of reservations is lost or revived.
HistoryKept == [][Service!KeepsHistory]_vars

RunsForward(p) == p.startDate <= p.endDate

\* What validate_request_fields tests on every form, asked of the rows that come
\* of it: no request ends before it begins, whatever threads and the worker do
\* next to one member of staff.  Of two it is false: edits in flight that each
\* move one end, each from the row it loaded, are merged column by column.
DatesInOrder == \A q \in DOMAIN request : RunsForward(request[q].period)

\* s ends what it has in hand, by its commit or by giving up.
FormEnds(s) == task[s].at \in {"writing", "amending"} /\ task'[s] = Idle

\* What does hold whoever interleaves: a step leaves dates backward only if they
\* were so before, or if it commits an edit that had loaded other dates than it
\* overwrites.  Approvals, releases, imports and edits that nobody overtook
\* never do it.
KeepsDates ==
  \A q \in DOMAIN request' :
    \/ RunsForward(request'[q].period)
    \/ /\ q \in DOMAIN request
       /\ \/ request'[q].period = request[q].period
          \/ \E s \in Staff : /\ FormEnds(s)
                             /\ task[s].q = q
                             /\ task[s].seen.period # request[q].period

DatesBreakOnlyByOvertaking == [][KeepsDates]_vars

\* Request q and the calendar agree: it is APPROVED exactly while it holds a slot,
\* and it holds slots it asks for, on its robot, each once.
BookingIsWhole(q) ==
  LET slots == ExpandSlots(request[q].period)
  IN  /\ request[q].status = "APPROVED" <=> ActiveOf(q) # {}
      /\ \A i \in ActiveOf(q) :
           /\ reservation[i].resource = request[q].assigned
           /\ \E k \in DOMAIN slots : /\ slots[k].start = reservation[i].start
                                     /\ slots[k].end = reservation[i].end
      /\ \A i, j \in ActiveOf(q) : Overlaps(reservation[i], reservation[j]) => i = j

\* An actor is done with request q, which is not what the actor had loaded.
Overtaken(q) ==
  \/ \E s \in Staff : /\ FormEnds(s)
                      /\ task[s].q = q
                      /\ task[s].seen # request[q]
  \/ \E t \in Thread : /\ task[t].at = "releasing" /\ task'[t] = Idle
                       /\ task[t].q = q
                       /\ task[t].approved # (request[q].status = "APPROVED")

\* Two members of staff and the threads of the calendar at once: a booking that
\* is whole comes apart in one way only, by an actor who decides on a row it had
\* loaded before somebody else changed it.  Everything else that interleaves
\* (slots released while they are cancelled or amended, entries, imports,
\* decisions on other requests) leaves it whole.
KeepsBookings ==
  \A q \in DOMAIN request' :
    \/ BookingIsWhole(q)'
    \/ /\ q \in DOMAIN request
       /\ ~ BookingIsWhole(q) \/ Overtaken(q)

BookingsBreakOnlyByOvertaking == [][KeepsBookings]_vars

\* A new booking is on a robot in service (approve_request, amend_request).
BooksInService ==
  \A n \in DOMAIN reservation' \ DOMAIN reservation :
    reservation'[n].source = "BOOKING"
      => resourceStatus[reservation'[n].resource] = "Active"

\* Asked of staff, whose robot may be set Out of Service while they have the form:
\* the robot pages share the event loop, so nothing comes between the test of the
\* status and the commit.  The worker is not on that loop and may book a robot on
\* the status its session has loaded before.
FormsBookInService == (\E s \in Staff : FormEnds(s)) => BooksInService

StaffBookInService == [][FormsBookInService]_vars

=============================================================================
