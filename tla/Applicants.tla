----------------------------- MODULE Applicants ------------------------------
(***************************************************************************)
(* Who a booking request is for (upsert_applicant and lookup_applicant_    *)
(* history of app/services/booking_service.py).  Requests of one person    *)
(* are meant to share one record, found by the SID/NetID or, for want of   *)
(* one, by name; saving an edited request corrects its record in place.    *)
(*                                                                         *)
(* The forms of the request pages are coroutines: a request is loaded      *)
(* before its form is awaited, the rest runs without giving way.  The      *)
(* queue worker is another process and may commit between a handler's      *)
(* SELECT and its flush, from which on SQLite's write lock is held.        *)
(***************************************************************************)
EXTENDS BorrowerColours

CONSTANTS
  Sid,            \* SIDs and NetIDs
  Blank,          \* an empty SID field
  NoSid,          \* SQL NULL in sid_netid
  Name,           \* names of people, up to case
  Staff,          \* concurrent requests on the event loop
  Worker,         \* the queue worker
  PaletteSize,    \* number of colours
  Preferences,    \* hash functions: which colour each key prefers
  MaxRequests     \* bound on the rows of booking_requests

ASSUME ApplicantAssumption ==
  /\ NoSid \notin Sid /\ Blank \notin Sid \union {NoSid}
  /\ MaxRequests \in Nat
  /\ PaletteSize \in Nat \ {0}
  /\ Preferences \subseteq [1 .. MaxRequests -> 0 .. PaletteSize - 1]

Actor == Staff \union Worker

VARIABLES
  applicant,    \* table applicants: a row's index is its id
  owner,        \* applicant_id of each row of booking_requests
  task          \* what each actor is in the middle of

tables == <<applicant, owner>>
vars == <<applicant, owner, task>>

ApplicantRow == [sid : Sid \union {NoSid}, name : Name]

NoRequest == 0      \* the request is not saved yet
NewRecord == 0      \* there is no applicant to reuse

Idle == [at |-> "idle"]

Init ==
  /\ applicant = << >>
  /\ owner = << >>
  /\ task = [a \in Actor |-> Idle]

-----------------------------------------------------------------------------

\* A deviation: a blank SID is stored as it is.
Uncleaned(sid) == sid

\* (sid_netid or "").strip() or None
Cleaned(sid) == IF sid = Blank THEN NoSid ELSE sid

Holders(sid) == {a \in DOMAIN applicant : sid # NoSid /\ applicant[a].sid = sid}

\* People without a SID who have this name.
Namesakes(name) ==
  {a \in DOMAIN applicant : applicant[a].sid = NoSid /\ applicant[a].name = name}

\* A deviation: an edit is treated like a new application.
TargetsForgettingCurrent(sid, name, current) ==
  CASE Holders(sid) # {} -> Holders(sid)
    [] Holders(sid) = {} /\ sid = NoSid /\ Namesakes(name) # {} -> Namesakes(name)
    [] OTHER -> {NewRecord}

\* A deviation: a saved request keeps its applicant whatever the SID.
TargetsKeepingCurrent(sid, name, current) ==
  CASE current # NewRecord -> {current}
    [] current = NewRecord /\ Holders(sid) # {} -> Holders(sid)
    [] current = NewRecord /\ Holders(sid) = {} /\ sid = NoSid /\ Namesakes(name) # {} ->
         Namesakes(name)
    [] OTHER -> {NewRecord}

\* Which record upsert_applicant settles on: the SID decides; a saved request
\* keeps its applicant (current); a name only finds people without a SID (which
\* of several, the query leaves open).
Targets(sid, name, current) ==
  CASE Holders(sid) # {} -> Holders(sid)
    [] Holders(sid) = {} /\ current # NewRecord -> {current}
    [] Holders(sid) = {} /\ current = NewRecord /\ sid = NoSid /\ Namesakes(name) # {} ->
         Namesakes(name)
    [] OTHER -> {NewRecord}

\* A deviation: only a record without a SID is given one.
CorrectedIfMissing(row, sid, name) ==
  [sid |-> IF row.sid = NoSid THEN sid ELSE row.sid, name |-> name]

\* The record as the form has it; a blank SID takes none away.
Corrected(row, sid, name) ==
  [sid |-> IF sid = NoSid THEN row.sid ELSE sid, name |-> name]

\* _apply_fields up to its first flush.  q was loaded with the applicant current;
\* raced, for the properties only: somebody has committed since.
Saving(q, current, sid, name, target) ==
  [at |-> "saving", q |-> q, current |-> current, sid |-> sid, target |-> target,
   raced |-> FALSE,
   seen |-> IF target = NewRecord THEN [sid |-> sid, name |-> name]
                                  ELSE applicant[target],
   next |-> IF target = NewRecord THEN [sid |-> sid, name |-> name]
                                  ELSE Corrected(applicant[target], sid, name)]

Goto(a, t) == task' = [task EXCEPT ![a] = t]

\* Between its form and its commit a coroutine does not give way to another.
LoopIsFree == \A s \in Staff : task[s].at # "saving"

MayRun(a) == a \in Staff => LoopIsFree

\* A new application: a form, or a file the worker imports.
CheckNew(a, sid, name) ==
  /\ MayRun(a)
  /\ task[a] = Idle
  /\ Len(owner) < MaxRequests
  /\ \E target \in Targets(Cleaned(sid), name, NewRecord) :
       Goto(a, Saving(NoRequest, NewRecord, Cleaned(sid), name, target))
  /\ UNCHANGED tables

\* _load(), then `await request.form()`.
Load(s, q) ==
  /\ MayRun(s)
  /\ task[s] = Idle
  /\ Goto(s, [at |-> "awaiting form", q |-> q, current |-> owner[q]])
  /\ UNCHANGED tables

\* The form of a saved request: save_request or amend_request.
CheckEdit(s, sid, name) ==
  /\ MayRun(s)
  /\ task[s].at = "awaiting form"
  /\ \E target \in Targets(Cleaned(sid), name, task[s].current) :
       Goto(s, Saving(task[s].q, task[s].current, Cleaned(sid), name, target))
  /\ UNCHANGED tables

\* The unique constraint on sid_netid; NULLs do not count.
DistinctSids(rows) ==
  \A a, b \in DOMAIN rows : a # b /\ rows[a].sid # NoSid => rows[a].sid # rows[b].sid

\* An UPDATE writes the columns the handler changed.
WriteBack(row, seen, next) ==
  [column \in DOMAIN row |-> IF next[column] # seen[column] THEN next[column]
                                                            ELSE row[column]]

\* What the flush of an applicant makes of the table.
Flushed(t) ==
  IF t.target = NewRecord
    THEN Append(applicant, t.next)
    ELSE [applicant EXCEPT ![t.target] = WriteBack(@, t.seen, t.next)]

\* The applicant is flushed first and gives the request its id; then the request
\* is flushed, whose applicant_id is written if it is not the one that was loaded.
Commit(a) ==
  LET t  == task[a]
      id == IF t.target = NewRecord THEN Len(applicant) + 1 ELSE t.target
  IN  /\ t.at = "saving"
      /\ applicant' = Flushed(t)
      /\ DistinctSids(applicant')
      /\ IF t.q = NoRequest
           THEN Len(owner) < MaxRequests /\ owner' = Append(owner, id)
           ELSE owner' = [owner EXCEPT ![t.q] = IF id # t.current THEN id ELSE @]
      /\ task' = [b \in Actor |->
                    CASE b = a -> Idle
                      [] b # a /\ task[b].at = "saving" -> [task[b] EXCEPT !.raced = TRUE]
                      [] OTHER -> task[b]]

\* The constraint, another rule of save_request or amend_request, or a locked
\* database: nothing is saved.
Rollback(a) ==
  /\ task[a] # Idle
  /\ Goto(a, Idle)
  /\ UNCHANGED tables

Next ==
  \E a \in Actor :
    \/ \E sid \in Sid \union {Blank}, name \in Name :
         \/ CheckNew(a, sid, name)
         \/ a \in Staff /\ CheckEdit(a, sid, name)
    \/ \E q \in DOMAIN owner : a \in Staff /\ Load(a, q)
    \/ Commit(a)
    \/ Rollback(a)

Spec == Init /\ [][Next]_vars

-----------------------------------------------------------------------------

\* A deviation: the preview names one person only.
FirstOfName(sid, name) ==
  IF Holders(sid) # {} THEN Holders(sid)
  ELSE {a \in DOMAIN applicant :
          /\ applicant[a].name = name
          /\ \A b \in DOMAIN applicant : applicant[b].name = name => a <= b}

\* lookup_applicant_history: whom the preview of an application names, as the
\* match or among the people of the same name.
ShownOnPreview(sid, name) ==
  Holders(sid) \union {a \in DOMAIN applicant : applicant[a].name = name}

-----------------------------------------------------------------------------

TypeOK ==
  /\ applicant \in Seq(ApplicantRow)
  /\ owner \in Seq(DOMAIN applicant)
  /\ \A a \in Actor : task[a].at \in {"idle", "awaiting form", "saving"}

\* The unique constraint on sid_netid, which the handlers do not catch, never
\* strikes a handler that is alone: looking a SID up and inserting it are two
\* steps, and only a commit in between can make the second one fail.
RefusedOnlyByARace ==
  \A a \in Actor :
    LET t == task[a]
    IN  t.at = "saving" /\ ~ t.raced => DistinctSids(Flushed(t))

\* The preview leaves out nobody the application may end up with, so staff can
\* see whose history it will join.
PreviewCoversChoice ==
  \A sid \in Sid \union {Blank}, name \in Name :
    Targets(Cleaned(sid), name, NewRecord) \ {NewRecord}
      \subseteq ShownOnPreview(Cleaned(sid), name)

\* As long as the palette has enough colours, no two borrowers of a page have the
\* same one, whatever their keys hash to; the page here is the request list.
ColoursApart ==
  LET visible == {owner[q] : q \in DOMAIN owner}
  IN  Cardinality(visible) <= PaletteSize =>
        \A preference \in Preferences :
          LET colour == DistinctColours(PaletteSize, preference, visible)
          IN  /\ DOMAIN colour = visible
              /\ \A a, b \in visible : a # b => colour[a] # colour[b]

\* A saved request only moves to another applicant if that record carried the SID
\* of the form before: an edit never splits off a record of its own, and neither
\* an import nor an edit of another request moves anybody.
MovesOnlyToHolder ==
  [][\A q \in DOMAIN owner :
       owner'[q] # owner[q] =>
         \E s \in Staff :
           /\ task[s].at = "saving" /\ task[s].q = q /\ task[s].sid # NoSid
           /\ owner'[q] \in Holders(task[s].sid)]_vars

\* The request that a committed form saves comes out under the SID of that form,
\* unless another form moved the request while this one was filled in.  (It is
\* not so for an import: a form may correct the SID of the record the worker has
\* just found.)
SavedUnderItsSid ==
  [][\A s \in Staff :
       LET t == task[s]
           q == IF t.q = NoRequest THEN Len(owner') ELSE t.q
       IN  /\ t.at = "saving" /\ task'[s] = Idle /\ tables' # tables
           /\ t.sid # NoSid
           /\ t.q # NoRequest => owner[t.q] = t.current
           => applicant'[owner'[q]].sid = t.sid]_vars

=============================================================================
