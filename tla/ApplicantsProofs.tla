--------------------------- MODULE ApplicantsProofs ---------------------------
(***************************************************************************)
(* Theorems about Applicants, for any SIDs, names, forms and hashes and    *)
(* any number of actors and requests.                                      *)
(***************************************************************************)
EXTENDS Applicants, SequenceTheorems, FiniteSetTheorems, WellFoundedInduction, TLAPS

\* No restriction: the numbers of the requests and records that are there.
Requests == DOMAIN owner
Records == DOMAIN applicant

AwaitingForm == [at : {"awaiting form"}, q : Requests, current : Records]

BeingSaved ==
  [at : {"saving"}, q : Requests \union {NoRequest},
   current : Records \union {NewRecord}, sid : Sid \union {NoSid},
   target : Records \union {NewRecord}, raced : BOOLEAN,
   seen : ApplicantRow, next : ApplicantRow]

Typed ==
  /\ applicant \in Seq(ApplicantRow)
  /\ owner \in Seq(Nat)
  /\ \A q \in Requests : owner[q] \in Records
  /\ task \in [Actor -> {Idle} \union AwaitingForm \union BeingSaved]

\* One form at a time is between its check and its commit.
OneForm ==
  \A s, u \in Staff : task[s].at = "saving" /\ task[u].at = "saving" => s = u

\* The worker edits nothing, and a new application corrects no SID.
NewKeepsSids(a, t) ==
  /\ a \notin Staff => t.q = NoRequest
  /\ t.q = NoRequest /\ t.target # NewRecord => t.next.sid = t.seen.sid

\* An edit has a record, its own or the one with the SID of its form.
EditHasRecord(t) ==
  t.q # NoRequest =>
    /\ t.target # NewRecord
    /\ t.current # NewRecord
    /\ t.target # t.current => t.sid # NoSid /\ applicant[t.target].sid = t.sid

\* The record of a form with a SID will have that SID: it is written, or it is
\* there already and only another form could change it.
FormSidStays(a, t) ==
  a \in Staff /\ t.sid # NoSid =>
    /\ t.next.sid = t.sid
    /\ t.target # NewRecord /\ t.seen.sid = t.sid => applicant[t.target].sid = t.sid

\* Until somebody else commits, what was looked up is so: the record to be
\* corrected has not changed, and a SID that is new to it is nobody's.
LookupHolds(t) ==
  ~ t.raced =>
    /\ t.target # NewRecord => t.seen = applicant[t.target]
    /\ t.next.sid # NoSid /\ (t.target = NewRecord \/ t.next.sid # t.seen.sid)
         => \A b \in Records : applicant[b].sid # t.next.sid

SavingOK(a) ==
  task[a].at = "saving" =>
    /\ NewKeepsSids(a, task[a])
    /\ EditHasRecord(task[a])
    /\ FormSidStays(a, task[a])
    /\ LookupHolds(task[a])

SavesOK == \A a \in Actor : SavingOK(a)

IInv == Typed /\ OneForm /\ SavesOK /\ DistinctSids(applicant)

-----------------------------------------------------------------------------

\* The parts of a task, by the step it is at.
LEMMA TaskParts ==
  ASSUME Typed, NEW a \in Actor
  PROVE  /\ task[a].at \in {"idle", "awaiting form", "saving"}
         /\ task[a].at = "awaiting form" => task[a] \in AwaitingForm
         /\ task[a].at = "saving" => task[a] \in BeingSaved
<1>1. task[a] \in {Idle} \union AwaitingForm \union BeingSaved
  BY DEF Typed
<1>2. CASE task[a] = Idle
  BY <1>2 DEF Idle
<1>3. CASE task[a] \in AwaitingForm
  BY <1>3 DEF AwaitingForm
<1>4. CASE task[a] \in BeingSaved
  BY <1>4 DEF BeingSaved
<1>. QED
  BY <1>1, <1>2, <1>3, <1>4

\* An UPDATE leaves a row, and the SID is one of the two it may be.
LEMMA WrittenBack ==
  ASSUME NEW row \in ApplicantRow, NEW seen \in ApplicantRow,
         NEW next \in ApplicantRow
  PROVE  /\ WriteBack(row, seen, next) \in ApplicantRow
         /\ WriteBack(row, seen, next).sid =
              IF next.sid # seen.sid THEN next.sid ELSE row.sid
<1>1. DOMAIN row = {"sid", "name"}
  BY DEF ApplicantRow
<1>. QED
  BY <1>1 DEF WriteBack, ApplicantRow

\* What the choice of upsert_applicant can be.
LEMMA TargetsType ==
  ASSUME Typed, NEW sid \in Sid \union {NoSid}, NEW name \in Name,
         NEW current \in Records \union {NewRecord},
         NEW target \in Targets(sid, name, current)
  PROVE  \/ /\ target \in Records
            /\ sid # NoSid
            /\ applicant[target].sid = sid
         \/ /\ \A b \in Records : sid # NoSid => applicant[b].sid # sid
            /\ \/ /\ current # NewRecord
                  /\ target = current
               \/ /\ current = NewRecord
                  /\ \/ target = NewRecord
                     \/ target \in Records /\ sid = NoSid
  BY DEF Targets, Holders, Namesakes, Records, NewRecord

\* A form or an application that has been looked up.
LEMMA SavingType ==
  ASSUME Typed, NEW sid \in Sid \union {NoSid}, NEW name \in Name,
         NEW q \in Requests \union {NoRequest},
         NEW current \in Records \union {NewRecord},
         NEW target \in Targets(sid, name, current),
         NEW a \in Actor,
         q = NoRequest <=> current = NewRecord,
         a \notin Staff => q = NoRequest
  PROVE  LET t == Saving(q, current, sid, name, target)
         IN  /\ t \in BeingSaved
             /\ NewKeepsSids(a, t)
             /\ EditHasRecord(t)
             /\ FormSidStays(a, t)
             /\ LookupHolds(t)
<1>. DEFINE t == Saving(q, current, sid, name, target)
<1>1. target \in Records \union {NewRecord}
  BY TargetsType
<1>2. target # NewRecord => applicant[target] \in ApplicantRow
  BY <1>1 DEF Typed, Records, NewRecord
<1>3. [sid |-> sid, name |-> name] \in ApplicantRow
  BY DEF ApplicantRow
<1>4. target # NewRecord => Corrected(applicant[target], sid, name) \in ApplicantRow
  BY <1>2 DEF Corrected, ApplicantRow
<1>5. t \in BeingSaved
  BY <1>1, <1>2, <1>3, <1>4 DEF Saving, BeingSaved
<1>6. t.next.sid = IF target = NewRecord THEN sid
                   ELSE IF sid = NoSid THEN applicant[target].sid ELSE sid
  BY DEF Saving, Corrected
<1>7. target # NewRecord => t.seen = applicant[target]
  BY DEF Saving
<1>8. t.q = q /\ t.current = current /\ t.target = target /\ t.sid = sid
  BY DEF Saving
<1>9. NewRecord \notin Records
  BY DEF Records, NewRecord, Typed
<1>10. \/ /\ target \in Records
          /\ sid # NoSid
          /\ applicant[target].sid = sid
       \/ /\ \A b \in Records : sid # NoSid => applicant[b].sid # sid
          /\ \/ /\ current # NewRecord
                /\ target = current
             \/ /\ current = NewRecord
                /\ \/ target = NewRecord
                   \/ target \in Records /\ sid = NoSid
  BY TargetsType
<1>. HIDE DEF t
<1>11. NewKeepsSids(a, t)
  BY <1>6, <1>7, <1>8, <1>9, <1>10 DEF NewKeepsSids
<1>12. EditHasRecord(t)
  BY <1>8, <1>9, <1>10 DEF EditHasRecord
<1>13. LookupHolds(t)
  BY <1>6, <1>7, <1>8, <1>9, <1>10 DEF LookupHolds
<1>14. FormSidStays(a, t)
  BY <1>6, <1>7, <1>8 DEF FormSidStays
<1>. QED
  BY <1>5, <1>11, <1>12, <1>13, <1>14 DEF t

-----------------------------------------------------------------------------

\* At the start the tables are empty and nobody is at work: IInv holds.
LEMMA InitIInv == Init => IInv
<1>. SUFFICES ASSUME Init PROVE IInv
  OBVIOUS
<1>1. \A a \in Actor : task[a] = Idle /\ task[a].at = "idle"
  BY DEF Init, Idle
<1>2. Typed
  BY DEF Init, Typed, Requests, Records
<1>3. OneForm /\ SavesOK
  BY <1>1 DEF OneForm, SavesOK, SavingOK, Actor
<1>4. DistinctSids(applicant)
  BY DEF Init, DistinctSids
<1>. QED
  BY <1>2, <1>3, <1>4 DEF IInv

\* A step of one actor that leaves the tables.
LEMMA GotoKeepsIInv ==
  ASSUME IInv, NEW a \in Actor,
         NEW t \in {Idle} \union AwaitingForm \union BeingSaved,
         Goto(a, t), UNCHANGED tables,
         t.at = "saving" => /\ MayRun(a)
                            /\ NewKeepsSids(a, t)
                            /\ EditHasRecord(t)
                            /\ FormSidStays(a, t)
                            /\ LookupHolds(t)
  PROVE  IInv'
<1>1. /\ task \in [Actor -> {Idle} \union AwaitingForm \union BeingSaved]
      /\ task' = [task EXCEPT ![a] = t]
      /\ applicant' = applicant /\ owner' = owner
  BY DEF IInv, Typed, Goto, tables
<1>2. /\ Requests' = Requests /\ Records' = Records
      /\ AwaitingForm' = AwaitingForm /\ BeingSaved' = BeingSaved
  BY <1>1 DEF Requests, Records, AwaitingForm, BeingSaved
<1>3. \A b \in Actor : task'[b] = IF b = a THEN t ELSE task[b]
  BY <1>1
<1>4. Typed'
  BY <1>1, <1>2 DEF IInv, Typed
<1>5. OneForm'
  BY <1>3 DEF IInv, OneForm, MayRun, LoopIsFree, Actor
<1>6. ASSUME NEW b \in Actor, task'[b].at = "saving"
      PROVE  /\ NewKeepsSids(b, task'[b])
             /\ EditHasRecord(task'[b])
             /\ FormSidStays(b, task'[b])
             /\ LookupHolds(task'[b])
  BY <1>3, <1>6 DEF IInv, SavesOK, SavingOK
<1>7. SavesOK'
  <2>. SUFFICES ASSUME NEW b \in Actor, task'[b].at = "saving"
                PROVE  /\ NewKeepsSids(b, task'[b])
                       /\ EditHasRecord(task[b])'
                       /\ FormSidStays(b, task[b])'
                       /\ LookupHolds(task[b])'
    BY DEF SavesOK, SavingOK, NewKeepsSids
  <2>. QED
    BY <1>1, <1>2, <1>6 DEF EditHasRecord, FormSidStays, LookupHolds
<1>8. DistinctSids(applicant)'
  BY <1>1 DEF IInv
<1>. QED
  BY <1>4, <1>5, <1>7, <1>8 DEF IInv

\* What a commit does to the records: it adds one, or changes one whose SID it
\* only touches on behalf of an edit.
LEMMA CommitRecords ==
  ASSUME IInv, NEW a \in Actor, Commit(a)
  PROVE  /\ applicant' \in Seq(ApplicantRow)
         /\ Records \subseteq Records'
         /\ task[a].target = NewRecord => Len(applicant) + 1 \in Records'
         /\ task[a].q = NoRequest =>
              \A b \in Records : applicant'[b].sid = applicant[b].sid
<1>. DEFINE t == task[a]
<1>1. t \in BeingSaved /\ NewKeepsSids(a, t) /\ applicant \in Seq(ApplicantRow)
  BY TaskParts DEF IInv, Typed, SavesOK, SavingOK, Commit
<1>2. applicant' = Flushed(t)
  BY DEF Commit
<1>3. /\ t.seen \in ApplicantRow /\ t.next \in ApplicantRow
      /\ t.target \in Records \union {NewRecord}
  BY <1>1 DEF BeingSaved
<1>. HIDE DEF t
<1>4. CASE t.target = NewRecord
  <2>1. applicant' = Append(applicant, t.next)
    BY <1>2, <1>4 DEF Flushed
  <2>. QED
    BY <2>1, <1>1, <1>3, <1>4 DEF Records, t
<1>5. CASE t.target # NewRecord
  <2>. DEFINE row == WriteBack(applicant[t.target], t.seen, t.next)
  <2>1. t.target \in Records /\ applicant[t.target] \in ApplicantRow
    BY <1>1, <1>3, <1>5 DEF Records
  <2>2. /\ row \in ApplicantRow
        /\ row.sid = IF t.next.sid # t.seen.sid THEN t.next.sid
                                                ELSE applicant[t.target].sid
    BY <2>1, <1>3, WrittenBack
  <2>. HIDE DEF row
  <2>3. applicant' = [applicant EXCEPT ![t.target] = row]
    BY <1>2, <1>5 DEF Flushed, row
  <2>4. t.q = NoRequest => t.next.sid = t.seen.sid
    BY <1>1, <1>5 DEF NewKeepsSids
  <2>. QED
    BY <2>1, <2>2, <2>3, <2>4, <1>1, <1>5 DEF Records, t
<1>. QED
  BY <1>4, <1>5

\* What it does to the requests.
LEMMA CommitRequests ==
  ASSUME IInv, NEW a \in Actor, Commit(a)
  PROVE  /\ owner' \in Seq(Nat)
         /\ Requests \subseteq Requests'
         /\ \A q \in Requests' : owner'[q] \in Records'
<1>. DEFINE t == task[a]
            id == IF t.target = NewRecord THEN Len(applicant) + 1 ELSE t.target
<1>1. /\ t \in BeingSaved /\ owner \in Seq(Nat) /\ applicant \in Seq(ApplicantRow)
      /\ \A q \in Requests : owner[q] \in Records
  BY TaskParts DEF IInv, Typed, Commit
<1>2. t.q \in Requests \union {NoRequest} /\ t.target \in Records \union {NewRecord}
  BY <1>1 DEF BeingSaved
<1>3. Records \subseteq Records' /\ id \in Records' /\ id \in Nat
  BY <1>1, <1>2, CommitRecords DEF Records
<1>4. IF t.q = NoRequest
        THEN owner' = Append(owner, id)
        ELSE owner' = [owner EXCEPT ![t.q] = IF id # t.current THEN id ELSE @]
  BY DEF Commit
<1>. HIDE DEF t, id
<1>5. CASE t.q = NoRequest
  <2>1. owner' = Append(owner, id)
    BY <1>4, <1>5
  <2>2. owner' \in Seq(Nat) /\ Requests' = Requests \union {Len(owner) + 1}
    BY <2>1, <1>1, <1>3 DEF Requests
  <2>3. \A q \in Requests : owner'[q] = owner[q]
    BY <2>1, <1>1 DEF Requests
  <2>4. owner'[Len(owner) + 1] = id
    BY <2>1, <1>1, <1>3
  <2>. QED
    BY <2>2, <2>3, <2>4, <1>1, <1>3
<1>6. CASE t.q # NoRequest
  <2>. DEFINE new == IF id # t.current THEN id ELSE owner[t.q]
  <2>1. t.q \in Requests
    BY <1>2, <1>6
  <2>2. owner' = [owner EXCEPT ![t.q] = new]
    BY <1>4, <1>6, <2>1, <1>1 DEF Requests
  <2>3. new \in Records' /\ new \in Nat
    BY <2>1, <1>1, <1>3 DEF Requests
  <2>. HIDE DEF new
  <2>4. owner' \in Seq(Nat) /\ Requests' = Requests
    BY <2>1, <2>2, <2>3, <1>1 DEF Requests
  <2>5. \A q \in Requests : owner'[q] = IF q = t.q THEN new ELSE owner[q]
    BY <2>1, <2>2, <1>1 DEF Requests
  <2>. QED
    BY <2>3, <2>4, <2>5, <1>1, <1>3
<1>. QED
  BY <1>5, <1>6

\* Saving a form or an application keeps IInv: the record written is the one
\* the lookup settled on, and the SIDs stay distinct.
LEMMA CommitKeepsIInv ==
  ASSUME IInv, NEW a \in Actor, Commit(a)
  PROVE  IInv'
<1>1. \A b \in Actor :
        task'[b] = IF b = a THEN Idle
                   ELSE IF task[b].at = "saving" THEN [task[b] EXCEPT !.raced = TRUE]
                   ELSE task[b]
  BY DEF Commit
<1>2. task \in [Actor -> {Idle} \union AwaitingForm \union BeingSaved]
  BY DEF IInv, Typed
<1>3. \A b \in Actor : task'[b] \in {Idle} \union AwaitingForm \union BeingSaved
  <2>. SUFFICES ASSUME NEW b \in Actor
                PROVE  task'[b] \in {Idle} \union AwaitingForm \union BeingSaved
    OBVIOUS
  <2>1. task[b].at = "saving" => [task[b] EXCEPT !.raced = TRUE] \in BeingSaved
    BY TaskParts DEF IInv, BeingSaved
  <2>. QED
    BY <2>1, <1>1, <1>2
<1>4. AwaitingForm \subseteq AwaitingForm' /\ BeingSaved \subseteq BeingSaved'
  BY CommitRecords, CommitRequests DEF AwaitingForm, BeingSaved
<1>5. task' \in [Actor -> {Idle} \union AwaitingForm' \union BeingSaved']
  <2>1. task' = [b \in Actor |-> task'[b]]
    BY DEF Commit
  <2>. QED
    BY <2>1, <1>3, <1>4
<1>6. Typed'
  BY <1>5, CommitRecords, CommitRequests DEF Typed
<1>7. \A b \in Actor : task'[b].at = "saving" =>
        /\ b # a
        /\ task[b].at = "saving"
        /\ task[b] \in BeingSaved
        /\ task'[b] = [task[b] EXCEPT !.raced = TRUE]
  <2>. SUFFICES ASSUME NEW b \in Actor, task'[b].at = "saving"
                PROVE  /\ b # a
                       /\ task[b].at = "saving"
                       /\ task[b] \in BeingSaved
                       /\ task'[b] = [task[b] EXCEPT !.raced = TRUE]
    OBVIOUS
  <2>1. Idle.at # "saving"
    BY DEF Idle
  <2>2. b # a /\ task[b].at = "saving"
    BY <2>1, <1>1
  <2>. QED
    BY <2>2, <1>1, TaskParts DEF IInv
<1>8. OneForm'
  BY <1>7 DEF IInv, OneForm, Actor
<1>9. ASSUME NEW b \in Actor, task'[b].at = "saving"
      PROVE  /\ NewKeepsSids(b, task'[b])
             /\ EditHasRecord(task[b])'
             /\ FormSidStays(b, task[b])'
             /\ LookupHolds(task[b])'
  <2>. DEFINE t == task[b]
  <2>1. /\ b # a /\ t.at = "saving" /\ t \in BeingSaved
        /\ task'[b] = [t EXCEPT !.raced = TRUE]
        /\ NewKeepsSids(b, t) /\ EditHasRecord(t) /\ FormSidStays(b, t)
    BY <1>7, <1>9 DEF IInv, SavesOK, SavingOK
  <2>2. b \in Staff => task[a].q = NoRequest
    BY <2>1 DEF IInv, OneForm, SavesOK, SavingOK, NewKeepsSids, Commit
  <2>3. b \in Staff => \A n \in Records : applicant'[n].sid = applicant[n].sid
    BY <2>1, <2>2, CommitRecords DEF NewKeepsSids
  <2>. HIDE DEF t
  <2>4. LET u == task'[b]
        IN  /\ u.q = t.q /\ u.target = t.target /\ u.current = t.current
            /\ u.sid = t.sid /\ u.seen = t.seen /\ u.next = t.next
            /\ u.raced = TRUE
    BY <2>1 DEF BeingSaved
  <2>5. t.target \in Records \union {NewRecord}
    BY <2>1 DEF BeingSaved
  <2>6. NewKeepsSids(b, task'[b])
    BY <2>1, <2>4 DEF NewKeepsSids
  <2>7. EditHasRecord(task[b])'
    BY <2>1, <2>6, <2>3, <2>4, <2>5 DEF EditHasRecord, NewKeepsSids
  <2>8. LookupHolds(task[b])'
    BY <2>4 DEF LookupHolds
  <2>9. FormSidStays(b, task[b])'
    BY <2>1, <2>3, <2>4, <2>5 DEF FormSidStays
  <2>. QED
    BY <2>6, <2>7, <2>8, <2>9
<1>10. SavesOK'
  BY <1>9 DEF SavesOK, SavingOK, NewKeepsSids
<1>11. DistinctSids(applicant)'
  BY DEF Commit, DistinctSids
<1>. QED
  BY <1>6, <1>8, <1>10, <1>11 DEF IInv

\* Every step keeps IInv.
LEMMA NextKeepsIInv == IInv /\ [Next]_vars => IInv'
<1>. SUFFICES ASSUME IInv, [Next]_vars PROVE IInv'
  OBVIOUS
<1>1. Typed
  BY DEF IInv
<1>2. ASSUME NEW a \in Actor, NEW sid \in Sid \union {Blank}, NEW name \in Name,
             CheckNew(a, sid, name)
      PROVE  IInv'
  <2>1. PICK target \in Targets(Cleaned(sid), name, NewRecord) :
          Goto(a, Saving(NoRequest, NewRecord, Cleaned(sid), name, target))
    BY <1>2 DEF CheckNew
  <2>. DEFINE t == Saving(NoRequest, NewRecord, Cleaned(sid), name, target)
  <2>2. Cleaned(sid) \in Sid \union {NoSid}
    BY DEF Cleaned
  <2>3. /\ t \in BeingSaved /\ NewKeepsSids(a, t) /\ EditHasRecord(t)
        /\ FormSidStays(a, t) /\ LookupHolds(t)
    BY <1>1, <2>2, SavingType
  <2>4. MayRun(a) /\ UNCHANGED tables
    BY <1>2 DEF CheckNew
  <2>. HIDE DEF t
  <2>. QED
    BY <2>1, <2>3, <2>4, GotoKeepsIInv DEF t
<1>3. ASSUME NEW s \in Staff, NEW q \in Requests, Load(s, q)
      PROVE  IInv'
  <2>. DEFINE t == [at |-> "awaiting form", q |-> q, current |-> owner[q]]
  <2>1. t \in AwaitingForm /\ t.at # "saving"
    BY <1>1 DEF Typed, AwaitingForm
  <2>2. Goto(s, t) /\ UNCHANGED tables /\ s \in Actor
    BY <1>3 DEF Load, Actor
  <2>. HIDE DEF t
  <2>. QED
    BY <2>1, <2>2, GotoKeepsIInv
<1>4. ASSUME NEW s \in Staff, NEW sid \in Sid \union {Blank}, NEW name \in Name,
             CheckEdit(s, sid, name)
      PROVE  IInv'
  <2>1. PICK target \in Targets(Cleaned(sid), name, task[s].current) :
          Goto(s, Saving(task[s].q, task[s].current, Cleaned(sid), name, target))
    BY <1>4 DEF CheckEdit
  <2>. DEFINE t == Saving(task[s].q, task[s].current, Cleaned(sid), name, target)
  <2>2. Cleaned(sid) \in Sid \union {NoSid}
    BY DEF Cleaned
  <2>3. s \in Actor
    BY DEF Actor
  <2>4. task[s] \in AwaitingForm
    BY <1>1, <1>4, <2>3, TaskParts DEF CheckEdit
  <2>5. /\ task[s].q \in Requests /\ task[s].current \in Records
        /\ task[s].q # NoRequest /\ task[s].current # NewRecord
    <3>1. task[s].q \in Requests /\ task[s].current \in Records
      BY <2>4 DEF AwaitingForm
    <3>2. 0 \notin Requests /\ 0 \notin Records
      BY <1>1 DEF Typed, Requests, Records
    <3>. QED
      BY <3>1, <3>2 DEF NoRequest, NewRecord
  <2>6. /\ t \in BeingSaved /\ NewKeepsSids(s, t) /\ EditHasRecord(t)
        /\ FormSidStays(s, t) /\ LookupHolds(t)
    BY <1>1, <2>2, <2>3, <2>5, SavingType
  <2>7. MayRun(s) /\ UNCHANGED tables
    BY <1>4 DEF CheckEdit
  <2>. HIDE DEF t
  <2>. QED
    BY <2>1, <2>3, <2>6, <2>7, GotoKeepsIInv DEF t
<1>5. ASSUME NEW a \in Actor, Rollback(a)
      PROVE  IInv'
  BY <1>5, GotoKeepsIInv DEF Rollback, Idle
<1>6. CASE UNCHANGED vars
  <2>1. /\ applicant' = applicant /\ owner' = owner /\ task' = task
    BY <1>6 DEF vars
  <2>. QED
    BY <2>1 DEF IInv, Typed, OneForm, SavesOK, SavingOK, NewKeepsSids, EditHasRecord,
                FormSidStays, LookupHolds, DistinctSids, Requests, Records,
                AwaitingForm, BeingSaved
<1>7. CASE Next
  BY <1>2, <1>3, <1>4, <1>5, <1>7, CommitKeepsIInv DEF Next, Requests
<1>. QED
  BY <1>6, <1>7

\* IInv holds of every reachable state.
LEMMA Invariance == Spec => []IInv
  BY InitIInv, NextKeepsIInv, PTL DEF Spec

-----------------------------------------------------------------------------

\* Every request has an applicant, and every applicant a proper row: an empty SID
\* field never gets into the table.
THEOREM TypeCorrect == Spec => []TypeOK
<1>1. IInv => TypeOK
  <2>. SUFFICES ASSUME IInv PROVE TypeOK
    OBVIOUS
  <2>1. owner \in Seq(DOMAIN applicant)
    BY DEF IInv, Typed, Requests, Records
  <2>2. \A a \in Actor : task[a].at \in {"idle", "awaiting form", "saving"}
    BY TaskParts DEF IInv
  <2>. QED
    BY <2>1, <2>2 DEF IInv, Typed, TypeOK
<1>. QED
  BY <1>1, Invariance, PTL

\* The unique constraint on SIDs refuses nothing that was not overtaken by
\* another commit.
THEOREM NoLoneRefusal == Spec => []RefusedOnlyByARace
<1>1. IInv => RefusedOnlyByARace
  <2>. SUFFICES ASSUME IInv,
                       NEW a \in Actor, task[a].at = "saving", ~ task[a].raced
                PROVE  DistinctSids(Flushed(task[a]))
    <3>. HIDE DEF IInv
    <3>. QED
      BY Zenon DEF RefusedOnlyByARace
  <2>. DEFINE t == task[a]
  <2>1. /\ t \in BeingSaved /\ LookupHolds(t) /\ ~ t.raced
        /\ DistinctSids(applicant) /\ applicant \in Seq(ApplicantRow)
    BY TaskParts DEF IInv, Typed, SavesOK, SavingOK
  <2>2. /\ t.seen \in ApplicantRow /\ t.next \in ApplicantRow
        /\ t.target \in Records \union {NewRecord}
    BY <2>1 DEF BeingSaved
  <2>. HIDE DEF t
  <2>3. CASE t.target = NewRecord
    <3>1. Flushed(t) = Append(applicant, t.next)
      BY <2>3 DEF Flushed
    <3>2. t.next.sid # NoSid => \A b \in Records : applicant[b].sid # t.next.sid
      BY <2>1, <2>3 DEF LookupHolds
    <3>3. DOMAIN Flushed(t) = Records \union {Len(applicant) + 1}
      BY <3>1, <2>1, <2>2 DEF Records
    <3>4. \A b \in Records : Flushed(t)[b] = applicant[b]
      BY <3>1, <2>1, <2>2 DEF Records
    <3>5. Flushed(t)[Len(applicant) + 1] = t.next
      BY <3>1, <2>1, <2>2
    <3>6. Len(applicant) + 1 \notin Records
      BY <2>1 DEF Records
    <3>7. DistinctSids(Flushed(t))
      BY <3>2, <3>3, <3>4, <3>5, <3>6, <2>1 DEF DistinctSids, Records
    <3>. QED
      BY <3>7 DEF t
  <2>4. CASE t.target # NewRecord
    <3>. DEFINE row == WriteBack(applicant[t.target], t.seen, t.next)
    <3>1. t.target \in Records /\ t.seen = applicant[t.target]
      BY <2>1, <2>2, <2>4 DEF LookupHolds
    <3>2. row.sid = IF t.next.sid # t.seen.sid THEN t.next.sid ELSE t.seen.sid
      BY <3>1, <2>2, WrittenBack
    <3>. HIDE DEF row
    <3>3. Flushed(t) = [applicant EXCEPT ![t.target] = row]
      BY <2>4 DEF Flushed, row
    <3>4. t.next.sid # NoSid /\ t.next.sid # t.seen.sid
            => \A b \in Records : applicant[b].sid # t.next.sid
      BY <2>1 DEF LookupHolds
    <3>5. \A b \in Records :
            Flushed(t)[b].sid = IF b = t.target THEN row.sid ELSE applicant[b].sid
      BY <3>3, <2>1 DEF Records
    <3>6. DOMAIN Flushed(t) = Records
      BY <3>3, <2>1 DEF Records
    <3>7. DistinctSids(Flushed(t))
      BY <3>1, <3>2, <3>4, <3>5, <3>6, <2>1 DEF DistinctSids, Records
    <3>. QED
      BY <3>7 DEF t
  <2>. QED
    BY <2>3, <2>4 DEF t
<1>. QED
  BY <1>1, Invariance, PTL

\* A saved request only changes hands by a form of its own that names the SID of
\* the new owner.
THEOREM RequestsStayWithTheirApplicant == Spec => MovesOnlyToHolder
<1>. DEFINE Moves ==
       \A q \in DOMAIN owner :
         owner'[q] # owner[q] =>
           \E s \in Staff :
             /\ task[s].at = "saving" /\ task[s].q = q /\ task[s].sid # NoSid
             /\ owner'[q] \in Holders(task[s].sid)
<1>1. IInv /\ [Next]_vars => Moves
  <2>. SUFFICES ASSUME IInv, [Next]_vars, NEW q \in Requests, owner'[q] # owner[q]
                PROVE  \E s \in Staff :
                         /\ task[s].at = "saving" /\ task[s].q = q
                         /\ task[s].sid # NoSid
                         /\ owner'[q] \in Holders(task[s].sid)
    BY DEF Requests
  <2>1. PICK a \in Actor : Commit(a)
    BY DEF Next, vars, tables, CheckNew, CheckEdit, Load, Rollback
  <2>. DEFINE t == task[a]
  <2>2. /\ t \in BeingSaved /\ t.at = "saving"
        /\ NewKeepsSids(a, t) /\ EditHasRecord(t)
        /\ owner \in Seq(Nat)
    BY <2>1, TaskParts DEF IInv, Typed, SavesOK, SavingOK, Commit
  <2>3. t.q \in Requests \union {NoRequest} /\ t.target \in Records \union {NewRecord}
    BY <2>2 DEF BeingSaved
  <2>4. CASE t.q = NoRequest
    <3>1. \E id : owner' = Append(owner, id)
      BY <2>1, <2>4 DEF Commit
    <3>. QED
      BY <3>1, <2>2 DEF Requests
  <2>5. CASE t.q # NoRequest
    <3>1. t.target # NewRecord /\ t.target \in Records /\ t.q \in Requests
      BY <2>2, <2>3, <2>5 DEF EditHasRecord
    <3>2. owner' = [owner EXCEPT ![t.q] = IF t.target # t.current THEN t.target ELSE @]
      BY <2>1, <2>5, <3>1 DEF Commit
    <3>3. t.q = q /\ t.target # t.current /\ owner'[q] = t.target
      BY <3>1, <3>2, <2>2 DEF Requests
    <3>4. t.sid # NoSid /\ t.target \in Holders(t.sid)
      BY <3>1, <3>3, <2>2, <2>5 DEF EditHasRecord, Holders, Records
    <3>5. a \in Staff
      BY <2>2, <2>5 DEF NewKeepsSids
    <3>. QED
      BY <3>3, <3>4, <3>5, <2>2
  <2>. QED
    BY <2>4, <2>5
<1>. QED
  BY <1>1, Invariance, PTL DEF Spec, MovesOnlyToHolder

\* Where a commit leaves the request: at the record it settled on, unless that is
\* the one it was loaded with, which it does not write.
LEMMA CommittedOwner ==
  ASSUME IInv, NEW a \in Actor, Commit(a),
         task[a].q # NoRequest => owner[task[a].q] = task[a].current
  PROVE  LET t == task[a]
         IN  owner'[IF t.q = NoRequest THEN Len(owner') ELSE t.q] =
               IF t.target = NewRecord THEN Len(applicant) + 1 ELSE t.target
<1>. DEFINE t == task[a]
            id == IF t.target = NewRecord THEN Len(applicant) + 1 ELSE t.target
<1>1. t \in BeingSaved /\ owner \in Seq(Nat)
  BY TaskParts DEF IInv, Typed, Commit
<1>2. t.q \in Requests \union {NoRequest}
  BY <1>1 DEF BeingSaved
<1>3. IF t.q = NoRequest
        THEN owner' = Append(owner, id)
        ELSE owner' = [owner EXCEPT ![t.q] = IF id # t.current THEN id ELSE @]
  BY DEF Commit
<1>4. t.q # NoRequest => owner[t.q] = t.current
  OBVIOUS
<1>. HIDE DEF t, id
<1>5. CASE t.q = NoRequest
  <2>1. owner' = Append(owner, id)
    BY <1>3, <1>5
  <2>2. Len(owner') = Len(owner) + 1 /\ owner'[Len(owner) + 1] = id
    BY <2>1, <1>1
  <2>. QED
    BY <2>2, <1>5 DEF t, id
<1>6. CASE t.q # NoRequest
  <2>1. owner'[t.q] = id
    BY <1>1, <1>2, <1>3, <1>4, <1>6 DEF Requests
  <2>. QED
    BY <2>1, <1>6 DEF t, id
<1>. QED
  BY <1>5, <1>6

\* The request of a committed form comes out under a record with the SID of the
\* form: a form that only fills a SID in, corrects one, or leaves one alone.
THEOREM FormsSaveTheirSid == Spec => SavedUnderItsSid
<1>. DEFINE Saved ==
       \A s \in Staff :
         LET t == task[s]
             q == IF t.q = NoRequest THEN Len(owner') ELSE t.q
         IN  /\ t.at = "saving" /\ task'[s] = Idle /\ tables' # tables
             /\ t.sid # NoSid
             /\ t.q # NoRequest => owner[t.q] = t.current
             => applicant'[owner'[q]].sid = t.sid
<1>1. IInv /\ [Next]_vars => Saved
  <2>. SUFFICES ASSUME IInv, [Next]_vars, NEW s \in Staff,
                       task[s].at = "saving", task'[s] = Idle, tables' # tables,
                       task[s].sid # NoSid,
                       task[s].q # NoRequest => owner[task[s].q] = task[s].current
                PROVE  applicant'[owner'[IF task[s].q = NoRequest THEN Len(owner')
                                         ELSE task[s].q]].sid = task[s].sid
    OBVIOUS
  <2>. DEFINE t == task[s]
              id == IF t.target = NewRecord THEN Len(applicant) + 1 ELSE t.target
  <2>1. s \in Actor /\ t \in BeingSaved
    BY TaskParts DEF Actor, IInv
  <2>2. PICK a \in Actor : Commit(a)
    BY DEF Next, vars, tables, CheckNew, CheckEdit, Load, Rollback
  <2>3. a = s
    <3>1. task[s].at = "saving" /\ [task[s] EXCEPT !.raced = TRUE].at = "saving"
      BY <2>1 DEF BeingSaved
    <3>2. a # s => task'[s] = [task[s] EXCEPT !.raced = TRUE]
      BY <2>1, <2>2 DEF Commit
    <3>. QED
      BY <3>1, <3>2 DEF Idle
  <2>4. applicant'[id].sid = t.sid
    <3>1. FormSidStays(s, t) /\ applicant \in Seq(ApplicantRow)
      BY <2>1 DEF IInv, Typed, SavesOK, SavingOK
    <3>2. /\ t.seen \in ApplicantRow /\ t.next \in ApplicantRow
          /\ t.target \in Records \union {NewRecord} /\ t.sid # NoSid
      BY <2>1 DEF BeingSaved
    <3>3. applicant' = Flushed(t)
      BY <2>2, <2>3 DEF Commit
    <3>. HIDE DEF t
    <3>4. t.next.sid = t.sid
      BY <3>1, <3>2 DEF FormSidStays
    <3>5. CASE t.target = NewRecord
      BY <3>1, <3>2, <3>3, <3>4, <3>5 DEF Flushed
    <3>6. CASE t.target # NewRecord
      <4>. DEFINE row == WriteBack(applicant[t.target], t.seen, t.next)
      <4>1. t.target \in Records /\ applicant[t.target] \in ApplicantRow
        BY <3>1, <3>2, <3>6 DEF Records
      <4>2. row.sid = IF t.next.sid # t.seen.sid THEN t.next.sid
                                                 ELSE applicant[t.target].sid
        BY <4>1, <3>2, WrittenBack
      <4>3. row.sid = t.sid
        BY <4>2, <3>1, <3>2, <3>4, <3>6 DEF FormSidStays
      <4>. HIDE DEF row
      <4>4. applicant' = [applicant EXCEPT ![t.target] = row]
        BY <3>3, <3>6 DEF Flushed, row
      <4>. QED
        BY <4>1, <4>3, <4>4, <3>1, <3>6 DEF Records
    <3>. QED
      BY <3>5, <3>6
  <2>5. owner'[IF t.q = NoRequest THEN Len(owner') ELSE t.q] = id
    BY <2>2, <2>3, CommittedOwner
  <2>. QED
    BY <2>4, <2>5
<1>. QED
  BY <1>1, Invariance, PTL DEF Spec, SavedUnderItsSid

-----------------------------------------------------------------------------
(* The preview                                                             *)

\* Whatever is in the table, the record a new application joins is among those
\* whose history the preview shows: who has its SID, or else its name.
THEOREM PreviewShowsTheChoice == Spec => []PreviewCoversChoice
<1>1. ASSUME NEW sid, NEW name
      PROVE  Targets(sid, name, NewRecord) \ {NewRecord} \subseteq ShownOnPreview(sid, name)
  <2>1. Holders(sid) \subseteq ShownOnPreview(sid, name)
    BY DEF ShownOnPreview
  <2>2. Namesakes(name) \subseteq ShownOnPreview(sid, name)
    BY DEF ShownOnPreview, Namesakes
  <2>3. Targets(sid, name, NewRecord) \in {Holders(sid), Namesakes(name), {NewRecord}}
    BY DEF Targets
  <2>. QED
    BY <2>1, <2>2, <2>3
<1>2. PreviewCoversChoice
  BY <1>1 DEF PreviewCoversChoice
<1>. QED
  BY <1>2, PTL

-----------------------------------------------------------------------------

\* A set of numbers has a least one.
LEMMA LeastNumber ==
  ASSUME NEW T \in SUBSET Nat, T # {}
  PROVE  \E m \in T : \A n \in T : m <= n
<1>1. PICK m \in T : \A n \in T : <<n, m>> \notin OpToRel(<, Nat)
  BY NatLessThanWellFounded, WFMin
<1>2. ASSUME NEW n \in T
      PROVE  m <= n
  <2>1. ~ (n < m)
    BY <1>1 DEF OpToRel
  <2>. QED
    BY <2>1
<1>. QED
  BY <1>2

\* f is defined step by step, on 0..N.
TakesSteps(N, base, step, f) ==
  f = [n \in 0 .. N |-> IF n = 0 THEN base ELSE step[n][f[n - 1]]]

\* There is such a function, and if every step leads from one set to the next, its
\* values lie in these sets.
LEMMA RecursiveFunction ==
  ASSUME NEW N \in Nat, NEW S, NEW base \in S[0], NEW step,
         \A n \in 1 .. N : \A x \in S[n - 1] : step[n][x] \in S[n]
  PROVE  \E f : TakesSteps(N, base, step, f) /\ \A n \in 0 .. N : f[n] \in S[n]
<1> DEFINE Upto(m, f) == /\ DOMAIN f = 0 .. m
                         /\ f = [n \in DOMAIN f |-> f[n]]
                         /\ f[0] = base
                         /\ \A n \in 1 .. m : f[n] = step[n][f[n - 1]]
           Built == {m \in 0 .. N : \E f : Upto(m, f)}
           Lacking == (0 .. N) \ Built
<1>1. Lacking = {}
  <2>1. SUFFICES ASSUME Lacking # {} PROVE FALSE
    OBVIOUS
  <2>2. PICK m \in Lacking : \A n \in Lacking : m <= n
    <3>1. Lacking \in SUBSET Nat
      OBVIOUS
    <3>. HIDE DEF Lacking
    <3>. QED
      BY <2>1, <3>1, LeastNumber
  <2>3. CASE m = 0
    <3>1. Upto(0, [n \in 0 .. 0 |-> base])
      OBVIOUS
    <3> QED
      BY <2>3, <3>1, <2>2
  <2>4. CASE m # 0
    <3>1. PICK f : Upto(m - 1, f)
      BY <2>2, <2>4
    <3> DEFINE g == [n \in 0 .. m |-> IF n = m THEN step[m][f[m - 1]] ELSE f[n]]
    <3>2. Upto(m, g)
      BY <3>1, <2>4
    <3> QED
      BY <3>2, <2>2
  <2> QED
    BY <2>3, <2>4
<1>2. PICK f : Upto(N, f)
  BY <1>1
<1>3. f = [n \in 0 .. N |-> IF n = 0 THEN base ELSE step[n][f[n - 1]]]
  BY <1>2
<1>4. \A n \in 0 .. N : f[n] \in S[n]
  <2> DEFINE Outside == {n \in 0 .. N : f[n] \notin S[n]}
  <2>1. SUFFICES ASSUME Outside # {} PROVE FALSE
    OBVIOUS
  <2>2. PICK m \in Outside : \A n \in Outside : m <= n
    <3>1. Outside \in SUBSET Nat
      OBVIOUS
    <3>. HIDE DEF Outside
    <3>. QED
      BY <2>1, <3>1, LeastNumber
  <2>3. f[0] = base
    BY <1>3
  <2>4. m # 0
    BY <2>3, <2>2
  <2>5. f[m - 1] \in S[m - 1]
    BY <2>2, <2>4
  <2>6. f[m] = step[m][f[m - 1]]
    BY <1>3, <2>4
  <2> QED
    BY <2>2, <2>4, <2>5, <2>6
<1> QED
  BY <1>3, <1>4 DEF TakesSteps

\* Whoever is served next is one of those that wait.
LEMMA NextServedWaits ==
  ASSUME NEW waiting \in SUBSET Nat, waiting # {}, NEW preference,
         \A k \in waiting : preference[k] \in Nat
  PROVE  NextServed(preference, waiting) \in waiting
<1>. DEFINE places == {preference[k] : k \in waiting}
<1>1. places \in SUBSET Nat /\ places # {}
  OBVIOUS
<1>2. PICK p \in places : \A q \in places : p <= q
  <2>. HIDE DEF places
  <2>. QED
    BY <1>1, LeastNumber
<1>. DEFINE first == {k \in waiting : preference[k] = p}
<1>3. first \in SUBSET Nat /\ first # {}
  BY <1>2
<1>4. PICK key \in first : \A k \in first : key <= k
  <2>. HIDE DEF first
  <2>. QED
    BY <1>3, LeastNumber
<1>5. ASSUME NEW other \in waiting \ {key}
      PROVE  ServedBefore(preference, key, other)
  <2>1. preference[key] = p /\ p <= preference[other]
    BY <1>2
  <2>2. preference[key] \in Nat /\ preference[other] \in Nat /\ key \in Nat /\ other \in Nat
    BY <1>3
  <2>3. CASE preference[other] = p
    <3>1. other \in first
      BY <2>3
    <3>2. key <= other /\ key # other
      BY <1>4, <3>1
    <3>. QED
      BY <2>1, <2>2, <2>3, <3>2 DEF ServedBefore
  <2>4. CASE preference[other] # p
    BY <2>1, <2>2, <2>4 DEF ServedBefore
  <2>. QED
    BY <2>3, <2>4
<1>6. \E k \in waiting : \A other \in waiting \ {k} : ServedBefore(preference, k, other)
  BY <1>4, <1>5
<1>. QED
  BY <1>6 DEF NextServed

\* Going round the palette from any colour one comes to every other.
LEMMA WrapsAround ==
  ASSUME NEW size \in Nat \ {0}, NEW p \in 0 .. size - 1, NEW c \in 0 .. size - 1
  PROVE  \E d \in 0 .. size - 1 : (p + d) % size = c
<1>1. CASE c >= p
  <2>1. c - p \in 0 .. size - 1 /\ p + (c - p) = c
    BY <1>1
  <2>2. c % size = c
    OBVIOUS
  <2>. QED
    BY <2>1, <2>2
<1>2. CASE c < p
  <2>1. c - p + size \in 0 .. size - 1 /\ p + (c - p + size) = c + size
    BY <1>2
  <2>2. (c + size) % size = c
    OBVIOUS
  <2>. QED
    BY <2>1, <2>2
<1>. QED
  BY <1>1, <1>2

\* The colours of n of the keys, no two alike.
Apart(size, keys, n) ==
  {r \in UNION {[D -> 0 .. size - 1] : D \in SUBSET keys} :
     /\ Cardinality(DOMAIN r) = n
     /\ \A a, b \in DOMAIN r : a # b => r[a] # r[b]}

\* Before the first borrower there is a choice of colours: the empty one.
LEMMA NobodyApart ==
  ASSUME NEW size \in Nat \ {0}, NEW keys
  PROVE  << >> \in Apart(size, keys, 0)
<1>1. DOMAIN << >> = {} /\ << >> \in [{} -> 0 .. size - 1]
  OBVIOUS
<1>2. << >> \in UNION {[D -> 0 .. size - 1] : D \in SUBSET keys}
  <2>1. {} \in SUBSET keys
    OBVIOUS
  <2>. QED
    BY <1>1, <2>1
<1>3. Cardinality({}) = 0
  BY FS_EmptySet
<1>4. \A a, b \in DOMAIN << >> : a # b => << >>[a] # << >>[b]
  BY <1>1
<1>. QED
  BY <1>1, <1>2, <1>3, <1>4, Zenon DEF Apart

\* As long as there are fewer borrowers than colours, probing finds one that is
\* free.
LEMMA ProbeFindsFree ==
  ASSUME NEW size \in Nat \ {0}, NEW keys, IsFiniteSet(keys), NEW n \in Nat, n < size,
         NEW r \in Apart(size, keys, n), NEW key \in keys \ DOMAIN r,
         NEW preference, preference[key] \in 0 .. size - 1
  PROVE  Probe(size, preference, r, key) \in Apart(size, keys, n + 1)
<1>. DEFINE used == Range(r)
            free == {d \in 0 .. size - 1 : (preference[key] + d) % size \notin used}
            colour == (preference[key] + Min(free)) % size
            next == Probe(size, preference, r, key)
<1>1. /\ DOMAIN r \subseteq keys /\ IsFiniteSet(DOMAIN r)
      /\ Cardinality(DOMAIN r) = n
      /\ r \in [DOMAIN r -> 0 .. size - 1]
      /\ \A a, b \in DOMAIN r : a # b => r[a] # r[b]
  BY FS_Subset DEF Apart
<1>2. IsFiniteSet(used) /\ Cardinality(used) <= n /\ used \subseteq 0 .. size - 1
  <2>1. used = {r[a] : a \in DOMAIN r}
    BY DEF Range
  <2>2. r \in Surjection(DOMAIN r, used)
    BY <1>1, <2>1 DEF Surjection
  <2>. QED
    BY <1>1, <2>1, <2>2, FS_Surjection
<1>3. PICK c \in 0 .. size - 1 : c \notin used
  <2>1. IsFiniteSet(0 .. size - 1) /\ Cardinality(0 .. size - 1) = size
    BY FS_Interval
  <2>2. Cardinality(used) # size /\ Cardinality(used) \in Nat
    BY <1>2, FS_CardinalityType
  <2>3. used # 0 .. size - 1
    BY <2>1, <2>2
  <2>. QED
    BY <1>2, <2>3
<1>4. free # {}
  <2>1. PICK d \in 0 .. size - 1 : (preference[key] + d) % size = c
    BY WrapsAround
  <2>2. d \in free
    BY <1>3, <2>1
  <2>. QED
    BY <2>2
<1>5. Min(free) \in free
  <2>1. free \in SUBSET Nat
    OBVIOUS
  <2>. HIDE DEF free
  <2>2. \E m \in free : \A k \in free : m <= k
    BY <1>4, <2>1, LeastNumber
  <2>. QED
    BY <2>2 DEF Min
<1>6. colour \in 0 .. size - 1 /\ colour \notin used
  <2>. DEFINE m == Min(free)
  <2>1. m \in 0 .. size - 1 /\ (preference[key] + m) % size \notin used
    BY <1>5
  <2>. HIDE DEF m
  <2>2. preference[key] + m \in Nat
    BY <2>1
  <2>3. (preference[key] + m) % size \in 0 .. size - 1
    BY <2>2
  <2>. QED
    BY <2>1, <2>3 DEF m
<1>7. next = [k \in DOMAIN r \union {key} |-> IF k \in DOMAIN r THEN r[k] ELSE colour]
  BY <1>4 DEF Probe
<1>. HIDE DEF colour, next
<1>8. Cardinality(DOMAIN r \union {key}) = n + 1
  BY <1>1, FS_AddElement
<1>9. next \in [DOMAIN r \union {key} -> 0 .. size - 1]
  BY <1>1, <1>6, <1>7
<1>10. ASSUME NEW a \in DOMAIN next, NEW b \in DOMAIN next, a # b
       PROVE  next[a] # next[b]
  <2>1. \A k \in DOMAIN r : r[k] # colour
    BY <1>6 DEF Range
  <2>. QED
    BY <1>1, <1>7, <1>10, <2>1
<1>11. DOMAIN r \union {key} \in SUBSET keys
  BY <1>1
<1>. QED
  BY <1>7, <1>8, <1>9, <1>10, <1>11 DEF Apart, next

\* What Resolved is defined by.
IsResolved(size, preference, keys, f) ==
  f = [n \in 0 .. Cardinality(keys) |->
         IF n = 0 THEN << >>
         ELSE Probe(size, preference, f[n - 1],
                    NextServed(preference, keys \ DOMAIN f[n - 1]))]

\* One more borrower is served.
LEMMA ServesOneMore ==
  ASSUME NEW size \in Nat \ {0}, NEW keys \in SUBSET Nat, IsFiniteSet(keys),
         Cardinality(keys) <= size, NEW preference,
         \A k \in keys : preference[k] \in 0 .. size - 1,
         NEW n \in 1 .. Cardinality(keys), NEW r \in Apart(size, keys, n - 1)
  PROVE  Probe(size, preference, r, NextServed(preference, keys \ DOMAIN r))
           \in Apart(size, keys, n)
<1>1. Cardinality(keys) \in Nat
  BY FS_CardinalityType
<1>2. DOMAIN r \subseteq keys /\ Cardinality(DOMAIN r) = n - 1
  BY DEF Apart
<1>3. keys \ DOMAIN r # {} /\ keys \ DOMAIN r \in SUBSET Nat
  <2>1. DOMAIN r # keys
    BY <1>1, <1>2
  <2>. QED
    BY <1>2, <2>1
<1>4. NextServed(preference, keys \ DOMAIN r) \in keys \ DOMAIN r
  <2>1. \A k \in keys \ DOMAIN r : preference[k] \in Nat
    OBVIOUS
  <2>. QED
    BY <1>3, <2>1, NextServedWaits
<1>. DEFINE key == NextServed(preference, keys \ DOMAIN r)
<1>. HIDE DEF key
<1>5. n - 1 \in Nat /\ n - 1 < size /\ (n - 1) + 1 = n
  BY <1>1
<1>6. Probe(size, preference, r, key) \in Apart(size, keys, (n - 1) + 1)
  <2>1. key \in keys \ DOMAIN r
    BY <1>4 DEF key
  <2>2. preference[key] \in 0 .. size - 1
    BY <2>1
  <2>. DEFINE m == n - 1
  <2>3. m \in Nat /\ m < size /\ r \in Apart(size, keys, m)
    BY <1>5
  <2>. HIDE DEF m
  <2>4. Probe(size, preference, r, key) \in Apart(size, keys, m + 1)
    BY <2>1, <2>2, <2>3, ProbeFindsFree
  <2>. QED
    BY <2>4 DEF m
<1>. QED
  BY <1>5, <1>6 DEF key

\* The recursion of Resolved is well defined.
LEMMA ResolvedExists ==
  ASSUME NEW size \in Nat \ {0}, NEW keys \in SUBSET Nat, IsFiniteSet(keys),
         Cardinality(keys) <= size, NEW preference,
         \A k \in keys : preference[k] \in 0 .. size - 1
  PROVE  IsResolved(size, preference, keys, Resolved(size, preference, keys))
<1>. DEFINE N == Cardinality(keys)
            S == [n \in 0 .. N |-> Apart(size, keys, n)]
            Next1(r) == Probe(size, preference, r, NextServed(preference, keys \ DOMAIN r))
            base == << >>
            step == [n \in 1 .. N |-> [r \in S[n - 1] |-> Next1(r)]]
<1>1. N \in Nat
  BY FS_CardinalityType
<1>2. base \in S[0]
  BY <1>1, NobodyApart
<1>3. ASSUME NEW n \in 1 .. N, NEW r \in S[n - 1]
      PROVE  step[n][r] \in S[n]
  <2>1. r \in Apart(size, keys, n - 1) /\ S[n] = Apart(size, keys, n)
    BY <1>1
  <2>2. step[n][r] = Next1(r)
    OBVIOUS
  <2>3. Next1(r) \in Apart(size, keys, n)
    BY <2>1, ServesOneMore
  <2>. QED
    BY <2>1, <2>2, <2>3
<1>4. PICK f : TakesSteps(N, base, step, f) /\ \A n \in 0 .. N : f[n] \in S[n]
  <2>. HIDE DEF N, S, step, base, Next1
  <2>1. \A n \in 1 .. N : \A r \in S[n - 1] : step[n][r] \in S[n]
    BY <1>3
  <2>. QED
    BY <1>1, <1>2, <2>1, RecursiveFunction
<1>5. \A n \in 1 .. N : step[n][f[n - 1]] = Next1(f[n - 1])
  <2>. SUFFICES ASSUME NEW n \in 1 .. N
                PROVE  step[n][f[n - 1]] = Next1(f[n - 1])
    OBVIOUS
  <2>1. n - 1 \in 0 .. N
    BY <1>1
  <2>2. f[n - 1] \in S[n - 1]
    BY <1>4, <2>1
  <2>. QED
    BY <2>2
<1>6. IsResolved(size, preference, keys, f)
  <2>. DEFINE F(n) == IF n = 0 THEN base ELSE step[n][f[n - 1]]
              G(n) == IF n = 0 THEN base ELSE Next1(f[n - 1])
  <2>1. \A n \in 0 .. N : F(n) = G(n)
    <3>. HIDE DEF N, S, step, base, Next1
    <3>1. \A n \in 0 .. N : n # 0 => n \in 1 .. N
      BY <1>1
    <3>. QED
      BY <1>5, <3>1
  <2>2. f = [n \in 0 .. N |-> F(n)]
    BY <1>4 DEF TakesSteps
  <2>3. f = [n \in 0 .. N |-> G(n)]
    <3>. HIDE DEF F, G, N
    <3>. QED
      BY <2>1, <2>2
  <2>. QED
    BY <2>3 DEF IsResolved
<1>. QED
  BY <1>6 DEF Resolved, IsResolved

\* n borrowers have n colours.
LEMMA ResolvedApart ==
  ASSUME NEW size \in Nat \ {0}, NEW keys \in SUBSET Nat, IsFiniteSet(keys),
         Cardinality(keys) <= size, NEW preference,
         \A k \in keys : preference[k] \in 0 .. size - 1
  PROVE  DistinctColours(size, preference, keys) \in Apart(size, keys, Cardinality(keys))
<1>. DEFINE N == Cardinality(keys)
            f == Resolved(size, preference, keys)
            Served(r) == Probe(size, preference, r, NextServed(preference, keys \ DOMAIN r))
            Outside == {n \in 0 .. N : f[n] \notin Apart(size, keys, n)}
<1>1. N \in Nat
  BY FS_CardinalityType
<1>2. f = [n \in 0 .. N |-> IF n = 0 THEN << >> ELSE Served(f[n - 1])]
  <2>1. IsResolved(size, preference, keys, f)
    BY ResolvedExists
  <2>. HIDE DEF f
  <2>. QED
    BY <2>1 DEF IsResolved
<1>. HIDE DEF f, N
<1>3. \A r, n : n \in 1 .. N /\ r \in Apart(size, keys, n - 1) => Served(r) \in Apart(size, keys, n)
  BY ServesOneMore DEF N
<1>. HIDE DEF Served
<1>4. f[0] = << >>
  BY <1>1, <1>2
<1>5. \A n \in 1 .. N : f[n] = Served(f[n - 1])
  BY <1>1, <1>2
<1>6. << >> \in Apart(size, keys, 0)
  BY NobodyApart
<1>7. Outside = {}
  <2>1. SUFFICES ASSUME Outside # {} PROVE FALSE
    OBVIOUS
  <2>2. Outside \in SUBSET Nat
    OBVIOUS
  <2>3. PICK m \in Outside : \A n \in Outside : m <= n
    <3>. HIDE DEF Outside
    <3>. QED
      BY <2>1, <2>2, LeastNumber
  <2>4. m \in 1 .. N
    BY <1>1, <1>4, <1>6, <2>3
  <2>5. f[m - 1] \in Apart(size, keys, m - 1)
    BY <1>1, <2>3, <2>4
  <2>. QED
    BY <1>3, <1>5, <2>3, <2>4, <2>5
<1>. QED
  BY <1>1, <1>7 DEF DistinctColours, f, N

-----------------------------------------------------------------------------

\* There is a record only where a new application has been saved with it.
RecordsInUse == Len(applicant) <= Len(owner) /\ Len(owner) <= MaxRequests

\* There are no more applicants than requests: only a new application adds a
\* record, an edit has one to correct.
LEMMA RecordsAreInUse == Spec => []RecordsInUse
<1>1. Init => RecordsInUse
  BY ApplicantAssumption DEF Init, RecordsInUse
<1>2. IInv /\ RecordsInUse /\ [Next]_vars => RecordsInUse'
  <2>. SUFFICES ASSUME IInv, RecordsInUse, [Next]_vars PROVE RecordsInUse'
    OBVIOUS
  <2>1. CASE UNCHANGED tables
    BY <2>1 DEF tables, RecordsInUse
  <2>2. ASSUME NEW a \in Actor, Commit(a)
        PROVE  RecordsInUse'
    <3>. DEFINE t == task[a]
    <3>1. /\ applicant \in Seq(ApplicantRow) /\ owner \in Seq(Nat)
          /\ t \in BeingSaved /\ EditHasRecord(t)
      BY <2>2, TaskParts DEF IInv, Typed, SavesOK, SavingOK, Commit
    <3>2. t.q \in Requests \union {NoRequest} /\ t.next \in ApplicantRow
      BY <3>1 DEF BeingSaved
    <3>. HIDE DEF t
    <3>3. Len(applicant') <= Len(applicant) + (IF t.target = NewRecord THEN 1 ELSE 0)
      <4>1. applicant' = Flushed(t)
        BY <2>2 DEF Commit, t
      <4>2. CASE t.target = NewRecord
        BY <3>1, <3>2, <4>1, <4>2 DEF Flushed
      <4>3. CASE t.target # NewRecord
        <5>. DEFINE row == WriteBack(applicant[t.target], t.seen, t.next)
        <5>1. applicant' = [applicant EXCEPT ![t.target] = row]
          BY <4>1, <4>3 DEF Flushed
        <5>. HIDE DEF row
        <5>2. Len(applicant') = Len(applicant)
          <6>1. DOMAIN applicant' = DOMAIN applicant
            BY <5>1
          <6>2. applicant' \in Seq(ApplicantRow)
            BY <2>2, CommitRecords
          <6>. QED
            BY <3>1, <6>1, <6>2
        <5>. QED
          BY <3>1, <4>3, <5>2
      <4>. QED
        BY <4>2, <4>3
    <3>4. CASE t.q = NoRequest
      <4>1. /\ Len(owner) < MaxRequests
            /\ \E id : owner' = Append(owner, id)
        BY <2>2, <3>4 DEF Commit, t
      <4>2. Len(owner') = Len(owner) + 1
        BY <3>1, <4>1
      <4>. QED
        BY <3>1, <3>3, <4>1, <4>2, ApplicantAssumption DEF RecordsInUse
    <3>5. CASE t.q # NoRequest
      <4>1. \E new : owner' = [owner EXCEPT ![t.q] = new]
        BY <2>2, <3>5 DEF Commit, t
      <4>2. Len(owner') = Len(owner)
        BY <3>1, <4>1
      <4>3. Len(applicant') <= Len(applicant)
        BY <3>1, <3>3, <3>5 DEF EditHasRecord
      <4>4. Len(applicant') \in Nat /\ Len(applicant) \in Nat
        BY <2>2, <3>1, CommitRecords
      <4>. QED
        BY <3>1, <4>2, <4>3, <4>4, ApplicantAssumption DEF RecordsInUse
    <3>. QED
      BY <3>4, <3>5
  <2>. QED
    BY <2>1, <2>2 DEF Next, CheckNew, CheckEdit, Load, Rollback, vars, tables
<1>. QED
  BY <1>1, <1>2, Invariance, PTL DEF Spec

\* Enough colours for the borrowers of the request list.
LEMMA TypedColours ==
  ASSUME Typed, RecordsInUse
  PROVE  ColoursApart
<1>. DEFINE visible == {owner[q] : q \in DOMAIN owner}
<1>0. DOMAIN owner = 1 .. Len(owner) /\ Len(owner) \in Nat
  BY LenProperties DEF Typed
<1>1. visible \in SUBSET (1 .. MaxRequests) /\ IsFiniteSet(visible)
  <2>1. IsFiniteSet(DOMAIN owner)
    BY <1>0, FS_Interval
  <2>2. \A q \in DOMAIN owner : owner[q] \in 1 .. Len(applicant) /\ Len(applicant) \in Nat
    BY <1>0, LenProperties DEF Typed, Requests, Records
  <2>3. visible \subseteq 1 .. MaxRequests
    BY <1>0, <2>2, ApplicantAssumption DEF RecordsInUse
  <2>4. IsFiniteSet(visible)
    <3>1. owner \in Surjection(DOMAIN owner, visible)
      BY DEF Surjection, Typed
    <3>. QED
      BY <2>1, <3>1, FS_Surjection
  <2>. QED
    BY <2>3, <2>4
<1>. HIDE DEF visible
<1>2. SUFFICES ASSUME Cardinality(visible) <= PaletteSize, NEW preference \in Preferences
               PROVE  LET colour == DistinctColours(PaletteSize, preference, visible)
                      IN  /\ DOMAIN colour = visible
                          /\ \A a, b \in visible : a # b => colour[a] # colour[b]
  BY DEF ColoursApart, visible
<1>. DEFINE colour == DistinctColours(PaletteSize, preference, visible)
<1>3. preference \in [1 .. MaxRequests -> 0 .. PaletteSize - 1]
  BY ApplicantAssumption
<1>4. /\ PaletteSize \in Nat \ {0} /\ visible \in SUBSET Nat
      /\ \A k \in visible : preference[k] \in 0 .. PaletteSize - 1
  BY <1>1, <1>3, ApplicantAssumption
<1>5. colour \in Apart(PaletteSize, visible, Cardinality(visible))
  BY <1>1, <1>2, <1>4, ResolvedApart
<1>. HIDE DEF colour
<1>6. /\ DOMAIN colour \in SUBSET visible /\ Cardinality(DOMAIN colour) = Cardinality(visible)
      /\ \A a, b \in DOMAIN colour : a # b => colour[a] # colour[b]
  BY <1>5 DEF Apart
<1>7. DOMAIN colour = visible
  BY <1>1, <1>6, FS_Subset
<1>. QED
  BY <1>6, <1>7 DEF colour

\* No two borrowers of the request list share a colour while there are as many
\* colours as borrowers, for every palette, whatever their keys hash to.
THEOREM BorrowersApart == Spec => []ColoursApart
<1>1. IInv => Typed
  BY DEF IInv
<1>. QED
  BY <1>1, TypedColours, RecordsAreInUse, Invariance, PTL

=============================================================================
