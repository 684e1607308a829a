-------------------------- MODULE QueueWorkerProofs --------------------------
(***************************************************************************)
(* Proofs about QueueWorker: type correctness, what the registry promises, *)
(* the races for a Response ID and the price of an import, for any number  *)
(* of files, contents, faults and crashes.                                 *)
(***************************************************************************)
EXTENDS QueueWorker, SequenceTheorems, FiniteSetTheorems, WellFoundedInduction,
        TLAPS

Import == [application : Importable, file : File, live : BOOLEAN, overtaken : BOOLEAN]

\* The worker is between its first read of a file and its mark.
MidPass == pc \in {"hashed", "processed", "importing", "imported"}

-----------------------------------------------------------------------------
(* The invariants                                                          *)

\* A pass is over a file that is still to be done, what is in hand is there.
PassInv ==
  /\ MidPass => todo # {}
  /\ \A f \in todo : folder[f] # Absent
  /\ pc = "importing" => draft.application \in Importable
  /\ pc # "importing" => draft = NoDraft
  /\ reopening # NoReopening => reopening.request \in DOMAIN imported

\* Whoever has found a Response ID free and not yet written knows of everybody
\* who has taken it since.
RaceInv ==
  /\ OneLiveUnlessOvertaken
  /\ pc = "importing" /\ LiveHolder(ResponseIdOf[draft.application]) => draft.overtaken
  /\ reopening # NoReopening =>
       /\ ~ imported[reopening.request].live
       /\ LiveHolder(ResponseIdOf[BeingReopened]) => reopening.overtaken

\* The registry, in memory or on disk, has content c for file f.
Listed(f, c) == registry[f] = c \/ (saved # Corrupt /\ saved[f] = c)

\* The promise of the registry, and what the current pass has done for it.
PromiseInv ==
  faults.late = 0 =>
    /\ \A f \in File : \A c \in Importable \ torn[f] : Listed(f, c) => KnownToStaff(c)
    /\ ~ changed /\ hash \in Importable =>
         /\ pc = "processed" => verdict = "PROCESSED"
         /\ pc = "importing" => draft.application = hash
         /\ pc = "imported" => KnownToStaff(hash)

\* What file f is compared with next: the content just read, or the registry's.
Basis(f) == IF MidPass /\ f = Current THEN hash ELSE registry[f]

\* The imports file f is still good for without another write or crash: that of
\* the pass, and one if the next pass will find it different.
Due(f) ==
  (IF pc \in {"hashed", "processed", "importing"} /\ f = Current THEN 1 ELSE 0)
    + (IF folder[f] # Absent /\ folder[f] # Basis(f) THEN 1 ELSE 0)

ImportsOf(f) == {i \in DOMAIN imported : imported[i].file = f}

PriceInv ==
  /\ pc = "stopped" => registry = NothingRegistered
  /\ \A f \in File : Cardinality(ImportsOf(f)) + Due(f) <= writes[f] + faults.crash

-----------------------------------------------------------------------------
(* Type correctness                                                        *)

\* A scan that has files left has a first one.
LEMMA CurrentIsLeft ==
  ASSUME TypeOK, todo # {}
  PROVE  Current \in todo /\ Current \in File
<1>1. todo \subseteq Nat
  BY QueueAssumption DEF TypeOK
<1>2. PICK m \in todo : \A f \in todo : <<f, m>> \notin OpToRel(<, Nat)
  BY <1>1, NatLessThanWellFounded, WFMin
<1>3. ASSUME NEW f \in todo
      PROVE  m <= f
  <2>1. m \in Nat /\ f \in Nat
    BY <1>1
  <2>2. ~ (f < m)
    BY <1>2, <2>1 DEF OpToRel
  <2>. QED
    BY <2>1, <2>2
<1>4. Current \in todo
  BY <1>3 DEF Current
<1>. QED
  BY <1>4 DEF TypeOK

\* The current file does not change while the scan stays where it is.
LEMMA CurrentStays == todo' = todo => Current' = Current
BY DEF Current

\* What the list of imports is made of.
LEMMA ImportsShape ==
  ASSUME TypeOK
  PROVE  /\ imported \in Seq(Import) /\ Len(imported) \in Nat
         /\ DOMAIN imported = 1 .. Len(imported)
         /\ \A i \in DOMAIN imported : imported[i] \in Import
<1>1. imported \in Seq(Import)
  BY DEF TypeOK, Import
<1>. QED
  BY <1>1, LenProperties, ElementOfSeq

\* The row that CommitImport adds, the request that CommitReopen makes live.
NewRow == [application |-> draft.application, file |-> Current, live |-> TRUE,
           overtaken |-> draft.overtaken]
Reopened == [imported[reopening.request] EXCEPT !.live = TRUE,
                                                !.overtaken = reopening.overtaken]

\* An import is one more request.
LEMMA ImportAppends ==
  ASSUME TypeOK, PassInv, CommitImport
  PROVE  /\ NewRow \in Import
         /\ imported' = Append(imported, NewRow)
         /\ DOMAIN imported' = DOMAIN imported \union {Len(imported) + 1}
         /\ Len(imported) + 1 \notin DOMAIN imported
         /\ imported'[Len(imported) + 1] = NewRow
         /\ \A i \in DOMAIN imported : imported'[i] = imported[i]
<1>1. Current \in File
  BY CurrentIsLeft DEF CommitImport, PassInv, MidPass
<1>2. NewRow \in Import
  BY <1>1 DEF NewRow, Import, CommitImport, PassInv, TypeOK
<1>3. imported' = Append(imported, NewRow)
  BY DEF CommitImport, NewRow
<1>. HIDE DEF NewRow
<1>. QED
  BY <1>2, <1>3, ImportsShape

\* Closing and reopening rewrite one request in place.
LEMMA ClosingIsInPlace ==
  ASSUME TypeOK, NEW i \in DOMAIN imported, Close(i)
  PROVE  /\ imported' \in Seq(Import)
         /\ DOMAIN imported' = DOMAIN imported
         /\ imported'[i] = [imported[i] EXCEPT !.live = FALSE, !.overtaken = FALSE]
         /\ imported'[i] \in Import
         /\ \A j \in DOMAIN imported \ {i} : imported'[j] = imported[j]
<1>. DEFINE row == [imported[i] EXCEPT !.live = FALSE, !.overtaken = FALSE]
<1>1. imported' = [imported EXCEPT ![i] = row]
  BY ImportsShape DEF Close, Import
<1>2. row \in Import
  BY ImportsShape DEF Import
<1>. HIDE DEF row
<1>3. imported' \in Seq(Import)
  BY <1>1, <1>2, ImportsShape, ExceptSeq
<1>4. DOMAIN imported' = DOMAIN imported /\ imported'[i] = row
      /\ \A j \in DOMAIN imported \ {i} : imported'[j] = imported[j]
  BY <1>1
<1>. QED
  BY <1>2, <1>3, <1>4 DEF row

\* The same of a request that is reopened.
LEMMA ReopeningIsInPlace ==
  ASSUME TypeOK, PassInv, CommitReopen
  PROVE  /\ imported' \in Seq(Import)
         /\ reopening.request \in DOMAIN imported
         /\ DOMAIN imported' = DOMAIN imported
         /\ imported'[reopening.request] = Reopened
         /\ Reopened \in Import
         /\ \A j \in DOMAIN imported \ {reopening.request} : imported'[j] = imported[j]
<1>1. reopening.request \in DOMAIN imported
  BY DEF PassInv, CommitReopen
<1>2. imported' = [imported EXCEPT ![reopening.request] = Reopened]
  BY <1>1, ImportsShape DEF CommitReopen, Reopened, Import
<1>3. Reopened \in Import
  BY <1>1, ImportsShape DEF Reopened, Import, TypeOK
<1>. HIDE DEF Reopened
<1>4. imported' \in Seq(Import)
  BY <1>1, <1>2, <1>3, ImportsShape, ExceptSeq
<1>. QED
  BY <1>1, <1>2, <1>3, <1>4

\* No other step touches the list.
LEMMA OtherStepsLeaveImports ==
  ASSUME [Next]_vars, ~ CommitImport, ~ CommitReopen,
         \A i \in DOMAIN imported : ~ Close(i)
  PROVE  UNCHANGED imported
BY DEF Next, WorkerStep, StaffStep, Start, BeginScan, SkipUnreadable, SkipProcessed,
       ReadHash, ProcessFile, AbortScan, ProcessFileFails, StartImport, DropImport,
       AutoImportFails, Mark, EndPass, BeginSave, EndSave, Crash, Deliver,
       StartReopen, DropReopen, vars, requests

\* Requests stay in the list, for what they were made for.
LEMMA RequestsStay ==
  ASSUME TypeOK, PassInv, [Next]_vars
  PROVE  \A i \in DOMAIN imported :
           /\ i \in DOMAIN imported'
           /\ imported'[i].application = imported[i].application
           /\ imported'[i].file = imported[i].file
<1>1. CASE CommitImport
  BY <1>1, ImportAppends
<1>2. CASE CommitReopen
  BY <1>2, ReopeningIsInPlace, ImportsShape DEF Reopened, Import
<1>3. ASSUME NEW i \in DOMAIN imported, Close(i)
      PROVE  \A j \in DOMAIN imported :
               /\ j \in DOMAIN imported'
               /\ imported'[j].application = imported[j].application
               /\ imported'[j].file = imported[j].file
  BY <1>3, ClosingIsInPlace, ImportsShape DEF Import
<1>. QED
  BY <1>1, <1>2, <1>3, OtherStepsLeaveImports

\* The worker's state is well formed, and between the first read of a file and
\* its mark there is a file: the importer never reads past the end of its scan.
THEOREM WorkerTypeCorrect == Spec => [](TypeOK /\ PassInv)
<1>1. Init => TypeOK
  <2>1. ASSUME Init
        PROVE  /\ imported \in Seq([application : Importable, file : File,
                                    live : BOOLEAN, overtaken : BOOLEAN])
               /\ draft \in [application : Importable \union {Absent},
                             overtaken : BOOLEAN]
               /\ reopening \in [request : Nat, overtaken : BOOLEAN]
               /\ faults \in [read : Nat, late : Nat, crash : Nat]
    BY <2>1, EmptySeq DEF Init, NoDraft, NoReopening
  <2>2. ASSUME Init
        PROVE  /\ folder \in [File -> Content \union {Absent}]
               /\ writes \in [File -> Nat]
               /\ NothingRegistered \in [File -> Content \union {Absent}]
               /\ torn \in [File -> SUBSET (Content \union {Absent})]
    BY <2>2 DEF Init, NothingRegistered
  <2>. QED
    BY <2>1, <2>2 DEF Init, TypeOK
<1>2. Init => PassInv
  BY DEF Init, PassInv, MidPass
<1>3. TypeOK /\ PassInv /\ [Next]_vars => TypeOK'
  <2>. SUFFICES ASSUME TypeOK, PassInv, [Next]_vars
                PROVE  TypeOK'
    OBVIOUS
  <2>0. FaultCounts \subseteq [read : Nat, late : Nat, crash : Nat]
    BY QueueAssumption
  <2>1. imported' \in Seq(Import)
    <3>1. imported \in Seq(Import)
      BY ImportsShape
    <3>2. CASE CommitImport
      BY <3>1, <3>2, ImportAppends, AppendProperties
    <3>. QED
      BY <3>1, <3>2, ReopeningIsInPlace, ClosingIsInPlace, OtherStepsLeaveImports
  <2>2. todo # {} => Current \in File
    BY CurrentIsLeft
  <2>. DEFINE Rest == /\ folder' \in [File -> Content \union {Absent}]
                      /\ writes' \in [File -> Nat]
                      /\ registry' \in [File -> Content \union {Absent}]
                      /\ saved' \in [File -> Content \union {Absent}] \union {Corrupt}
                      /\ pc' \in {"stopped", "sleeping", "scanning", "hashed",
                                  "processed", "importing", "imported", "saving"}
                      /\ todo' \subseteq File
                      /\ hash' \in Content \union {Absent}
                      /\ verdict' \in {"none", "PROCESSED", "PARSE_INCOMPLETE", "ERROR"}
                      /\ draft' \in [application : Importable \union {Absent},
                                     overtaken : BOOLEAN]
                      /\ reopening' \in [request : Nat, overtaken : BOOLEAN]
                      /\ faults' \in [read : Nat, late : Nat, crash : Nat]
                      /\ changed' \in BOOLEAN
                      /\ torn' \in [File -> SUBSET (Content \union {Absent})]
  <2>. SUFFICES Rest
    BY <2>1 DEF TypeOK, Import
  <2>. USE DEF TypeOK, sender, memory, requests
  <2>3. ASSUME Start
       PROVE  Rest
    BY <2>3 DEF Start, NothingRegistered
  <2>4. ASSUME BeginScan
       PROVE  Rest
    BY <2>4 DEF BeginScan
  <2>5. ASSUME SkipUnreadable
       PROVE  Rest
    BY <2>0, <2>5 DEF SkipUnreadable
  <2>6. ASSUME SkipProcessed
       PROVE  Rest
    BY <2>6 DEF SkipProcessed
  <2>7. ASSUME ReadHash
       PROVE  Rest
    BY <2>2, <2>7 DEF ReadHash
  <2>8. ASSUME ProcessFile
       PROVE  Rest
    BY <2>8 DEF ProcessFile, VerdictOn
  <2>9. ASSUME AbortScan
       PROVE  Rest
    BY <2>9 DEF AbortScan
  <2>10. ASSUME ProcessFileFails
        PROVE  Rest
    BY <2>0, <2>10 DEF ProcessFileFails
  <2>11. ASSUME StartImport
        PROVE  Rest
    BY <2>11 DEF StartImport, ReadAgain, Accepted
  <2>12. ASSUME DropImport
        PROVE  Rest
    BY <2>12 DEF DropImport, ReadAgain
  <2>13. ASSUME CommitImport
        PROVE  Rest
    BY <2>13 DEF CommitImport, NoDraft, Overtakes
  <2>14. ASSUME AutoImportFails
        PROVE  Rest
    BY <2>0, <2>14 DEF AutoImportFails, NoDraft
  <2>15. ASSUME Mark
        PROVE  Rest
    BY <2>2, <2>15 DEF Mark, EndPass, PassInv, MidPass
  <2>16. ASSUME BeginSave \/ EndSave
        PROVE  Rest
    BY <2>16 DEF BeginSave, EndSave
  <2>17. ASSUME Crash
        PROVE  Rest
    BY <2>0, <2>17 DEF Crash, NothingRegistered, NoDraft
  <2>18. ASSUME NEW f \in File, NEW c \in Inbox[f], Deliver(f, c)
         PROVE  Rest
    <3>1. c \in Content
      BY QueueAssumption
    <3>. QED
      BY <2>18, <3>1 DEF Deliver, scan
  <2>19. ASSUME NEW i \in DOMAIN imported, Close(i) \/ StartReopen(i)
         PROVE  Rest
    <3>1. i \in Nat
      BY ImportsShape
    <3>2. reopening' \in [request : Nat, overtaken : BOOLEAN]
      <4>1. reopening' = reopening \/ reopening' = [request |-> i, overtaken |-> FALSE]
        BY <2>19 DEF Close, StartReopen
      <4>2. [request |-> i, overtaken |-> FALSE] \in [request : Nat, overtaken : BOOLEAN]
        BY <3>1
      <4>. QED
        BY <4>1, <4>2
    <3>. QED
      BY <2>19, <3>2 DEF Close, StartReopen, scan
  <2>20. ASSUME CommitReopen
         PROVE  Rest
    <3>1. draft' \in [application : Importable \union {Absent}, overtaken : BOOLEAN]
      BY <2>20 DEF CommitReopen, Overtakes
    <3>2. reopening' \in [request : Nat, overtaken : BOOLEAN]
      BY <2>20 DEF CommitReopen, NoReopening
    <3>. QED
      BY <2>20, <3>1, <3>2 DEF CommitReopen
  <2>21. ASSUME DropReopen
         PROVE  Rest
    BY <2>21 DEF DropReopen, NoReopening, scan
  <2>22. ASSUME UNCHANGED vars
         PROVE  Rest
    BY <2>22 DEF vars, scan
  <2>. HIDE DEF Rest
  <2>. QED
    BY <2>3, <2>4, <2>5, <2>6, <2>7, <2>8, <2>9, <2>10, <2>11, <2>12, <2>13, <2>14, <2>15, <2>16, <2>17, <2>18, <2>19, <2>20, <2>21, <2>22
    DEF Next, WorkerStep, StaffStep
<1>4. TypeOK /\ PassInv /\ [Next]_vars => PassInv'
  <2>. SUFFICES ASSUME TypeOK, PassInv, [Next]_vars
                PROVE  PassInv'
    OBVIOUS
  <2>1. todo # {} => Current \in todo /\ Current \in File
    BY CurrentIsLeft
  <2>2. \A i \in DOMAIN imported : i \in DOMAIN imported' /\ i \in Nat \ {0}
    BY RequestsStay, ImportsShape
  <2>. USE DEF PassInv, MidPass, sender, memory, requests
  <2>3. ASSUME Start
       PROVE  PassInv'
    BY <2>3 DEF Start, NothingRegistered
  <2>4. ASSUME BeginScan
       PROVE  PassInv'
    BY <2>4 DEF BeginScan
  <2>5. ASSUME SkipUnreadable
       PROVE  PassInv'
    BY <2>5 DEF SkipUnreadable
  <2>6. ASSUME SkipProcessed
       PROVE  PassInv'
    BY <2>6 DEF SkipProcessed
  <2>7. ASSUME ReadHash
       PROVE  PassInv'
    BY <2>7 DEF ReadHash
  <2>8. ASSUME ProcessFile
       PROVE  PassInv'
    BY <2>8 DEF ProcessFile, VerdictOn
  <2>9. ASSUME AbortScan
       PROVE  PassInv'
    BY <2>9 DEF AbortScan
  <2>10. ASSUME ProcessFileFails
        PROVE  PassInv'
    BY <2>10 DEF ProcessFileFails
  <2>11. ASSUME StartImport
        PROVE  PassInv'
    BY <2>11 DEF StartImport, Accepted, NoDraft
  <2>12. ASSUME DropImport
        PROVE  PassInv'
    BY <2>12 DEF DropImport, ReadAgain
  <2>13. ASSUME CommitImport
        PROVE  PassInv'
    BY <2>2, <2>13 DEF CommitImport, NoDraft, NoReopening, Overtakes, BeingReopened, TypeOK
  <2>14. ASSUME AutoImportFails
        PROVE  PassInv'
    BY <2>14 DEF AutoImportFails, NoDraft
  <2>15. ASSUME Mark
        PROVE  PassInv'
    BY <2>15 DEF Mark, EndPass
  <2>16. ASSUME BeginSave \/ EndSave
        PROVE  PassInv'
    BY <2>16 DEF BeginSave, EndSave
  <2>17. ASSUME Crash
        PROVE  PassInv'
    BY <2>17 DEF Crash, NothingRegistered, NoDraft
  <2>18. ASSUME NEW f \in File, NEW c \in Inbox[f], Deliver(f, c)
         PROVE  PassInv'
    <3>1. c # Absent
      BY QueueAssumption
    <3>. QED
      BY <2>18, <3>1 DEF Deliver, scan, TypeOK
  <2>19. ASSUME NEW i \in DOMAIN imported, Close(i) \/ StartReopen(i)
         PROVE  PassInv'
    BY <2>2, <2>19 DEF Close, StartReopen, scan
  <2>20. ASSUME CommitReopen
         PROVE  PassInv'
    <3>1. draft = NoDraft => draft' = NoDraft
      <4>. SUFFICES ASSUME draft = NoDraft
                    PROVE  draft' = NoDraft
        OBVIOUS
      <4>1. ~ (draft.overtaken \/ Overtakes(ResponseIdOf[BeingReopened], draft.application))
        BY DEF NoDraft, Overtakes
      <4>2. draft' = [draft EXCEPT !.overtaken = FALSE]
        BY <2>20, <4>1 DEF CommitReopen
      <4>. QED
        BY <4>2 DEF NoDraft
    <3>2. draft'.application = draft.application
      BY <2>20 DEF CommitReopen, TypeOK
    <3>. QED
      BY <2>2, <2>20, <3>1, <3>2 DEF CommitReopen
  <2>21. ASSUME DropReopen
         PROVE  PassInv'
    BY <2>21 DEF DropReopen, scan
  <2>22. ASSUME UNCHANGED vars
         PROVE  PassInv'
    BY <2>22 DEF vars, scan
  <2>. QED
    BY <2>3, <2>4, <2>5, <2>6, <2>7, <2>8, <2>9, <2>10, <2>11, <2>12, <2>13, <2>14, <2>15, <2>16, <2>17, <2>18, <2>19, <2>20, <2>21, <2>22
    DEF Next, WorkerStep, StaffStep
<1>. QED
  BY <1>1, <1>2, <1>3, <1>4, PTL DEF Spec

-----------------------------------------------------------------------------
(* The races for a Response ID                                             *)

\* A Response ID gets a new live holder by the commit of an import or of a
\* reopening only.
LEMMA HoldersStay ==
  ASSUME TypeOK, PassInv, [Next]_vars, ~ CommitImport, ~ CommitReopen
  PROVE  /\ DOMAIN imported' = DOMAIN imported
         /\ \A i \in DOMAIN imported :
              imported'[i].live => imported[i].live /\ imported'[i] = imported[i]
         /\ \A rid : LiveHolder(rid)' => LiveHolder(rid)
<1>1. CASE UNCHANGED imported
  BY <1>1 DEF LiveHolder, Holds
<1>2. ASSUME NEW i \in DOMAIN imported, Close(i)
      PROVE  /\ DOMAIN imported' = DOMAIN imported
             /\ \A j \in DOMAIN imported :
                  imported'[j].live => imported[j].live /\ imported'[j] = imported[j]
  BY <1>2, ClosingIsInPlace, ImportsShape DEF Import
<1>3. /\ DOMAIN imported' = DOMAIN imported
      /\ \A i \in DOMAIN imported :
           imported'[i].live => imported[i].live /\ imported'[i] = imported[i]
  BY <1>1, <1>2, OtherStepsLeaveImports
<1>. QED
  BY <1>3 DEF LiveHolder, Holds

\* The invariant behind OneLiveUnlessOvertaken.
LEMMA RacesAreSeen == Spec => []RaceInv
<1>1. Init => RaceInv
  BY DEF Init, RaceInv, OneLiveUnlessOvertaken
<1>2. RaceInv /\ TypeOK /\ PassInv /\ PassInv' /\ [Next]_vars => RaceInv'
  <2>. SUFFICES ASSUME RaceInv, TypeOK, PassInv, PassInv', [Next]_vars
                PROVE  RaceInv'
    OBVIOUS
  <2>0. Absent \notin Importable
    BY QueueAssumption DEF Content, Importable
  <2>1. CASE CommitImport
    <3>. DEFINE n == Len(imported) + 1
    <3>1. /\ DOMAIN imported' = DOMAIN imported \union {n} /\ n \notin DOMAIN imported
          /\ imported'[n] = NewRow /\ \A i \in DOMAIN imported : imported'[i] = imported[i]
      BY <2>1, ImportAppends
    <3>2. /\ NewRow.live /\ NewRow.overtaken = draft.overtaken
          /\ NewRow.application = draft.application /\ draft.application # Absent
      BY <2>0, <2>1 DEF NewRow, CommitImport, PassInv
    <3>. HIDE DEF n, NewRow
    <3>3. LiveHolder(ResponseIdOf[draft.application]) => draft.overtaken
      BY <2>1 DEF RaceInv, CommitImport
    <3>4. OneLiveUnlessOvertaken'
      <4>. SUFFICES ASSUME NEW i \in DOMAIN imported', NEW j \in DOMAIN imported', i # j,
                           imported'[i].live, imported'[j].live,
                           ResponseIdOf[imported'[i].application] # NoResponseId,
                           ResponseIdOf[imported'[i].application]
                             = ResponseIdOf[imported'[j].application]
                    PROVE  imported'[i].overtaken \/ imported'[j].overtaken
        BY DEF OneLiveUnlessOvertaken
      <4>1. CASE i \in DOMAIN imported /\ j \in DOMAIN imported
        BY <3>1, <4>1 DEF RaceInv, OneLiveUnlessOvertaken
      <4>2. CASE i = n \/ j = n
        BY <3>1, <3>2, <3>3, <4>2 DEF LiveHolder, Holds
      <4>. QED
        BY <3>1, <4>1, <4>2
    <3>5. ASSUME reopening' # NoReopening
          PROVE  /\ ~ imported'[reopening'.request].live
                 /\ LiveHolder(ResponseIdOf[BeingReopened])' => reopening'.overtaken
      <4>1. /\ reopening'.request = reopening.request
            /\ reopening'.overtaken
                 = (reopening.overtaken
                      \/ Overtakes(ResponseIdOf[draft.application], BeingReopened))
        BY <2>1 DEF CommitImport, TypeOK
      <4>2. reopening # NoReopening
        <5>. SUFFICES ASSUME reopening = NoReopening
                      PROVE  reopening' = NoReopening
          BY <3>5
        <5>1. ~ reopening.overtaken /\ ~ Overtakes(ResponseIdOf[draft.application], Absent)
          BY DEF NoReopening, Overtakes
        <5>2. BeingReopened = Absent
          BY DEF BeingReopened
        <5>3. reopening' = [reopening EXCEPT !.overtaken = FALSE]
          BY <2>1, <5>1, <5>2 DEF CommitImport
        <5>. QED
          BY <5>3 DEF NoReopening
      <4>3. reopening.request \in DOMAIN imported
        BY <4>2 DEF PassInv
      <4>4. /\ BeingReopened = imported[reopening.request].application
            /\ BeingReopened' = BeingReopened /\ BeingReopened # Absent
        BY <2>0, <3>1, <3>5, <4>1, <4>2, <4>3, ImportsShape DEF BeingReopened, Import
      <4>5. ~ imported'[reopening'.request].live
        BY <3>1, <4>1, <4>2, <4>3 DEF RaceInv
      <4>6. ASSUME LiveHolder(ResponseIdOf[BeingReopened])'
            PROVE  reopening'.overtaken
        <5>. DEFINE rid == ResponseIdOf[BeingReopened]
        <5>1. PICK i \in DOMAIN imported' :
                /\ rid # NoResponseId /\ imported'[i].live
                /\ ResponseIdOf[imported'[i].application] = rid
          BY <4>4, <4>6 DEF LiveHolder, Holds
        <5>2. CASE i \in DOMAIN imported
          BY <3>1, <4>1, <4>2, <5>1, <5>2 DEF LiveHolder, Holds, RaceInv
        <5>3. CASE i = n
          BY <3>1, <3>2, <4>1, <4>4, <5>1, <5>3 DEF Overtakes
        <5>. QED
          BY <3>1, <5>2, <5>3
      <4>. QED
        BY <4>5, <4>6
    <3>. QED
      BY <2>1, <3>4, <3>5 DEF RaceInv, CommitImport
  <2>2. CASE CommitReopen
    <3>. DEFINE r == reopening.request
    <3>1. /\ r \in DOMAIN imported /\ DOMAIN imported' = DOMAIN imported
          /\ imported'[r] = Reopened
          /\ \A i \in DOMAIN imported \ {r} : imported'[i] = imported[i]
      BY <2>2, ReopeningIsInPlace
    <3>2. /\ Reopened.live /\ Reopened.overtaken = reopening.overtaken
          /\ Reopened.application = BeingReopened
      BY <2>2, <3>1, ImportsShape DEF Reopened, Import, BeingReopened, CommitReopen
    <3>. HIDE DEF r, Reopened
    <3>3. LiveHolder(ResponseIdOf[BeingReopened]) => reopening.overtaken
      BY <2>2 DEF RaceInv, CommitReopen
    <3>4. OneLiveUnlessOvertaken'
      <4>. SUFFICES ASSUME NEW i \in DOMAIN imported, NEW j \in DOMAIN imported, i # j,
                           imported'[i].live, imported'[j].live,
                           ResponseIdOf[imported'[i].application] # NoResponseId,
                           ResponseIdOf[imported'[i].application]
                             = ResponseIdOf[imported'[j].application]
                    PROVE  imported'[i].overtaken \/ imported'[j].overtaken
        BY <3>1 DEF OneLiveUnlessOvertaken
      <4>1. CASE i # r /\ j # r
        BY <3>1, <4>1 DEF RaceInv, OneLiveUnlessOvertaken
      <4>2. CASE i = r \/ j = r
        BY <3>1, <3>2, <3>3, <4>2 DEF LiveHolder, Holds
      <4>. QED
        BY <4>1, <4>2
    <3>5. ASSUME pc' = "importing", LiveHolder(ResponseIdOf[draft.application])'
          PROVE  draft'.overtaken
      <4>1. /\ pc = "importing" /\ draft.application # Absent
            /\ draft'.application = draft.application
            /\ draft'.overtaken
                 = (draft.overtaken
                      \/ Overtakes(ResponseIdOf[BeingReopened], draft.application))
        BY <2>0, <2>2, <3>5 DEF CommitReopen, PassInv, TypeOK
      <4>2. PICK i \in DOMAIN imported' :
              /\ ResponseIdOf[draft.application] # NoResponseId /\ imported'[i].live
              /\ ResponseIdOf[imported'[i].application] = ResponseIdOf[draft.application]
        BY <3>5, <4>1 DEF LiveHolder, Holds
      <4>3. CASE i # r
        BY <3>1, <4>1, <4>2, <4>3 DEF LiveHolder, Holds, RaceInv
      <4>4. CASE i = r
        BY <3>1, <3>2, <4>1, <4>2, <4>4 DEF Overtakes
      <4>. QED
        BY <4>3, <4>4
    <3>. QED
      BY <2>2, <3>4, <3>5 DEF RaceInv, CommitReopen
  <2>3. CASE ~ CommitImport /\ ~ CommitReopen
    <3>1. /\ DOMAIN imported' = DOMAIN imported
          /\ \A i \in DOMAIN imported :
               imported'[i].live => imported[i].live /\ imported'[i] = imported[i]
          /\ \A rid : LiveHolder(rid)' => LiveHolder(rid)
      BY <2>3, HoldersStay
    <3>2. OneLiveUnlessOvertaken'
      BY <3>1 DEF RaceInv, OneLiveUnlessOvertaken
    <3>3. pc' = "importing" =>
            \/ pc = "importing" /\ draft' = draft
            \/ ~ LiveHolder(ResponseIdOf[draft'.application])
      <4>1. CASE StartImport
        BY <4>1 DEF StartImport, Accepted
      <4>. QED
        BY <2>3, <4>1
        DEF Next, WorkerStep, StaffStep, Start, BeginScan, SkipUnreadable, SkipProcessed,
            ReadHash, ProcessFile, AbortScan, ProcessFileFails, DropImport,
            AutoImportFails, Mark, EndPass, BeginSave, EndSave, Crash, Deliver, Close,
            StartReopen, DropReopen, vars, scan
    <3>4. pc' = "importing" /\ LiveHolder(ResponseIdOf[draft.application])'
            => draft'.overtaken
      BY <3>1, <3>3 DEF RaceInv, LiveHolder, Holds
    <3>5. reopening' # NoReopening =>
            \/ reopening' = reopening
            \/ /\ UNCHANGED imported /\ ~ imported[reopening'.request].live
               /\ ~ LiveHolder(ResponseIdOf[imported[reopening'.request].application])
      <4>1. ASSUME NEW i \in DOMAIN imported, StartReopen(i)
            PROVE  /\ UNCHANGED imported /\ ~ imported[reopening'.request].live
                   /\ ~ LiveHolder(ResponseIdOf[imported[reopening'.request].application])
        BY <4>1 DEF StartReopen
      <4>. QED
        BY <2>3, <4>1
        DEF Next, WorkerStep, StaffStep, Start, BeginScan, SkipUnreadable, SkipProcessed,
            ReadHash, ProcessFile, AbortScan, ProcessFileFails, StartImport, DropImport,
            AutoImportFails, Mark, EndPass, BeginSave, EndSave, Crash, Deliver, Close,
            DropReopen, vars, requests
    <3>6. ASSUME reopening' # NoReopening
          PROVE  /\ ~ imported'[reopening'.request].live
                 /\ LiveHolder(ResponseIdOf[BeingReopened])' => reopening'.overtaken
      <4>1. /\ BeingReopened' = imported'[reopening'.request].application
            /\ reopening'.request \in DOMAIN imported'
        BY <3>6 DEF BeingReopened, PassInv
      <4>2. CASE reopening' = reopening
        <5>1. imported'[reopening.request].application
                = imported[reopening.request].application
          BY <3>6, <4>2, RequestsStay DEF PassInv
        <5>2. BeingReopened' = BeingReopened
          BY <3>6, <4>1, <4>2, <5>1 DEF BeingReopened
        <5>3. LiveHolder(ResponseIdOf[BeingReopened])'
                => LiveHolder(ResponseIdOf[BeingReopened])
          BY <3>1, <5>2 DEF LiveHolder, Holds
        <5>. QED
          BY <3>1, <3>6, <4>1, <4>2, <5>3 DEF RaceInv
      <4>3. CASE reopening' # reopening
        <5>1. /\ UNCHANGED imported /\ ~ imported[reopening'.request].live
              /\ ~ LiveHolder(ResponseIdOf[imported[reopening'.request].application])
          BY <3>5, <3>6, <4>3
        <5>. QED
          BY <4>1, <5>1 DEF LiveHolder, Holds
      <4>. QED
        BY <4>2, <4>3
    <3>. QED
      BY <3>2, <3>4, <3>6 DEF RaceInv
  <2>. QED
    BY <2>1, <2>2, <2>3
<1>. QED
  BY <1>1, <1>2, WorkerTypeCorrect, PTL DEF Spec

\* Without a race the Response ID of a live request is its own: of two live
\* requests with one ID, one committed after the other had passed it by, however
\* often files are sent again, requests closed and reopened, and the worker dies.
THEOREM TwoLiveOnlyByARace == Spec => []OneLiveUnlessOvertaken
<1>1. RaceInv => OneLiveUnlessOvertaken
  BY DEF RaceInv
<1>. QED
  BY <1>1, RacesAreSeen, PTL

-----------------------------------------------------------------------------
(* Nothing is lost                                                         *)

\* What staff know they keep knowing.
LEMMA KnownForEver ==
  ASSUME TypeOK, PassInv, [Next]_vars, NEW a, KnownToStaff(a)
  PROVE  KnownToStaff(a)'
BY RequestsStay DEF KnownToStaff

\* The count of late faults never goes back.
LEMMA LateFaultsStay ==
  ASSUME TypeOK, [Next]_vars, faults'.late = 0
  PROVE  faults.late = 0 /\ ~ ProcessFileFails /\ ~ AutoImportFails
<1>1. \/ faults' = faults
      \/ \E kind \in {"read", "crash"} : faults' = [faults EXCEPT ![kind] = @ + 1]
      \/ faults' = [faults EXCEPT !.late = @ + 1]
  BY DEF Next, WorkerStep, StaffStep, Start, BeginScan, SkipUnreadable, SkipProcessed,
         ReadHash, ProcessFile, AbortScan, ProcessFileFails, StartImport, DropImport,
         CommitImport, AutoImportFails, Mark, EndPass, BeginSave, EndSave, Crash,
         Deliver, Close, StartReopen, CommitReopen, DropReopen, vars
<1>2. faults.late = 0
  BY <1>1 DEF TypeOK
<1>. QED
  BY <1>2 DEF ProcessFileFails, AutoImportFails, TypeOK

\* The invariant behind NothingLost: what is registered was known before, and
\* what the current pass will register is known by the time it is marked.
LEMMA PromiseIsKept == Spec => []PromiseInv
<1>0. Absent \notin Importable /\ Importable \subseteq Application
  BY QueueAssumption DEF Content, Importable
<1>1. Init => PromiseInv
  BY <1>0 DEF Init, PromiseInv, Listed, NothingRegistered
<1>2. PromiseInv /\ TypeOK /\ PassInv /\ [Next]_vars => PromiseInv'
  <2>. DEFINE Kept == \A f \in File : \A c \in Importable \ torn[f] :
                        Listed(f, c) => KnownToStaff(c)
              Doing == ~ changed /\ hash \in Importable =>
                         /\ pc = "processed" => verdict = "PROCESSED"
                         /\ pc = "importing" => draft.application = hash
                         /\ pc = "imported" => KnownToStaff(hash)
  <2>. SUFFICES ASSUME PromiseInv, TypeOK, PassInv, [Next]_vars, faults'.late = 0
                PROVE  Kept' /\ Doing'
    BY DEF PromiseInv
  <2>1. Kept /\ Doing
    BY LateFaultsStay DEF PromiseInv
  <2>2. \A a : KnownToStaff(a) => KnownToStaff(a)'
    BY KnownForEver
  \* Unless something is registered anew.
  <2>3. ASSUME UNCHANGED torn,
               \A f \in File : \A c \in Importable : Listed(f, c)' => Listed(f, c)
        PROVE  Kept'
    BY <2>1, <2>2, <2>3
  <2>4. CASE Start \/ BeginSave \/ EndSave \/ Crash
    <3>1. UNCHANGED torn /\ pc' \notin {"processed", "importing", "imported"}
      BY <2>4 DEF Start, BeginSave, EndSave, Crash
    <3>2. \A f \in File : \A c \in Importable : Listed(f, c)' => Listed(f, c)
      BY <1>0, <2>4 DEF Start, BeginSave, EndSave, Crash, Listed, NothingRegistered,
                        memory
    <3>. QED
      BY <2>3, <3>1, <3>2
  <2>5. CASE BeginScan \/ SkipUnreadable \/ SkipProcessed \/ ReadHash \/ AbortScan
    <3>1. /\ UNCHANGED <<registry, saved, torn>>
          /\ pc' \notin {"processed", "importing", "imported"}
      BY <2>5 DEF BeginScan, SkipUnreadable, SkipProcessed, ReadHash, AbortScan, memory
    <3>. QED
      BY <2>3, <3>1 DEF Listed
  <2>6. CASE ProcessFile
    <3>1. /\ UNCHANGED <<registry, saved, torn, hash>> /\ pc' = "processed"
          /\ verdict' = VerdictOn(folder[Current])
          /\ changed' = (folder[Current] # hash)
      BY <2>6 DEF ProcessFile, memory
    <3>2. Doing'
      BY <3>1 DEF VerdictOn, Importable
    <3>. QED
      BY <2>3, <3>1, <3>2 DEF Listed
  <2>7. CASE StartImport \/ DropImport
    <3>1. /\ UNCHANGED <<registry, saved, torn, hash, verdict, imported>>
          /\ pc = "processed" /\ ReadAgain
      BY <2>7 DEF StartImport, DropImport, memory, requests
    <3>2. ~ changed' /\ hash \in Importable =>
            verdict = "PROCESSED" /\ folder[Current] = hash
      BY <2>1, <3>1 DEF ReadAgain
    <3>3. CASE StartImport
      BY <2>3, <3>1, <3>2, <3>3 DEF StartImport, Listed
    <3>4. CASE DropImport
      <4>1. pc' = "imported" /\ ~ Accepted(folder[Current])
        BY <3>4 DEF DropImport
      <4>2. ~ changed' /\ hash \in Importable => LiveHolder(ResponseIdOf[hash])
        BY <3>2, <4>1 DEF Accepted
      <4>3. ~ changed' /\ hash \in Importable => KnownToStaff(hash)
        BY <4>2 DEF LiveHolder, Holds, KnownToStaff
      <4>. QED
        BY <2>2, <2>3, <3>1, <4>1, <4>3 DEF Listed
    <3>. QED
      BY <2>7, <3>3, <3>4
  <2>8. CASE CommitImport
    <3>1. /\ UNCHANGED <<registry, saved, torn, hash, changed>>
          /\ pc = "importing" /\ pc' = "imported"
      BY <2>8 DEF CommitImport, memory
    <3>2. ~ changed /\ hash \in Importable => KnownToStaff(hash)'
      <4>1. /\ Len(imported) + 1 \in DOMAIN imported'
            /\ imported'[Len(imported) + 1] = NewRow
        BY <2>8, ImportAppends
      <4>2. NewRow.application = draft.application
        BY DEF NewRow
      <4>3. ~ changed /\ hash \in Importable => NewRow.application = hash
        BY <2>1, <3>1, <4>2
      <4>. HIDE DEF NewRow
      <4>. QED
        BY <3>1, <4>1, <4>3 DEF KnownToStaff
    <3>3. Kept'
      BY <2>3, <3>1 DEF Listed
    <3>. QED
      BY <3>1, <3>2, <3>3
  <2>9. CASE Mark
    <3>1. Current \in File
      BY <2>9, CurrentIsLeft DEF Mark, EndPass, PassInv, MidPass
    <3>2. /\ registry' = [registry EXCEPT ![Current] = hash] /\ saved' = saved
          /\ torn' = IF changed THEN [torn EXCEPT ![Current] = @ \union {hash}] ELSE torn
          /\ pc = "imported" /\ pc' = "scanning"
      BY <2>9 DEF Mark, EndPass
    <3>3. ASSUME NEW f \in File, NEW c \in Importable \ torn'[f], Listed(f, c)'
          PROVE  KnownToStaff(c)'
      <4>1. c \notin torn[f]
        BY <3>1, <3>2 DEF TypeOK
      <4>2. CASE Listed(f, c)
        BY <2>1, <2>2, <4>1, <4>2
      <4>3. CASE ~ Listed(f, c)
        <5>1. f = Current /\ c = hash
          BY <3>1, <3>2, <3>3, <4>3 DEF Listed, TypeOK
        <5>2. ~ changed
          BY <3>1, <3>2, <5>1 DEF TypeOK
        <5>3. KnownToStaff(c)
          BY <2>1, <3>2, <5>1, <5>2
        <5>. QED
          BY <2>2, <5>3
      <4>. QED
        BY <4>2, <4>3
    <3>. QED
      BY <3>2, <3>3
  <2>10. CASE \/ \E f \in File : \E c \in Inbox[f] : Deliver(f, c)
              \/ StaffStep \/ UNCHANGED vars
    <3>1. UNCHANGED <<registry, saved, torn, pc, hash, verdict, changed>>
      BY <2>10 DEF Deliver, StaffStep, Close, StartReopen, CommitReopen, DropReopen,
                   vars, memory, scan
    <3>2. draft'.application = draft.application
      BY <2>10 DEF Deliver, StaffStep, Close, StartReopen, CommitReopen, DropReopen,
                   vars, scan, TypeOK
    <3>. QED
      BY <2>1, <2>2, <2>3, <3>1, <3>2 DEF Listed
  <2>. HIDE DEF Kept, Doing
  <2>. QED
    BY <2>4, <2>5, <2>6, <2>7, <2>8, <2>9, <2>10, LateFaultsStay DEF Next, WorkerStep
<1>. QED
  BY <1>1, <1>2, WorkerTypeCorrect, PTL DEF Spec

\* While file and database can be read when the worker needs them, what the
\* registry calls processed and auto_import would accept has reached the booking
\* list, through crashes, partial files, aborted scans and a registry lost while
\* it was being saved, except for a content that was exchanged under a pass.
THEOREM RegisteredIsImported == Spec => []NothingLost
<1>1. PromiseInv /\ TypeOK => NothingLost
  BY DEF PromiseInv, NothingLost, Registered, Listed
<1>. QED
  BY <1>1, PromiseIsKept, WorkerTypeCorrect, PTL

-----------------------------------------------------------------------------
(* The price of an import                                                  *)

\* The imports of a file can be counted.
LEMMA ImportsAreFinite ==
  ASSUME TypeOK, NEW f
  PROVE  IsFiniteSet(ImportsOf(f)) /\ Cardinality(ImportsOf(f)) \in Nat
<1>1. IsFiniteSet(1 .. Len(imported)) /\ ImportsOf(f) \in SUBSET (1 .. Len(imported))
  BY ImportsShape, FS_Interval DEF ImportsOf
<1>. QED
  BY <1>1, FS_Subset, FS_CardinalityType

\* Closing and reopening count for nothing; an import counts once, for its file.
LEMMA ImportsCount ==
  ASSUME TypeOK, PassInv, [Next]_vars, NEW f
  PROVE  /\ ~ CommitImport => Cardinality(ImportsOf(f)') = Cardinality(ImportsOf(f))
         /\ CommitImport =>
              Cardinality(ImportsOf(f)')
                <= Cardinality(ImportsOf(f)) + (IF f = Current THEN 1 ELSE 0)
<1>1. CASE ~ CommitImport
  <2>1. DOMAIN imported' = DOMAIN imported
    BY <1>1, ClosingIsInPlace, ReopeningIsInPlace, OtherStepsLeaveImports
  <2>2. ImportsOf(f)' = ImportsOf(f)
    BY <2>1, RequestsStay DEF ImportsOf
  <2>. QED
    BY <1>1, <2>2
<1>2. CASE CommitImport
  <2>. DEFINE n == Len(imported) + 1
  <2>1. /\ DOMAIN imported' = DOMAIN imported \union {n} /\ imported'[n] = NewRow
        /\ \A i \in DOMAIN imported : imported'[i] = imported[i]
    BY <1>2, ImportAppends
  <2>2. NewRow.file = Current
    BY DEF NewRow
  <2>. HIDE DEF n, NewRow
  <2>3. ImportsOf(f)' = IF f = Current THEN ImportsOf(f) \union {n} ELSE ImportsOf(f)
    BY <2>1, <2>2 DEF ImportsOf
  <2>. QED
    BY <1>2, <2>3, ImportsAreFinite, FS_AddElement
<1>. QED
  BY <1>1, <1>2

\* What is due is a small number.
LEMMA DueIsSmall == \A f : Due(f) \in 0 .. 2 /\ Due(f)' \in 0 .. 2
BY DEF Due

\* A step of the worker or of staff makes no import due; importing spends the one
\* of the pass.  An aborted scan gives it up.
LEMMA DueOnlyShrinks ==
  ASSUME TypeOK, PassInv, PriceInv, NEW f \in File,
         WorkerStep \/ UNCHANGED <<folder, registry, pc, todo, hash>>
  PROVE  Due(f)' <= Due(f) - (IF CommitImport /\ f = Current THEN 1 ELSE 0)
<1>0. /\ todo' = todo => Current' = Current
      /\ todo # {} => Current \in todo /\ Current \in File
  BY CurrentStays, CurrentIsLeft
<1>. USE DEF Due, Basis, MidPass, CommitImport, sender, memory
<1>1. CASE Start
  BY <1>1 DEF Start, PriceInv, NothingRegistered
<1>2. CASE BeginScan
  BY <1>2 DEF BeginScan
<1>3. CASE SkipUnreadable \/ SkipProcessed
  BY <1>3 DEF SkipUnreadable, SkipProcessed
<1>4. CASE ReadHash
  BY <1>0, <1>4 DEF ReadHash, AlreadyProcessed, PassInv
<1>5. CASE ProcessFile \/ ProcessFileFails
  BY <1>0, <1>5 DEF ProcessFile, ProcessFileFails
<1>6. CASE AbortScan
  BY <1>6 DEF AbortScan
<1>7. CASE StartImport \/ DropImport
  BY <1>0, <1>7 DEF StartImport, DropImport
<1>8. CASE CommitImport
  BY <1>0, <1>8
<1>9. CASE AutoImportFails
  BY <1>0, <1>9 DEF AutoImportFails
<1>10. CASE Mark
  <2>1. Current \in File
    BY <1>0, <1>10 DEF Mark, EndPass, PassInv
  <2>. QED
    BY <2>1, <1>10 DEF Mark, EndPass, TypeOK
<1>11. CASE BeginSave \/ EndSave
  BY <1>11 DEF BeginSave, EndSave
<1>12. CASE UNCHANGED <<folder, registry, pc, todo, hash>>
  BY <1>0, <1>12
<1>. QED
  BY <1>1, <1>2, <1>3, <1>4, <1>5, <1>6, <1>7, <1>8, <1>9, <1>10, <1>11, <1>12
  DEF WorkerStep

\* The invariant behind ReimportHasCause: imports made and imports due are paid
\* for by writes and crashes.
LEMMA ImportsArePaidFor == Spec => []PriceInv
<1>1. Init => PriceInv
  <2>. SUFFICES ASSUME Init, NEW f \in File
                PROVE  Cardinality(ImportsOf(f)) + Due(f) <= writes[f] + faults.crash
    BY DEF Init, PriceInv
  <2>1. ImportsOf(f) = {} /\ writes[f] = 0 /\ faults.crash = 0 /\ Due(f) = 0
    BY DEF Init, ImportsOf, Due
  <2>. QED
    BY <2>1, FS_EmptySet
<1>2. PriceInv /\ TypeOK /\ TypeOK' /\ PassInv /\ [Next]_vars => PriceInv'
  <2>. SUFFICES ASSUME PriceInv, TypeOK, TypeOK', PassInv, [Next]_vars
                PROVE  PriceInv'
    OBVIOUS
  <2>1. (pc = "stopped" => registry = NothingRegistered)'
    BY DEF PriceInv, Next, WorkerStep, StaffStep, Start, BeginScan, SkipUnreadable,
           SkipProcessed, ReadHash, ProcessFile, AbortScan, ProcessFileFails,
           StartImport, DropImport, CommitImport, AutoImportFails, Mark, EndPass,
           BeginSave, EndSave, Crash, Deliver, Close, StartReopen, CommitReopen,
           DropReopen, vars, memory, scan
  <2>. SUFFICES ASSUME NEW f \in File
                PROVE  Cardinality(ImportsOf(f)') + Due(f)' <= writes'[f] + faults'.crash
    BY <2>1 DEF PriceInv
  <2>. DEFINE n == Cardinality(ImportsOf(f))
              m == Cardinality(ImportsOf(f)')
              w == writes[f]
              crash == faults.crash
  <2>2. /\ n \in Nat /\ m \in Nat /\ w \in Nat /\ crash \in Nat
        /\ n + Due(f) <= w + crash
    <3>1. (IsFiniteSet(ImportsOf(f)) /\ Cardinality(ImportsOf(f)) \in Nat)'
      <4>1. DOMAIN imported' = 1 .. Len(imported') /\ Len(imported') \in Nat
        BY LenProperties DEF TypeOK
      <4>2. /\ IsFiniteSet(1 .. Len(imported'))
            /\ ImportsOf(f)' \in SUBSET (1 .. Len(imported'))
        BY <4>1, FS_Interval DEF ImportsOf
      <4>. QED
        BY <4>2, FS_Subset, FS_CardinalityType
    <3>. QED
      BY <3>1, ImportsAreFinite DEF PriceInv, TypeOK
  <2>3. Due(f) \in 0 .. 2 /\ Due(f)' \in 0 .. 2
    BY DueIsSmall
  <2>4. CASE WorkerStep \/ StaffStep \/ UNCHANGED vars
    <3>1. /\ UNCHANGED writes /\ faults'.crash = crash
          /\ WorkerStep \/ UNCHANGED <<folder, registry, pc, todo, hash>>
      BY <2>4 DEF WorkerStep, StaffStep, Start, BeginScan, SkipUnreadable,
                  SkipProcessed, ReadHash, ProcessFile, AbortScan, ProcessFileFails,
                  StartImport, DropImport, CommitImport, AutoImportFails, Mark,
                  EndPass, BeginSave, EndSave, Close, StartReopen, CommitReopen,
                  DropReopen, vars, sender, memory, scan, TypeOK
    <3>2. Due(f)' <= Due(f) - (IF CommitImport /\ f = Current THEN 1 ELSE 0)
      BY <3>1, DueOnlyShrinks
    <3>3. /\ ~ CommitImport => m = n
          /\ CommitImport => m <= n + (IF f = Current THEN 1 ELSE 0)
      BY ImportsCount
    <3>. HIDE DEF n, m, w, crash
    <3>4. m + Due(f)' <= n + Due(f)
      BY <2>2, <2>3, <3>2, <3>3
    <3>5. writes'[f] = w /\ faults'.crash = crash
      BY <3>1 DEF w
    <3>6. m + Due(f)' <= w + crash
      BY <2>2, <2>3, <3>4
    <3>. QED
      BY <3>5, <3>6 DEF m
  <2>5. CASE Crash
    <3>1. /\ writes'[f] = w /\ faults'.crash = crash + 1
          /\ ~ CommitImport /\ pc' = "stopped"
      BY <2>5 DEF Crash, CommitImport, TypeOK, sender
    <3>2. Due(f)' <= 1
      BY <3>1 DEF Due
    <3>3. m = n
      BY <3>1, ImportsCount
    <3>. HIDE DEF n, m, w, crash
    <3>4. m + Due(f)' <= w + (crash + 1)
      BY <2>2, <2>3, <3>2, <3>3
    <3>. QED
      BY <3>1, <3>4 DEF m
  <2>6. ASSUME NEW g \in File, NEW c \in Inbox[g], Deliver(g, c)
        PROVE  m + Due(f)' <= writes'[f] + faults'.crash
    <3>1. /\ UNCHANGED <<registry, pc, todo, hash, faults>> /\ ~ CommitImport
          /\ writes'[f] = w + (IF f = g THEN 1 ELSE 0)
          /\ f # g => folder'[f] = folder[f]
      BY <2>6 DEF Deliver, CommitImport, TypeOK, memory, scan
    <3>2. m = n
      BY <3>1, ImportsCount
    <3>3. Due(f)' <= Due(f) + (IF f = g THEN 1 ELSE 0)
      BY <3>1, CurrentStays DEF Due, Basis, MidPass
    <3>. HIDE DEF n, m, w, crash
    <3>4. m + Due(f)' <= w + (IF f = g THEN 1 ELSE 0) + crash
      BY <2>2, <2>3, <3>2, <3>3
    <3>. QED
      BY <3>1, <3>4 DEF crash
  <2>. QED
    BY <2>4, <2>5, <2>6 DEF Next
<1>. QED
  BY <1>1, <1>2, WorkerTypeCorrect, PTL DEF Spec

\* A file is imported again only for a reason: every request that comes from it
\* was paid for by a write of the file or by a crash of the worker.
THEOREM ImportsHaveACause == Spec => []ReimportHasCause
<1>1. PriceInv /\ TypeOK => ReimportHasCause
  <2>. SUFFICES ASSUME PriceInv, TypeOK, NEW f \in File
                PROVE  Cardinality(ImportsOf(f)) <= writes[f] + faults.crash
    BY DEF ReimportHasCause, ImportsOf
  <2>1. /\ Cardinality(ImportsOf(f)) \in Nat /\ writes[f] \in Nat
        /\ faults.crash \in Nat /\ Due(f) \in 0 .. 2
        /\ Cardinality(ImportsOf(f)) + Due(f) <= writes[f] + faults.crash
    BY ImportsAreFinite, DueIsSmall DEF PriceInv, TypeOK
  <2>. QED
    BY <2>1
<1>. QED
  BY <1>1, ImportsArePaidFor, WorkerTypeCorrect, PTL

=============================================================================
