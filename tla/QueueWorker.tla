----------------------------- MODULE QueueWorker -----------------------------
(***************************************************************************)
(* The queue worker (app/services/queue_processor.py): a process that      *)
(* polls a synchronised folder for application files, imports each as a    *)
(* booking request and remembers in processed.json what it has handled.    *)
(*                                                                         *)
(* A file is read three times in one pass (hash, verdict, import), another *)
(* machine may rewrite it in between, staff may close and reopen requests  *)
(* at any time, and the process may die anywhere.                          *)
(***************************************************************************)
EXTENDS Integers, Sequences, FiniteSets

CONSTANTS
  File,             \* the files of the folder, numbered in name order
  Application,      \* what parses as an application
  Incomplete,       \* applications without a date or a session
  Nameless,         \* those whose applicant has no name, or whose fields are refused
  ResponseIdOf,     \* the Response ID printed on an application
  NoResponseId,     \* an application without one
  Partial,          \* what does not parse: a file still being synchronised
  NoObject,         \* JSON that is not an object: a list, null, a number
  Inbox,            \* which contents the sender may put into a file
  Absent,           \* no file yet, nothing registered for it, nothing in hand
  Corrupt,          \* a processed.json that does not parse
  WriteCounts,      \* bound: how often each file is written, one with another
  FaultCounts,      \* bound: how many faults there are of each kind, likewise
  MaxClosed         \* bound: requests that are closed at a time

Content == Application \union {Partial, NoObject}

\* The applications that auto_import accepts.
Importable == Application \ (Incomplete \union Nameless)

ASSUME QueueAssumption ==
  /\ File \subseteq Nat /\ IsFiniteSet(File)
  /\ {Partial, NoObject} \intersect Application = {}
  /\ Absent \notin Content
  /\ DOMAIN ResponseIdOf = Application
  /\ Inbox \in [File -> SUBSET Content]
  /\ WriteCounts \subseteq [File -> Nat]
  /\ FaultCounts \subseteq [read : Nat, late : Nat, crash : Nat]
  /\ MaxClosed \in Nat

VARIABLES
  folder,      \* what each file holds
  writes,      \* how often each file was written
  registry,    \* _Registry._data of the running worker
  saved,       \* processed.json, or Corrupt
  pc,          \* where the worker is
  todo,        \* files this scan has not visited yet
  hash,        \* the content the first read of the current file saw
  verdict,     \* status of process_file's result
  draft,       \* the application being imported, its Response ID found free
  imported,    \* the requests that come from files
  reopening,   \* the request being reopened, its Response ID found free
  faults,      \* how many faults of each kind there were
  changed,     \* history: did a later read of this pass differ from the first?
  torn         \* history: contents registered by passes that read another, too

sender == <<folder, writes>>
memory == <<registry, saved>>
scan == <<pc, todo, hash, verdict, draft, changed>>
requests == <<imported, reopening>>
vars == <<sender, memory, scan, requests, faults, torn>>

NothingRegistered == [f \in File |-> Absent]
NoDraft == [application |-> Absent, overtaken |-> FALSE]
NoReopening == [request |-> 0, overtaken |-> FALSE]

\* sorted(queue.iterdir()): the current file is the first one left.
Current == CHOOSE f \in todo : \A g \in todo : f <= g

Init ==
  /\ folder = [f \in File |-> Absent]
  /\ writes = [f \in File |-> 0]
  /\ registry = NothingRegistered
  /\ saved = NothingRegistered
  /\ pc = "stopped"
  /\ todo = {}
  /\ hash = Absent
  /\ verdict = "none"
  /\ draft = NoDraft
  /\ imported = << >>
  /\ reopening = NoReopening
  /\ faults = [read |-> 0, late |-> 0, crash |-> 0]
  /\ changed = FALSE
  /\ torn = [f \in File |-> {}]

-----------------------------------------------------------------------------
(* Response IDs                                                            *)

Holds(i, rid) ==
  /\ rid # NoResponseId
  /\ imported[i].live
  /\ ResponseIdOf[imported[i].application] = rid

\* A deviation: only the latest import is looked at.
LatestHolds(rid) == imported # << >> /\ Holds(Len(imported), rid)

LiveHolder(rid) == \E i \in DOMAIN imported : Holds(i, rid)

\* History: becoming live with Response ID rid overtakes whoever has tested the
\* Response ID of application a and not yet written.
Overtakes(rid, a) == rid # NoResponseId /\ a # Absent /\ ResponseIdOf[a] = rid

BeingReopened ==
  IF reopening = NoReopening THEN Absent ELSE imported[reopening.request].application

-----------------------------------------------------------------------------
(* The worker                                                              *)

\* A deviation: a registry that does not parse ends the worker each time it is
\* restarted.
StartIfRegistryParses ==
  /\ pc = "stopped"
  /\ pc' = IF saved = Corrupt THEN "stopped" ELSE "sleeping"
  /\ registry' = IF saved = Corrupt THEN registry ELSE saved
  /\ UNCHANGED <<sender, saved, todo, hash, verdict, draft, changed, requests,
                 faults, torn>>

\* run_loop: load the registry; a corrupt one starts fresh.
Start ==
  /\ pc = "stopped"
  /\ pc' = "sleeping"
  /\ registry' = IF saved = Corrupt THEN NothingRegistered ELSE saved
  /\ UNCHANGED <<sender, saved, todo, hash, verdict, draft, changed, requests,
                 faults, torn>>

BeginScan ==
  /\ pc = "sleeping"
  /\ pc' = "scanning"
  /\ todo' = {f \in File : folder[f] # Absent}
  /\ UNCHANGED <<sender, memory, hash, verdict, draft, changed, requests, faults, torn>>

\* The first read fails: the file is left for the next scan.
SkipUnreadable ==
  /\ pc = "scanning" /\ todo # {}
  /\ faults' = [faults EXCEPT !.read = @ + 1]
  /\ faults' \in FaultCounts
  /\ todo' = todo \ {Current}
  /\ UNCHANGED <<sender, memory, pc, hash, verdict, draft, changed, requests, torn>>

\* A deviation: the hash of a file never matches the registered one.
NeverProcessed(f) == FALSE

AlreadyProcessed(f) == registry[f] = folder[f]

SkipProcessed ==
  /\ pc = "scanning" /\ todo # {}
  /\ AlreadyProcessed(Current)
  /\ todo' = todo \ {Current}
  /\ UNCHANGED <<sender, memory, pc, hash, verdict, draft, changed, requests,
                 faults, torn>>

\* A deviation: the file is marked before it is imported.
ReadHashAndMark ==
  /\ pc = "scanning" /\ todo # {}
  /\ ~ AlreadyProcessed(Current)
  /\ hash' = folder[Current]
  /\ registry' = [registry EXCEPT ![Current] = folder[Current]]
  /\ pc' = "hashed"
  /\ UNCHANGED <<sender, saved, todo, verdict, draft, changed, requests, faults, torn>>

ReadHash ==
  /\ pc = "scanning" /\ todo # {}
  /\ ~ AlreadyProcessed(Current)
  /\ hash' = folder[Current]
  /\ pc' = "hashed"
  /\ UNCHANGED <<sender, memory, todo, verdict, draft, changed, requests, faults, torn>>

VerdictOn(c) ==
  IF c \notin Application THEN "ERROR"
  ELSE IF c \in Incomplete THEN "PARSE_INCOMPLETE"
  ELSE "PROCESSED"

\* process_file reads the file again.  It does not look at the name.
ProcessFile ==
  /\ pc = "hashed"
  /\ folder[Current] # NoObject
  /\ pc' = "processed"
  /\ verdict' = VerdictOn(folder[Current])
  /\ changed' = (folder[Current] # hash)
  /\ UNCHANGED <<sender, memory, todo, hash, draft, requests, faults, torn>>

\* outer.get of something that is no object raises, outside any try: run_loop
\* logs it and polls again.  The files after this one are not visited, and what
\* the scan has marked stays in memory.
AbortScan ==
  /\ pc = "hashed"
  /\ folder[Current] = NoObject
  /\ pc' = "sleeping"
  /\ todo' = {}
  /\ hash' = Absent
  /\ UNCHANGED <<sender, memory, verdict, draft, changed, requests, faults, torn>>

ProcessFileFails ==
  /\ pc = "hashed"
  /\ faults' = [faults EXCEPT !.late = @ + 1]
  /\ faults' \in FaultCounts
  /\ pc' = "processed"
  /\ verdict' = "ERROR"
  /\ UNCHANGED <<sender, memory, todo, hash, draft, changed, requests, torn>>

\* auto_import reads the file a third time and looks for a live request with
\* its Response ID, the second time (in save_request) before anything is locked.
Accepted(c) ==
  /\ verdict = "PROCESSED"
  /\ c \in Importable
  /\ ~ LiveHolder(ResponseIdOf[c])

ReadAgain == changed' = (changed \/ (verdict = "PROCESSED" /\ folder[Current] # hash))

StartImport ==
  /\ pc = "processed"
  /\ Accepted(folder[Current])
  /\ pc' = "importing"
  /\ draft' = [application |-> folder[Current], overtaken |-> FALSE]
  /\ ReadAgain
  /\ UNCHANGED <<sender, memory, todo, hash, verdict, requests, faults, torn>>

\* Whatever auto_import does not accept is no request, and logged at most.
DropImport ==
  /\ pc = "processed"
  /\ ~ Accepted(folder[Current])
  /\ pc' = "imported"
  /\ ReadAgain
  /\ UNCHANGED <<sender, memory, todo, hash, verdict, draft, requests, faults, torn>>

\* The insert, which is locked, and the commit.
CommitImport ==
  /\ pc = "importing"
  /\ pc' = "imported"
  /\ imported' = Append(imported,
       [application |-> draft.application, file |-> Current, live |-> TRUE,
        overtaken |-> draft.overtaken])
  /\ reopening' = [reopening EXCEPT !.overtaken =
       @ \/ Overtakes(ResponseIdOf[draft.application], BeingReopened)]
  /\ draft' = NoDraft
  /\ UNCHANGED <<sender, memory, todo, hash, verdict, changed, faults, torn>>

\* A locked file or database, or any other exception: rolled back, logged, None.
AutoImportFails ==
  /\ \/ pc = "processed" /\ verdict = "PROCESSED"
     \/ pc = "importing"
  /\ faults' = [faults EXCEPT !.late = @ + 1]
  /\ faults' \in FaultCounts
  /\ pc' = "imported"
  /\ draft' = NoDraft
  /\ UNCHANGED <<sender, memory, todo, hash, verdict, changed, requests, torn>>

EndPass ==
  /\ pc = "imported"
  /\ pc' = "scanning"
  /\ todo' = todo \ {Current}
  /\ hash' = Absent
  /\ verdict' = "none"
  /\ changed' = FALSE
  /\ torn' = IF changed THEN [torn EXCEPT ![Current] = @ \union {hash}] ELSE torn
  /\ UNCHANGED <<sender, saved, draft, requests, faults>>

\* A deviation: the registry is given the status instead of the hash.
MarkWithStatus == EndPass /\ registry' = [registry EXCEPT ![Current] = verdict]

\* scan_queue marks the first read's hash, whatever came of the file.
Mark == EndPass /\ registry' = [registry EXCEPT ![Current] = hash]

\* save() opens processed.json for writing, which empties it, ...
BeginSave ==
  /\ pc = "scanning" /\ todo = {}
  /\ pc' = "saving"
  /\ saved' = Corrupt
  /\ UNCHANGED <<sender, registry, todo, hash, verdict, draft, changed, requests,
                 faults, torn>>

\* ... and then writes it, or fails (a full disk, say), which run_loop survives.
EndSave ==
  /\ pc = "saving"
  /\ pc' = "sleeping"
  /\ saved' \in {registry, Corrupt}
  /\ UNCHANGED <<sender, registry, todo, hash, verdict, draft, changed, requests,
                 faults, torn>>

\* The process dies, between any two steps; what it had in memory is gone.
Crash ==
  /\ pc # "stopped"
  /\ faults' = [faults EXCEPT !.crash = @ + 1]
  /\ faults' \in FaultCounts
  /\ pc' = "stopped"
  /\ registry' = NothingRegistered
  /\ todo' = {}
  /\ hash' = Absent
  /\ verdict' = "none"
  /\ draft' = NoDraft
  /\ changed' = FALSE
  /\ UNCHANGED <<sender, saved, requests, torn>>

-----------------------------------------------------------------------------
(* Its surroundings                                                        *)

\* The sender writes a file, or replaces it by something else: a correction, a
\* half-synchronised version, or what it held before.
Deliver(f, c) ==
  /\ c # folder[f]
  /\ folder' = [folder EXCEPT ![f] = c]
  /\ writes' = [writes EXCEPT ![f] = @ + 1]
  /\ writes' \in WriteCounts
  /\ UNCHANGED <<memory, scan, requests, faults, torn>>

\* Staff cancel or reject an imported request, or release its last slot ...
Close(i) ==
  /\ imported[i].live
  /\ Cardinality({j \in DOMAIN imported : ~ imported[j].live}) < MaxClosed
  /\ imported' = [imported EXCEPT ![i].live = FALSE, ![i].overtaken = FALSE]
  /\ UNCHANGED <<sender, memory, scan, reopening, faults, torn>>

\* ... and may reopen it while its Response ID is free: reopen_request tests
\* that first, ...
StartReopen(i) ==
  /\ reopening = NoReopening
  /\ ~ imported[i].live
  /\ ~ LiveHolder(ResponseIdOf[imported[i].application])
  /\ reopening' = [request |-> i, overtaken |-> FALSE]
  /\ UNCHANGED <<sender, memory, scan, imported, faults, torn>>

\* ... and then writes.  It does not await in between, so there is only one.
CommitReopen ==
  /\ reopening # NoReopening
  /\ imported' = [imported EXCEPT
       ![reopening.request].live = TRUE,
       ![reopening.request].overtaken = reopening.overtaken]
  /\ draft' = [draft EXCEPT !.overtaken =
       @ \/ Overtakes(ResponseIdOf[BeingReopened], draft.application)]
  /\ reopening' = NoReopening
  /\ UNCHANGED <<sender, memory, pc, todo, hash, verdict, changed, faults, torn>>

\* The database is locked for too long.
DropReopen ==
  /\ reopening # NoReopening
  /\ reopening' = NoReopening
  /\ UNCHANGED <<sender, memory, scan, imported, faults, torn>>

WorkerStep ==
  \/ Start \/ BeginScan
  \/ SkipUnreadable \/ SkipProcessed \/ ReadHash
  \/ ProcessFile \/ AbortScan \/ ProcessFileFails
  \/ StartImport \/ DropImport \/ CommitImport \/ AutoImportFails \/ Mark
  \/ BeginSave \/ EndSave

StaffStep ==
  \/ \E i \in DOMAIN imported : Close(i) \/ StartReopen(i)
  \/ CommitReopen \/ DropReopen

Next ==
  \/ WorkerStep
  \/ Crash
  \/ \E f \in File : \E c \in Inbox[f] : Deliver(f, c)
  \/ StaffStep

\* The worker's loop never stops by itself, and systemd restarts it after a
\* crash.  Nobody else has to do anything.
Spec == Init /\ [][Next]_vars /\ WF_vars(WorkerStep)

-----------------------------------------------------------------------------

TypeOK ==
  /\ folder \in [File -> Content \union {Absent}]
  /\ writes \in [File -> Nat]
  /\ registry \in [File -> Content \union {Absent}]
  /\ saved \in [File -> Content \union {Absent}] \union {Corrupt}
  /\ pc \in {"stopped", "sleeping", "scanning", "hashed", "processed",
             "importing", "imported", "saving"}
  /\ todo \subseteq File
  /\ hash \in Content \union {Absent}
  /\ verdict \in {"none", "PROCESSED", "PARSE_INCOMPLETE", "ERROR"}
  /\ draft \in [application : Importable \union {Absent}, overtaken : BOOLEAN]
  /\ imported \in Seq([application : Importable, file : File,
                       live : BOOLEAN, overtaken : BOOLEAN])
  /\ reopening \in [request : Nat, overtaken : BOOLEAN]
  /\ faults \in [read : Nat, late : Nat, crash : Nat]
  /\ changed \in BOOLEAN
  /\ torn \in [File -> SUBSET (Content \union {Absent})]

\* Was this application ever offered to staff, itself or as an earlier version
\* with the same Response ID?
KnownToStaff(a) ==
  \E i \in DOMAIN imported :
    \/ imported[i].application = a
    \/ /\ ResponseIdOf[a] # NoResponseId
       /\ ResponseIdOf[imported[i].application] = ResponseIdOf[a]

\* The registry, in memory or on disk, says that file f is done with, as it is.
Registered(f) == registry[f] = folder[f] \/ (saved # Corrupt /\ saved[f] = folder[f])

\* An importable application that the registry calls processed has reached the
\* booking list: what is skipped for ever is never lost.  docs/plans promise
\* it: what failed is "retried next poll (... not marked processed)".
RegisteredMeansImported ==
  \A f \in File :
    folder[f] \in Importable /\ Registered(f) => KnownToStaff(folder[f])

\* What is true of that promise.  It is kept, through crashes, partial files,
\* corrections, failed first reads and aborted scans, while the file and the
\* database can be read whenever the worker needs them: Mark comes last, with
\* the hash of the first read.  Excepted is a file whose later reads differed
\* from that first one and which has since gone back to it.
NothingLost ==
  faults.late = 0 =>
    \A f \in File :
      folder[f] \in Importable \ torn[f] /\ Registered(f) => KnownToStaff(folder[f])

\* The worker's docstring says more: "a PENDING request is always created [...]
\* incomplete parses stay PENDING for staff review".  In a folder where nothing
\* failed and nothing was rewritten, every application that was processed would
\* be on the booking list.
EveryApplicationIsQueued ==
  \A f \in File :
    /\ faults.late = 0 /\ writes[f] = 1
    /\ folder[f] \in Application /\ Registered(f)
    => KnownToStaff(folder[f])

\* However often the worker dies and files are sent again, two live requests
\* carry one Response ID only by a race: one of the two was overtaken, made live
\* by its commit after another had been since its own test.
OneLiveUnlessOvertaken ==
  \A i, j \in DOMAIN imported :
    /\ i # j
    /\ imported[i].live /\ imported[j].live
    /\ ResponseIdOf[imported[i].application] # NoResponseId
    /\ ResponseIdOf[imported[i].application] = ResponseIdOf[imported[j].application]
    => imported[i].overtaken \/ imported[j].overtaken

\* A file is imported again only for a reason: every request was paid for by a
\* write of its file or by a crash of the worker.
ReimportHasCause ==
  \A f \in File :
    Cardinality({i \in DOMAIN imported : imported[i].file = f})
      <= writes[f] + faults.crash

\* And an importable application that stays in the folder does come to be known
\* to staff, in spite of crashes, partial files, failed first reads and a
\* registry lost while it was being saved: again and again everything in the
\* folder is known, unless a late fault or a rewrite let one slip (NothingLost),
\* or a file that is no JSON object sorts before it and stops every scan.
EventuallyImported ==
  []<>(\/ faults.late > 0
       \/ \A f \in File :
            /\ folder[f] \in Importable \ torn[f]
            /\ \A g \in File : g < f => folder[g] # NoObject
            => KnownToStaff(folder[f]))

=============================================================================
