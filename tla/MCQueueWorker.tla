--------------------------- MODULE MCQueueWorker ----------------------------
(***************************************************************************)
(* Two files: one with a Response ID that is later corrected, or replaced  *)
(* by something that is no JSON object; one without a Response ID, that    *)
(* may be half-synchronised or lack its name or its dates.                 *)
(***************************************************************************)
EXTENDS QueueWorker

CONSTANTS first, corrected, anonymous, undated, unnamed, form

MCResponseIdOf ==
  [a \in Application |-> IF a \in {first, corrected} THEN form ELSE NoResponseId]

MCInbox ==
  [f \in File |-> IF f = 1 THEN {first, corrected, NoObject}
                  ELSE {Partial, anonymous, unnamed, undated}]

\* Three writes let a file go back to what it held, or be replaced once after
\* the other has come.
MCWriteCounts == {w \in [File -> 0 .. 3] : w[1] + w[2] <= 3}

\* One failed first read; one locked file or database, or one crash.
MCFaultCounts ==
  {n \in [read : 0 .. 1, late : 0 .. 1, crash : 0 .. 1] : n.late + n.crash <= 1}

MCFile == 1 .. 2

\* For the runs about what is lost: files that are written once.
LoneInbox == [f \in File |-> IF f = 1 THEN {first} ELSE {}]
UndatedInbox == [f \in File |-> IF f = 1 THEN {first} ELSE {undated}]
Once == [File -> 0 .. 1]

=============================================================================
