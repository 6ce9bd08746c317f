------------------------------- MODULE AtomicRun -------------------------------
(***************************************************************************)
(* What one run of a factory promises, whatever happens in between: the    *)
(* author's directives, in author order, reach the disk all together or    *)
(* not at all, and only if the engine accepts every one of them.           *)
(***************************************************************************)
EXTENDS EngineStaging, SequencesExt

CONSTANT Verbs   \* the directives the author may buffer

VARIABLES
  intent,   \* the directives of the run, in author order
  disk,     \* the committed tree
  outcome   \* "running", "committed" or "aborted"

avars == <<intent, disk, outcome>>

(* Applying a sequence of directives from nothing staged.                  *)
Replay(ds) ==
  LET step(acc, d) ==
        IF acc.ok /\ Verdict(acc.st, d, FALSE) = "ok"
        THEN [ok |-> TRUE, st |-> Effect(acc.st, d)]
        ELSE [acc EXCEPT !.ok = FALSE]
  IN FoldLeft(step, [ok |-> TRUE, st |-> EmptyStaging], ds)

AInit == intent = <<>> /\ disk = NothingCommitted /\ outcome = "running"

ABuffer ==
  /\ outcome = "running"
  /\ \E d \in Verbs : intent' = Append(intent, d)
  /\ UNCHANGED <<disk, outcome>>

ACommit ==
  /\ outcome = "running"
  /\ Replay(intent).ok
  /\ disk' = Promote(disk, Replay(intent).st)
  /\ outcome' = "committed"
  /\ UNCHANGED intent

AAbort ==
  /\ outcome = "running"
  /\ outcome' = "aborted"
  /\ UNCHANGED <<intent, disk>>

ASpec == AInit /\ [][ABuffer \/ ACommit \/ AAbort]_avars

================================================================================
