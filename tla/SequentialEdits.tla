--------------------------- MODULE SequentialEdits ---------------------------
(***************************************************************************)
(* What dialect handles promise: each path has one document, the steps of  *)
(* its chain are applied to it whole and one after the other, a run that   *)
(* succeeds writes exactly that document, and a run that does not writes   *)
(* nothing.  Buffers, flushes, live syntax trees and lazily printed        *)
(* directives (src/core/dialect-handle.ts) must not show.                  *)
(*                                                                         *)
(* A content is the sequence of the steps that made it: an edit adds its   *)
(* number at the end, a replacement starts over with its own.              *)
(***************************************************************************)
EXTENDS Naturals, Sequences

CONSTANTS Handles, MaxSteps, Gone

VARIABLES doc, kept, outcome

Untouched == [h \in Handles |-> <<>>]

Init ==
  /\ doc = Untouched
  /\ kept = Untouched
  /\ outcome = "running"

Step(h) ==
  /\ outcome = "running"
  /\ doc[h] # Gone
  /\ \E k \in 1..MaxSteps : \E c \in {Append(doc[h], k), <<k>>, Gone} :
        doc' = [doc EXCEPT ![h] = c]
  /\ UNCHANGED <<kept, outcome>>

Commit ==
  /\ outcome = "running"
  /\ outcome' = "committed"
  /\ kept' = doc
  /\ UNCHANGED doc

Abort ==
  /\ outcome = "running"
  /\ outcome' = "aborted"
  /\ doc' = Untouched
  /\ UNCHANGED kept

Next == (\E h \in Handles : Step(h)) \/ Commit \/ Abort

Spec == Init /\ [][Next]_<<doc, kept, outcome>>

==============================================================================
