----------------------------- MODULE Rejections -----------------------------
(***************************************************************************)
(* How a batch that the engine refuses becomes an error in the author's    *)
(* words: the client rebuilds the rejection from the host's answer         *)
(* (src/transport/stdio-engine-client.ts), the session translates it       *)
(* (src/core/session.ts, src/core/authoring-error.ts).                     *)
(***************************************************************************)
EXTENDS Integers, Sequences

None == -1   \* a field that is missing
Odd == -2    \* a field that holds no index

DirectiveLevel == {"collision", "not-found"}
BatchLevel == {"unrepresentable", "cap", "unknown"}
Codes == DirectiveLevel \cup BatchLevel   \* EmitRejectionCode

EmitRejection(code, index, applied) == [code |-> code, index |-> index, applied |-> applied]
Unclassified == EmitRejection("unknown", None, 0)

-----------------------------------------------------------------------------
(* The client.                                                             *)

(* A slip: an index is taken along with any code.                          *)
ReconstructEveryIndex(data) ==
  IF data.code \notin Codes \/ (data.code \in DirectiveLevel /\ data.index < 0) THEN Unclassified
  ELSE EmitRejection(data.code, data.index, IF data.applied = None THEN 0 ELSE data.applied)

(* reconstructEmitRejection: a code that names one directive comes with    *)
(* its index, any other code without; all else is unclassified.            *)
Reconstruct(data) ==
  IF data.code \in DirectiveLevel /\ data.index >= 0
  THEN EmitRejection(data.code, data.index, IF data.applied = None THEN 0 ELSE data.applied)
  ELSE IF data.code \in BatchLevel /\ data.index = None THEN EmitRejection(data.code, None, 0)
  ELSE Unclassified

-----------------------------------------------------------------------------
(* The session.  Indices count from 0, instructions from 1.                *)

ReasonOf ==
  [code \in Codes |->
     CASE code = "collision" -> "path-collision"
       [] code = "not-found" -> "path-not-found"
       [] code = "unrepresentable" -> "unrepresentable-content"
       [] code = "cap" -> "changes-too-large"
       [] code = "unknown" -> "unknown"]

OriginFor(reason) ==
  IF reason \in {"path-collision", "path-not-found", "unrepresentable-content", "changes-too-large", "unknown"}
  THEN "write-rejected" ELSE "authoring-rejected"

VerbFor(op) == IF op = "delete" THEN "remove" ELSE op

NoVerb == "none"
NoPath == "nowhere"

(* The path that the author gave, of the source if there are two.          *)
PrimaryPath(directive) == IF directive.op \in {"copy", "copyIn"} THEN directive.from ELSE directive.path

AuthoringError(verb, path, reason, applied) ==
  [verb |-> verb, path |-> path, reason |-> reason, origin |-> OriginFor(reason), applied |-> applied]

ToAuthoringError(raw, batch) ==
  LET inRange == raw.index + 1 \in DOMAIN batch
      offender == batch[raw.index + 1]
  IN AuthoringError(IF inRange THEN VerbFor(offender.op) ELSE NoVerb,
                    IF inRange THEN PrimaryPath(offender) ELSE NoPath,
                    ReasonOf[raw.code], raw.applied)

(* What the author sees of an emit that fails: a fault of the transport as *)
(* it is, a refusal translated, and anything else as unknown.              *)
FlushError(raw, batch) ==
  CASE raw.class = "TransportFault" -> raw
    [] raw.class = "EmitRejection" -> ToAuthoringError(raw.rejection, batch)
    [] OTHER -> AuthoringError(NoVerb, NoPath, "unknown", 0)

Raw(rejection) == [class |-> "EmitRejection", rejection |-> rejection]

-----------------------------------------------------------------------------
(* The other engine: the rejections that the contract fake throws, and a   *)
(* host that reports the same ones.                                        *)

Thrown(batch) ==
  {EmitRejection(code, i - 1, i - 1) : code \in DirectiveLevel, i \in DOMAIN batch}
  \cup {EmitRejection(code, None, 0) : code \in {"unrepresentable", "cap"}}

Reported(rejection) ==
  [rejection EXCEPT !.applied = IF rejection.index = None THEN None ELSE @]

(* The author cannot tell the fake from such a host; and whatever a host   *)
(* reports, no directive is blamed that it did not name by a code and an   *)
(* index of the batch, and the run fails as a refused write.               *)
RejectionIsFaithful(batch, data) ==
  LET error == FlushError(Raw(Reconstruct(data)), batch)
      named == data.code \in DirectiveLevel /\ data.index + 1 \in DOMAIN batch
      blamed == batch[data.index + 1]
  IN /\ \A r \in Thrown(batch) :
           FlushError(Raw(Reconstruct(Reported(r))), batch) = FlushError(Raw(r), batch)
     /\ error.origin = "write-rejected"
     /\ IF named THEN error.verb = VerbFor(blamed.op) /\ error.path = PrimaryPath(blamed)
        ELSE error.verb = NoVerb /\ error.path = NoPath
     /\ error.reason \in {"path-collision", "path-not-found"} => data.code \in DirectiveLevel
=============================================================================
