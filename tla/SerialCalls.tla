------------------------------ MODULE SerialCalls ------------------------------
(***************************************************************************)
(* What an EngineClient promises its callers: calls are settled one at a   *)
(* time, in the order they were made, and a call that is answered gets an  *)
(* answer the engine gave to that very call.  A call may also fail without *)
(* an answer.                                                              *)
(***************************************************************************)
EXTENDS Sequences

CONSTANTS Calls, Answers, Failures

VARIABLES
  line,     \* the calls made and not settled, the oldest first
  result,   \* how each call was settled, or "none"
  given     \* the answers the engine has given: pairs <<call, answer>>

svars == <<line, result, given>>

SInit == line = <<>> /\ result = [c \in Calls |-> "none"] /\ given = {}

Make(c) ==
  /\ result[c] = "none" /\ \A i \in DOMAIN line : line[i] # c
  /\ line' = Append(line, c)
  /\ UNCHANGED <<result, given>>

Give(c, answer) ==
  /\ given' = given \cup {<<c, answer>>}
  /\ UNCHANGED <<line, result>>

Settle ==
  /\ line # <<>>
  /\ \E r \in Answers \cup Failures :
       /\ r \in Answers => <<Head(line), r>> \in given
       /\ result' = [result EXCEPT ![Head(line)] = r]
  /\ line' = Tail(line)
  /\ UNCHANGED given

SNext == Settle \/ \E c \in Calls : Make(c) \/ \E answer \in Answers : Give(c, answer)

SSpec == SInit /\ [][SNext]_svars

================================================================================
