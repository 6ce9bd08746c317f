------------------------------ MODULE MCRunner ------------------------------
(* The first host sends greetings of the right and the wrong version,       *)
(* answers, one of them padded, and frames that do not parse, one of them   *)
(* empty; then nothing, half a prefix, half a body, or a length over the    *)
(* cap.  The second does what it should, or closes.                         *)
EXTENDS Runner

CONSTANTS a1, a2

Closed == [bytes |-> <<>>, ends |-> "clean"]

CutShort ==
  { [bytes |-> <<0>>, ends |-> "short"],
    [bytes |-> <<0, 2, 3>>, ends |-> "short"],
    [bytes |-> <<0, 4, 3>>, ends |-> "oversize"] }

Bodies == {<<1>>, <<2>>, <<3, 0>>, <<4>>, <<>>}

AnyWire ==
  [bodies: {<<>>} \cup {<<b>> : b \in Bodies}
           \cup {<<<<1>>, b, c>> : b \in Bodies, c \in {<<3>>, <<4>>, <<0>>}}
           \cup {<<<<1>>, <<2>>, <<3>>, <<3, 0>>>>},
   tail: {Closed}]
  \cup
  [bodies: {<<>>, <<<<1>>>>, <<<<1>>, <<3, 0>>>>}, tail: CutShort]

MCHosts ==
  [a \in Attempts |->
     IF a = a1 THEN AnyWire
     ELSE [bodies: {<<>>, <<<<1>>, <<3>>, <<3>>>>}, tail: {Closed}]]

==============================================================================
