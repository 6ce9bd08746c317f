-------------------------- MODULE StdioClient_proofs --------------------------
(* Theorems about StdioClient: for any number of calls and frames, whatever *)
(* the host sends and whenever timers fire.                                 *)
EXTENDS StdioClient, SequenceTheorems, TLAPS

Frames == INSTANCE Folding WITH Step <- KeepReadable

Settled == Frame \cup {Pending} \cup {Failed(w) : w \in Fault}

Types ==
  /\ made \in Nat /\ queue \in Seq(Calls) /\ current \in Calls \cup {NoCall}
  /\ id \in [Calls -> Nat] /\ nextId \in Nat
  /\ waits \in [Calls -> Nat] /\ abandoned \subseteq Calls /\ dangling \in Nat
  /\ reads \in Seq(Settled) /\ sent \in Seq(Frame) /\ taken \in Seq(Frame) /\ pulled \in Nat

(* Calls are dispatched in the order of their numbers, and their requests   *)
(* are numbered in the same order; the abandoned ones come before the one   *)
(* that is waiting.                                                         *)
Line ==
  /\ Len(queue) <= made /\ made <= MaxCalls
  /\ \A i \in 1 .. Len(queue) : queue[i] = made - Len(queue) + i
  /\ current <= made - Len(queue)
  /\ \A c \in abandoned : c <= made - Len(queue) /\ (current # NoCall => c < current)
  /\ nextId <= made - Len(queue)
  /\ \A c \in Calls : id[c] = NoId \/ id[c] < nextId
  /\ current # NoCall => nextId = id[current] + 1

(* No response carries an id that is still to be minted.                    *)
Minted(f, n) == f.kind = "response" => f.id < n \/ f.id = Foreign

Minting ==
  /\ \A i \in 1 .. Len(sent) : Minted(sent[i], nextId)
  /\ \A i \in 1 .. Len(reads) : Minted(reads[i], nextId)
  /\ \A i \in 1 .. Len(taken) : Minted(taken[i], nextId)

(* The one read that may be pending is the dangling one, and every loop     *)
(* that waits does so for it, or for a fault that another loop has cleared. *)
Waiting ==
  /\ dangling # NoRead => dangling \in 1 .. Len(reads)
  /\ \A t \in 1 .. Len(reads) : reads[t].kind = "pending" => t = dangling
  /\ \A c \in Calls : waits[c] # NoRead =>
       /\ waits[c] \in 1 .. Len(reads)
       /\ c \in abandoned \/ c = current
       /\ waits[c] = dangling \/ (dangling = NoRead /\ reads[waits[c]].kind = "fault")

Invariant == Types /\ Line /\ Minting /\ Waiting /\ AnswerNotMissed

-----------------------------------------------------------------------------
(* What the kinds tell apart.                                               *)
LEMMA KindsOfReads ==
  /\ Pending \in Settled /\ Pending.kind = "pending"
  /\ \A w \in Fault : Failed(w) \in Settled /\ Failed(w).kind = "fault"
  /\ \A f \in Frame : f \in Settled /\ f.kind \notin {"pending", "fault"}
  /\ \A f \in Settled : f.kind \notin {"pending", "fault"} => f \in Frame
  /\ \A f \in Settled : f.kind = "response" => f \in Response
  /\ \A f \in Response : f \in Frame /\ f.id \in 0 .. MaxCalls /\ f.kind = "response"
  /\ Odd \in Frame /\ Malformed \in Frame /\ Oversize \in Frame
  /\ Odd.kind = "odd" /\ Malformed.kind = "malformed" /\ Oversize.kind = "oversize"
  /\ "malformed" \in Fault /\ "oversize" \in Fault /\ "eof" \in Fault
  <1>1. \A f \in Response : f.id \in 0 .. MaxCalls /\ f.kind = "response"
    BY DEF Response
  <1>2. Odd.kind = "odd" /\ Malformed.kind = "malformed" /\ Oversize.kind = "oversize" /\ Pending.kind = "pending"
    BY DEF Odd, Malformed, Oversize, Pending
  <1>3. \A w \in Fault : Failed(w).kind = "fault"
    BY DEF Failed
  <1>4. "malformed" \in Fault /\ "oversize" \in Fault /\ "eof" \in Fault
    BY DEF Fault
  <1>5. \A f \in Frame : f.kind \notin {"pending", "fault"}
    BY <1>1, <1>2 DEF Frame
  <1>6. \A f \in Settled : f.kind = "response" => f \in Response
    BY <1>1, <1>2, <1>3 DEF Settled, Frame
  <1>7. \A f \in Settled : f.kind \notin {"pending", "fault"} => f \in Frame
    BY <1>2, <1>3 DEF Settled
  <1> QED BY <1>1, <1>2, <1>3, <1>4, <1>5, <1>6, <1>7 DEF Settled, Frame

(* A read that failed says why.                                             *)
LEMMA FaultsHaveReasons == \A f \in Settled : f.kind = "fault" => f.why \in Fault
  <1>1. \A w \in Fault : Failed(w).why = w
    BY DEF Failed
  <1>2. \A f \in Frame : f.kind # "fault"
    BY KindsOfReads
  <1>3. Pending.kind # "fault"
    BY KindsOfReads
  <1> QED BY <1>1, <1>2, <1>3 DEF Settled

(* The invariant holds at the start.                                        *)
LEMMA InvariantInit == Init => Invariant
  <1> SUFFICES ASSUME Init PROVE Invariant
    OBVIOUS
  <1>1. Types
    BY ClientAssumption DEF Init, Types, NoCall, NoRead, NoId
  <1>2. Line
    BY ClientAssumption DEF Init, Line, NoCall, NoId, Calls
  <1>3. Minting /\ Waiting /\ AnswerNotMissed
    BY DEF Init, Minting, Waiting, AnswerNotMissed
  <1> QED BY <1>1, <1>2, <1>3 DEF Invariant

(* The types are kept.                                                      *)
LEMMA TypesStep == Types /\ Line /\ Waiting /\ [Next]_vars => Types'
  <1> SUFFICES ASSUME Types, Line, Waiting, [Next]_vars PROVE Types'
    OBVIOUS
  <1>1. \A f \in Settled, s \in Seq(Settled) : Append(s, f) \in Seq(Settled) /\ Len(s) + 1 \in Nat
    OBVIOUS
  <1>2. Append(reads, Pending) \in Seq(Settled) /\ Len(reads) + 1 \in Nat
    BY <1>1, KindsOfReads DEF Types
  <1>3. ASSUME NEW tooBig \in BOOLEAN, Enqueue(tooBig) PROVE Types'
    <2>1. made + 1 \in Calls
      BY <1>3, ClientAssumption DEF Enqueue, Types, Calls
    <2> QED BY <1>3, <2>1 DEF Enqueue, Types, hostVars
  <1>4. CASE Dispatch
    <2>1. Head(queue) \in Calls /\ Tail(queue) \in Seq(Calls)
      BY <1>4, HeadTailProperties DEF Dispatch, Types
    <2>2. CASE Head(queue) \in over
      BY <1>4, <2>1, <2>2 DEF Dispatch, Types, hostVars
    <2>3. CASE Head(queue) \notin over
      <3>1. waits' \in [Calls -> Nat] /\ dangling' \in Nat /\ reads' \in Seq(Settled)
        BY <1>4, <2>1, <2>3, <1>2 DEF Dispatch, Types, Adopt
      <3>2. id' \in [Calls -> Nat] /\ nextId' \in Nat /\ current' \in Calls
        BY <1>4, <2>1, <2>3 DEF Dispatch, Types
      <3> QED BY <1>4, <2>1, <3>1, <3>2 DEF Dispatch, Types, hostVars
    <2> QED BY <2>2, <2>3
  <1>5. ASSUME NEW c \in Calls, Ready(c) PROVE waits[c] \in 1 .. Len(reads) /\ Read(c) \in Settled
    BY <1>5, ElementOfSeq DEF Types, Waiting, Ready, Read
  <1>6. ASSUME NEW c \in Calls, EndAbandoned(c) PROVE Types'
    <2>1. waits' \in [Calls -> Nat] /\ dangling' \in Nat
      BY <1>6 DEF EndAbandoned, Types, NoRead
    <2> QED BY <1>6, <2>1 DEF EndAbandoned, Types, hostVars
  <1>7. ASSUME NEW c \in Calls, ReadFails(c) PROVE Types'
    BY <1>7 DEF ReadFails, End, Types, hostVars, NoRead, NoCall
  <1>8. ASSUME NEW c \in Calls, TakeAnswer(c) PROVE Types'
    <2>1. Read(c) \in Frame
      BY <1>5, <1>8, KindsOfReads DEF TakeAnswer, Matches
    <2> QED BY <1>8, <2>1 DEF TakeAnswer, End, Types, hostVars, NoRead, NoCall
  <1>9. ASSUME NEW c \in Calls, Discard(c) PROVE Types'
    <2>1. Read(c) \in Frame
      BY <1>5, <1>9, KindsOfReads DEF Discard, Ready, Read
    <2> QED BY <1>9, <1>2, <2>1 DEF Discard, Types, hostVars
  <1>10. CASE Timeout
    BY <1>10 DEF Timeout, Types, hostVars, NoCall
  <1>11. ASSUME NEW t \in DOMAIN reads, Yield(t) PROVE Types'
    <2> DEFINE f == sent[pulled + 1]
    <2>1. f \in Frame
      BY <1>11, ElementOfSeq DEF Yield, Types
    <2>2. (IF f \in {Malformed, Oversize} THEN Failed(f.kind) ELSE f) \in Settled
      BY <2>1, KindsOfReads
    <2> QED BY <1>11, <2>2 DEF Yield, Types, clientVars, hostVars
  <1>12. ASSUME NEW t \in DOMAIN reads, YieldEof(t) PROVE Types'
    BY <1>12, KindsOfReads DEF YieldEof, Types, clientVars, hostVars
  <1>13. ASSUME NEW f \in Frame, Send(f) PROVE Types'
    BY <1>13 DEF Send, Types, clientVars
  <1>14. CASE Host
    <2>1. ASSUME NEW c \in Calls, NEW answer \in Answer, HostAnswers(c, answer), Line PROVE Types'
      <3>1. [kind |-> "response", id |-> id[c], answer |-> answer] \in Response
        <4>1. id[c] \in 0 .. MaxCalls
          BY <2>1, ClientAssumption DEF Types, Line, HostAnswers, NoId
        <4> QED BY <4>1 DEF Response
      <3>2. [kind |-> "response", id |-> id[c], answer |-> answer] \in Frame
        BY <3>1, KindsOfReads
      <3> QED BY <2>1, <3>2, <1>13 DEF HostAnswers
    <2>2. CASE HostBabbles
      <3>1. [kind |-> "response", id |-> Foreign, answer |-> "ok"] \in Response
        BY ClientAssumption DEF Response, Foreign, Answer
      <3> QED BY <2>2, <3>1, <1>13, KindsOfReads DEF HostBabbles
    <2>3. CASE HostCloses
      BY <2>3 DEF HostCloses, Types, clientVars
    <2> QED BY <1>14, <2>1, <2>2, <2>3 DEF Host
  <1>15. CASE UNCHANGED vars
    BY <1>15 DEF vars, Types
  <1> QED BY <1>3, <1>4, <1>6, <1>7, <1>8, <1>9, <1>10, <1>11, <1>12, <1>14, <1>15
     DEF Next, Loops, Channel, Idle

(* A call keeps its place in the line until it is dispatched.               *)
LEMMA LineStep == Types /\ Line /\ Waiting /\ [Next]_vars => Line'
  <1> SUFFICES ASSUME Types, Line, Waiting, [Next]_vars PROVE Line'
    OBVIOUS
  <1>1. ASSUME UNCHANGED <<made, queue, id, nextId>>,
               current' = NoCall \/ current' = current, abandoned' = abandoned \/ abandoned' = abandoned \cup {current},
               current' = current => abandoned' = abandoned
        PROVE  Line'
    BY <1>1 DEF Line, NoCall, Types
  <1>2. ASSUME NEW tooBig \in BOOLEAN, Enqueue(tooBig) PROVE Line'
    <2>1. /\ Len(queue') = Len(queue) + 1 /\ queue'[Len(queue) + 1] = made + 1
          /\ \A i \in 1 .. Len(queue) : queue'[i] = queue[i]
      <3>1. made + 1 \in Calls
        BY <1>2, ClientAssumption DEF Enqueue, Types, Calls
      <3> QED BY <1>2, <3>1, AppendProperties DEF Enqueue, Types
    <2>2. /\ made' = made + 1 /\ made < MaxCalls
          /\ UNCHANGED <<current, id, nextId, abandoned>>
      BY <1>2 DEF Enqueue
    <2>3. Len(queue) \in Nat
      BY DEF Types
    <2>4. \A i \in 1 .. Len(queue') : queue'[i] = made' - Len(queue') + i
      <3>1. ASSUME NEW i \in 1 .. Len(queue') PROVE queue'[i] = made' - Len(queue') + i
        <4>1. i \in 1 .. Len(queue) \/ i = Len(queue) + 1
          BY <2>1, <2>3
        <4>2. made \in Nat /\ made' - Len(queue') = made - Len(queue)
          BY <2>1, <2>2, <2>3 DEF Types
        <4>3. i \in 1 .. Len(queue) => queue'[i] = made - Len(queue) + i
          BY <2>1 DEF Line
        <4>4. made - Len(queue) + (Len(queue) + 1) = made + 1
          BY <2>3, <4>2
        <4> QED BY <2>1, <4>1, <4>2, <4>3, <4>4
      <3> QED BY <3>1
    <2>5. Len(queue') <= made' /\ made' <= MaxCalls /\ made' - Len(queue') = made - Len(queue)
      BY <2>1, <2>2, <2>3, ClientAssumption DEF Types, Line
    <2> QED BY <2>2, <2>4, <2>5 DEF Line
  <1>3. CASE Dispatch
    <2>1. /\ Len(queue') = Len(queue) - 1 /\ Len(queue) \in Nat /\ Len(queue) > 0
          /\ \A i \in 1 .. Len(queue') : queue'[i] = queue[i + 1]
          /\ Head(queue) = queue[1]
      BY <1>3, HeadTailProperties DEF Dispatch, Types
    <2>2. \A i \in 1 .. Len(queue') : queue'[i] = made' - Len(queue') + i
      BY <1>3, <2>1 DEF Types, Line, Dispatch
    <2>3. /\ Head(queue) = made - Len(queue) + 1 /\ made' = made /\ abandoned' = abandoned /\ current = NoCall
          /\ Head(queue) \in Calls
      BY <1>3, <2>1, HeadTailProperties DEF Types, Line, Dispatch
    <2>4. CASE Head(queue) \in over
      BY <1>3, <2>1, <2>2, <2>3, <2>4 DEF Types, Line, Dispatch, NoCall
    <2>5. CASE Head(queue) \notin over
      <3>1. id' = [id EXCEPT ![Head(queue)] = nextId] /\ nextId' = nextId + 1 /\ current' = Head(queue)
        BY <1>3, <2>5 DEF Dispatch
      <3>2. \A c \in Calls : id'[c] = NoId \/ id'[c] < nextId'
        BY <2>3, <3>1 DEF Types, Line, NoId
      <3>3. nextId' = id'[current'] + 1
        BY <2>3, <3>1 DEF Types
      <3> QED BY <2>1, <2>2, <2>3, <3>1, <3>2, <3>3 DEF Types, Line, NoCall
    <2> QED BY <2>4, <2>5
  <1>4. ASSUME NEW c \in Calls, EndAbandoned(c) \/ Discard(c) PROVE Line'
    BY <1>1, <1>4 DEF EndAbandoned, Discard
  <1>5. ASSUME NEW c \in Calls, ReadFails(c) \/ TakeAnswer(c) PROVE Line'
    BY <1>1, <1>5 DEF ReadFails, TakeAnswer, End, Line, Types, NoCall
  <1>6. CASE Timeout
    BY <1>6 DEF Timeout, Line, Types, NoCall
  <1>7. CASE Channel
    BY <1>1, <1>7 DEF Channel, Yield, YieldEof, clientVars
  <1>8. CASE Host
    BY <1>1, <1>8 DEF Host, HostAnswers, HostBabbles, HostCloses, Send, clientVars
  <1>9. CASE UNCHANGED vars
    BY <1>1, <1>9 DEF vars
  <1> QED BY <1>2, <1>3, <1>4, <1>5, <1>6, <1>7, <1>8, <1>9 DEF Next, Loops, Idle

(* The call that waits is the last of the loops to run.                     *)
LEMMA CurrentIsLast ==
  ASSUME Types, Line, Waiting, NEW c \in Calls, c \notin abandoned, Ready(c), First(c)
  PROVE  /\ c = current /\ current # NoCall
         /\ waits[c] \in 1 .. Len(reads)
         /\ \A d \in Calls : d # c /\ waits[d] # NoRead => reads[waits[d]].kind = "pending" /\ waits[d] = dangling
  <1>1. c = current /\ waits[c] \in 1 .. Len(reads)
    BY DEF Waiting, Ready
  <1>2. current # NoCall
    BY <1>1, ClientAssumption DEF Calls, NoCall
  <1>3. ASSUME NEW d \in Calls, d # c, waits[d] # NoRead
        PROVE reads[waits[d]].kind = "pending" /\ waits[d] = dangling
    <2>1. d \in abandoned /\ d < c
      BY <1>1, <1>2, <1>3 DEF Waiting, Line
    <2>2. reads[waits[d]].kind = "pending"
      BY <1>3, <2>1 DEF First, Ready
    <2> QED BY <1>3, <2>2 DEF Waiting
  <1> QED BY <1>1, <1>2, <1>3

(* A read is issued only when none is pending and no other loop waits; a    *)
(* read that settles is cleared by the first loop that sees it.             *)
LEMMA WaitingStep == Types /\ Line /\ Waiting /\ [Next]_vars => Waiting'
  <1> SUFFICES ASSUME Types, Line, Waiting, [Next]_vars PROVE Waiting'
    OBVIOUS
  <1>1. Len(reads) \in Nat /\ dangling \in Nat /\ waits \in [Calls -> Nat]
    BY DEF Types
  <1>2. ASSUME UNCHANGED <<waits, dangling, reads>>, abandoned \subseteq abandoned',
               current \in abandoned' \cup {current'} \/ current = NoCall
        PROVE  Waiting'
    BY <1>2, ClientAssumption DEF Waiting, NoCall, Calls
  <1>3. /\ Append(reads, Pending) \in Seq(Settled) /\ Len(Append(reads, Pending)) = Len(reads) + 1
        /\ Append(reads, Pending)[Len(reads) + 1] = Pending
        /\ \A t \in 1 .. Len(reads) : Append(reads, Pending)[t] = reads[t]
    BY AppendProperties, KindsOfReads DEF Types
  (* A loop that issues a read when no other is pending, and no other loop waits. *)
  <1>4. ASSUME NEW c \in Calls, current' = c, abandoned' = abandoned,
               waits' = [waits EXCEPT ![c] = Len(reads) + 1], dangling' = Len(reads) + 1,
               reads' = Append(reads, Pending),
               \A t \in 1 .. Len(reads) : reads[t].kind # "pending",
               \A d \in Calls : d # c => waits[d] = NoRead
        PROVE  Waiting'
    <2>1. \A t \in 1 .. Len(reads') : reads'[t].kind = "pending" => t = dangling'
      BY <1>1, <1>3, <1>4
    <2>2. \A d \in Calls : waits'[d] # NoRead => d = c /\ waits'[d] = Len(reads) + 1
      BY <1>1, <1>4
    <2> QED BY <1>1, <1>3, <1>4, <2>1, <2>2 DEF Waiting
  <1>5. CASE Dispatch
    <2>1. Head(queue) \in Calls
      BY <1>5, HeadTailProperties DEF Dispatch, Types
    <2>2. CASE Head(queue) \in over
      BY <1>5, <1>2, <2>2 DEF Dispatch
    <2>3. CASE Head(queue) \notin over
      <3>1. current' = Head(queue) /\ abandoned' = abandoned /\ current = NoCall /\ Quiet /\ Adopt(Head(queue))
        BY <1>5, <2>3 DEF Dispatch
      <3>2. CASE dangling # NoRead
        <4>1. waits' = [waits EXCEPT ![Head(queue)] = dangling] /\ UNCHANGED <<reads, dangling>>
          BY <3>1, <3>2 DEF Adopt
        <4>2. \A d \in Calls : waits[d] # NoRead => d \in abandoned
          BY <3>1, ClientAssumption DEF Waiting, Calls, NoCall
        <4> QED BY <1>1, <2>1, <3>1, <3>2, <4>1, <4>2 DEF Waiting
      <3>3. CASE dangling = NoRead
        <4>1. \A d \in Calls : waits[d] = NoRead
          <5>1. ASSUME NEW d \in Calls, waits[d] # NoRead PROVE FALSE
            <6>1. d \in abandoned /\ reads[waits[d]].kind = "fault"
              BY <1>1, <3>1, <3>3, <5>1, ClientAssumption DEF Waiting, Calls, NoCall
            <6> QED BY <3>1, <5>1, <6>1 DEF Quiet, Ready
          <5> QED BY <5>1
        <4>2. \A t \in 1 .. Len(reads) : reads[t].kind # "pending"
          BY <3>3 DEF Waiting, NoRead
        <4> QED BY <1>4, <2>1, <3>1, <3>3, <4>1, <4>2 DEF Adopt
      <3> QED BY <3>2, <3>3
    <2> QED BY <2>2, <2>3
  (* A loop that ends, and clears the dangling read when it is not pending. *)
  <1>6. ASSUME NEW c \in Calls, Ready(c), waits' = [waits EXCEPT ![c] = NoRead], reads' = reads,
               \A d \in Calls : d # c /\ waits[d] # NoRead =>
                  /\ d \in abandoned' \/ d = current'
                  /\ waits[d] = dangling' \/ (dangling' = NoRead /\ reads[waits[d]].kind = "fault"),
               dangling' = dangling \/ dangling' = NoRead
        PROVE  Waiting'
    <2>1. \A t \in 1 .. Len(reads) : reads[t].kind = "pending" => t = dangling'
      <3>1. ASSUME NEW t \in 1 .. Len(reads), reads[t].kind = "pending", dangling' = NoRead PROVE FALSE
        BY <1>1, <1>6, <3>1 DEF Waiting, Ready, NoRead
      <3> QED BY <1>6, <3>1 DEF Waiting
    <2> QED BY <1>1, <1>6, <2>1 DEF Waiting
  <1>7. ASSUME NEW c \in Calls, EndAbandoned(c) PROVE Waiting'
    <2>1. /\ Ready(c) /\ UNCHANGED <<reads, abandoned, current>>
          /\ waits' = [waits EXCEPT ![c] = NoRead]
          /\ dangling' = IF reads[waits[c]].kind = "fault" THEN NoRead ELSE dangling
      BY <1>7 DEF EndAbandoned, Read
    <2>2. \A d \in Calls : d # c /\ waits[d] # NoRead =>
            /\ d \in abandoned' \/ d = current'
            /\ waits[d] = dangling' \/ (dangling' = NoRead /\ reads[waits[d]].kind = "fault")
      BY <1>1, <2>1 DEF Waiting, Ready
    <2> QED BY <1>6, <2>1, <2>2
  <1>8. ASSUME NEW c \in Calls, ReadFails(c) \/ TakeAnswer(c) PROVE Waiting'
    <2>1. /\ c \notin abandoned /\ Ready(c) /\ First(c) /\ UNCHANGED <<reads, abandoned>>
          /\ waits' = [waits EXCEPT ![c] = NoRead] /\ dangling' = NoRead
      BY <1>8 DEF ReadFails, TakeAnswer, End
    <2>2. \A d \in Calls : d # c => waits[d] = NoRead
      <3>1. ASSUME NEW d \in Calls, d # c, waits[d] # NoRead PROVE FALSE
        <4>1. c = current /\ waits[d] = dangling /\ reads[waits[d]].kind = "pending"
          BY <2>1, <3>1, CurrentIsLast
        <4>2. reads[waits[c]].kind # "pending" /\ waits[c] # NoRead
          BY <2>1 DEF Ready
        <4> QED BY <3>1, <4>1, <4>2 DEF Waiting
      <3> QED BY <3>1
    <2> QED BY <1>6, <2>1, <2>2
  <1>9. ASSUME NEW c \in Calls, Discard(c) PROVE Waiting'
    <2>1. /\ c \notin abandoned /\ Ready(c) /\ First(c) /\ UNCHANGED <<current, abandoned>>
          /\ reads' = Append(reads, Pending) /\ reads[waits[c]].kind # "fault"
          /\ waits' = [waits EXCEPT ![c] = Len(reads) + 1] /\ dangling' = Len(reads) + 1
      BY <1>9 DEF Discard, Read
    <2>2. c = current /\ waits[c] = dangling /\ reads[waits[c]].kind # "pending"
      BY <2>1, CurrentIsLast DEF Waiting, Ready
    <2>3. \A t \in 1 .. Len(reads) : reads[t].kind # "pending"
      BY <2>2 DEF Waiting
    <2>4. \A d \in Calls : d # c => waits[d] = NoRead
      BY <2>1, <2>2, CurrentIsLast
    <2> QED BY <1>4, <2>1, <2>2, <2>3, <2>4
  <1>10. CASE Timeout
    BY <1>2, <1>10 DEF Timeout
  <1>11. ASSUME NEW t \in DOMAIN reads, Oldest(t), NEW r, reads' = [reads EXCEPT ![t] = r],
                r.kind # "pending", UNCHANGED clientVars PROVE Waiting'
    <2>1. t \in 1 .. Len(reads) /\ reads[t].kind = "pending" /\ Len(reads') = Len(reads)
          /\ \A u \in 1 .. Len(reads) : u # t => reads'[u] = reads[u]
      BY <1>11 DEF Types, Oldest
    <2>2. reads'[t] = r
      BY <1>11
    <2> QED BY <1>11, <2>1, <2>2 DEF Waiting, clientVars
  <1>12. CASE Channel
    <2>1. ASSUME NEW t \in DOMAIN reads, Yield(t) PROVE Waiting'
      <3> DEFINE f == sent[pulled + 1]
                 r == IF f \in {Malformed, Oversize} THEN Failed(f.kind) ELSE f
      <3>1. f \in Frame
        BY <2>1, ElementOfSeq DEF Yield, Types
      <3>2. r.kind # "pending"
        BY <3>1, KindsOfReads
      <3>3. Oldest(t) /\ reads' = [reads EXCEPT ![t] = r] /\ UNCHANGED clientVars
        BY <2>1 DEF Yield
      <3> QED BY <1>11, <3>2, <3>3
    <2>2. ASSUME NEW t \in DOMAIN reads, YieldEof(t) PROVE Waiting'
      BY <1>11, <2>2, KindsOfReads DEF YieldEof
    <2> QED BY <1>12, <2>1, <2>2 DEF Channel
  <1>13. CASE Host
    BY <1>2, <1>13 DEF Host, HostAnswers, HostBabbles, HostCloses, Send, clientVars
  <1>14. CASE UNCHANGED vars
    BY <1>2, <1>14 DEF vars
  <1>15. ASSUME NEW tooBig \in BOOLEAN, Enqueue(tooBig) PROVE Waiting'
    BY <1>2, <1>15 DEF Enqueue
  <1> QED BY <1>5, <1>7, <1>8, <1>9, <1>10, <1>12, <1>13, <1>14, <1>15 DEF Next, Loops, Idle

(* A response that is sent carries an id that has been minted, and nothing  *)
(* on its way to a loop changes it.                                         *)
LEMMA MintingStep == Types /\ Line /\ Waiting /\ Minting /\ [Next]_vars => Minting'
  <1> SUFFICES ASSUME Types, Line, Waiting, Minting, [Next]_vars PROVE Minting'
    OBVIOUS
  <1>1. nextId' \in {nextId, nextId + 1} /\ nextId \in Nat
    <2>1. CASE Dispatch
      BY <2>1 DEF Dispatch, Types
    <2>2. CASE ~Dispatch
      BY <2>2 DEF Types, Next, Enqueue, Loops, EndAbandoned, ReadFails, TakeAnswer, Discard, Timeout,
         Channel, Yield, YieldEof, clientVars, Host, HostAnswers, HostBabbles, HostCloses, Send, Idle, vars
    <2> QED BY <2>1, <2>2
  <1>2. ASSUME NEW f \in Settled, Minted(f, nextId) PROVE Minted(f, nextId')
    <2>1. ASSUME f.kind = "response" PROVE f.id \in Nat
      BY <2>1, KindsOfReads, ClientAssumption
    <2> QED BY <1>1, <1>2, <2>1 DEF Minted
  <1>3. \A n : Minted(Pending, n)
    BY KindsOfReads DEF Minted
  <1> DEFINE All(s, n) == \A i \in 1 .. Len(s) : Minted(s[i], n)
  <1>4. ASSUME NEW s \in Seq(Settled), All(s, nextId) PROVE All(s, nextId')
    BY <1>2, <1>4, ElementOfSeq
  <1>5. ASSUME NEW s \in Seq(Settled), NEW f \in Settled, NEW n, All(s, n), Minted(f, n) PROVE All(Append(s, f), n)
    <2>1. /\ Len(Append(s, f)) = Len(s) + 1 /\ Append(s, f)[Len(s) + 1] = f /\ Len(s) \in Nat
          /\ \A i \in 1 .. Len(s) : Append(s, f)[i] = s[i]
      BY AppendProperties
    <2> QED BY <1>5, <2>1
  <1>6. ASSUME NEW s \in Seq(Settled), NEW f \in Settled, NEW n, NEW t \in 1 .. Len(s), All(s, n), Minted(f, n)
        PROVE  All([s EXCEPT ![t] = f], n)
    <2>1. /\ Len([s EXCEPT ![t] = f]) = Len(s)
          /\ \A i \in 1 .. Len(s) : [s EXCEPT ![t] = f][i] = IF i = t THEN f ELSE s[i]
      BY ExceptSeq
    <2> QED BY <1>6, <2>1
  <1>7. reads \in Seq(Settled) /\ taken \in Seq(Settled) /\ sent \in Seq(Settled)
    <2>1. Frame \subseteq Settled
      BY KindsOfReads
    <2> QED BY <2>1, SeqMonotonic DEF Types
  <1>8. All(sent, nextId') /\ All(reads, nextId') /\ All(taken, nextId')
    BY <1>4, <1>7 DEF Minting
  <1>9. Minting' <=> All(sent', nextId') /\ All(reads', nextId') /\ All(taken', nextId')
    BY DEF Minting
  <1>10. All(Append(reads, Pending), nextId')
    BY <1>3, <1>5, <1>7, <1>8, KindsOfReads
  <1>11. ASSUME NEW c \in Calls, Ready(c) PROVE All(Append(taken, Read(c)), nextId')
    <2>1. waits[c] \in 1 .. Len(reads)
      BY <1>11 DEF Ready, Waiting
    <2>2. Read(c) \in Settled
      BY <1>7, <2>1, ElementOfSeq DEF Read
    <2>3. Minted(Read(c), nextId')
      BY <1>8, <2>1 DEF Read
    <2> QED BY <1>5, <1>7, <1>8, <2>2, <2>3
  <1>12. ASSUME NEW f \in Frame, Minted(f, nextId), Send(f), nextId' = nextId PROVE Minting'
    <2>1. f \in Settled
      BY KindsOfReads
    <2>2. All(Append(sent, f), nextId')
      BY <1>5, <1>7, <1>8, <1>12, <2>1
    <2> QED BY <1>8, <1>9, <1>12, <2>2 DEF Send
  <1> HIDE DEF All
  <1>13. ASSUME UNCHANGED <<sent, reads, taken>> PROVE Minting'
    BY <1>8, <1>9, <1>13
  <1>14. CASE Dispatch
    <2>1. reads' = reads \/ reads' = Append(reads, Pending)
      BY <1>14 DEF Dispatch, Adopt
    <2> QED BY <1>8, <1>9, <1>10, <1>14, <2>1 DEF Dispatch, hostVars
  <1>15. ASSUME NEW c \in Calls, EndAbandoned(c) \/ ReadFails(c) PROVE Minting'
    BY <1>13, <1>15 DEF EndAbandoned, ReadFails, hostVars
  <1>16. ASSUME NEW c \in Calls, TakeAnswer(c) PROVE Minting'
    BY <1>8, <1>9, <1>11, <1>16 DEF TakeAnswer, hostVars
  <1>17. ASSUME NEW c \in Calls, Discard(c) PROVE Minting'
    BY <1>8, <1>9, <1>10, <1>11, <1>17 DEF Discard, hostVars
  <1>18. ASSUME NEW t \in DOMAIN reads, NEW f \in Settled, Minted(f, nextId'), reads' = [reads EXCEPT ![t] = f],
                UNCHANGED <<sent, taken>> PROVE Minting'
    <2>1. t \in 1 .. Len(reads)
      BY <1>7, LenProperties
    <2>2. All(reads', nextId')
      BY <1>6, <1>7, <1>8, <1>18, <2>1
    <2> QED BY <1>8, <1>9, <1>18, <2>2
  <1>19. ASSUME NEW t \in DOMAIN reads, Yield(t) PROVE Minting'
    <2> DEFINE f == sent[pulled + 1]
               r == IF f \in {Malformed, Oversize} THEN Failed(f.kind) ELSE f
    <2>1. pulled + 1 \in 1 .. Len(sent)
      BY <1>19 DEF Yield, Types
    <2>2. f \in Frame /\ Minted(f, nextId')
      BY <1>8, <2>1, ElementOfSeq DEF Types, All
    <2>3. r \in Settled /\ Minted(r, nextId')
      BY <2>2, KindsOfReads DEF Minted
    <2> QED BY <1>18, <1>19, <2>3 DEF Yield, hostVars
  <1>20. ASSUME NEW t \in DOMAIN reads, YieldEof(t) PROVE Minting'
    <2>1. Failed("eof") \in Settled /\ Minted(Failed("eof"), nextId')
      BY KindsOfReads DEF Minted
    <2> QED BY <1>18, <1>20, <2>1 DEF YieldEof, hostVars
  <1>21. CASE Host
    <2>1. ASSUME NEW c \in Calls, NEW answer \in Answer, HostAnswers(c, answer) PROVE Minting'
      <3> DEFINE f == [kind |-> "response", id |-> id[c], answer |-> answer]
      <3>1. id[c] < nextId
        BY <2>1 DEF HostAnswers, Line
      <3>2. id[c] \in 0 .. MaxCalls
        BY <3>1, ClientAssumption DEF Types, Line
      <3>3. f \in Frame /\ Minted(f, nextId)
        BY <3>1, <3>2, KindsOfReads DEF Response, Minted
      <3> QED BY <1>12, <2>1, <3>3 DEF HostAnswers, Send, clientVars
    <2>2. ASSUME HostBabbles PROVE Minting'
      <3> DEFINE foreign == [kind |-> "response", id |-> Foreign, answer |-> "ok"]
      <3>1. foreign \in Frame /\ Minted(foreign, nextId)
        BY ClientAssumption, KindsOfReads DEF Response, Foreign, Answer, Minted
      <3>2. \A f \in {Odd, Malformed, Oversize} : f \in Frame /\ Minted(f, nextId)
        BY KindsOfReads DEF Minted
      <3>3. PICK f \in {Odd, Malformed, Oversize, foreign} : Send(f)
        BY <2>2 DEF HostBabbles
      <3> QED BY <1>12, <3>1, <3>2, <3>3 DEF Send, clientVars
    <2>3. CASE HostCloses
      BY <1>13, <2>3 DEF HostCloses
    <2> QED BY <1>21, <2>1, <2>2, <2>3 DEF Host
  <1>22. CASE Timeout
    BY <1>13, <1>22 DEF Timeout, hostVars
  <1>23. CASE UNCHANGED vars
    BY <1>13, <1>23 DEF vars
  <1>24. ASSUME NEW tooBig \in BOOLEAN, Enqueue(tooBig) PROVE Minting'
    BY <1>13, <1>24 DEF Enqueue, hostVars
  <1> QED BY <1>14, <1>15, <1>16, <1>17, <1>19, <1>20, <1>21, <1>22, <1>23, <1>24 DEF Next, Loops, Channel, Idle

(* A call is dispatched under an id that nothing seen so far carries, and   *)
(* takes the first frame that carries it.                                   *)
LEMMA AnswerStep == Types /\ Line /\ Waiting /\ Minting /\ AnswerNotMissed /\ [Next]_vars => AnswerNotMissed'
  <1> SUFFICES ASSUME Types, Line, Waiting, Minting, AnswerNotMissed, [Next]_vars PROVE AnswerNotMissed'
    OBVIOUS
  <1>1. ASSUME UNCHANGED <<taken, id>>, current' = current \/ current' = NoCall PROVE AnswerNotMissed'
    BY <1>1 DEF AnswerNotMissed, Matches
  <1>2. CASE Dispatch
    <2>1. CASE Head(queue) \in over
      BY <1>1, <1>2, <2>1 DEF Dispatch
    <2>2. CASE Head(queue) \notin over
      <3>1. Head(queue) \in Calls /\ Len(queue) \in Nat /\ Len(queue) > 0
        BY <1>2, HeadTailProperties DEF Dispatch, Types
      <3>2. current' = Head(queue) /\ id'[Head(queue)] = nextId /\ taken' = taken
        BY <1>2, <2>2, <3>1 DEF Dispatch, Types
      <3>3. nextId < Foreign
        BY <3>1, ClientAssumption DEF Types, Line, Foreign
      <3>4. ASSUME NEW i \in DOMAIN taken, taken[i].kind = "response" PROVE taken[i].id # nextId
        <4>1. i \in 1 .. Len(taken)
          BY LenProperties DEF Types
        <4>2. taken[i] \in Frame /\ Minted(taken[i], nextId)
          BY <4>1, ElementOfSeq DEF Types, Minting
        <4>3. taken[i].id \in Nat
          BY <3>4, <4>2, KindsOfReads, ClientAssumption
        <4> QED BY <3>3, <3>4, <4>2, <4>3 DEF Minted, Types
      <3> QED BY <3>2, <3>4 DEF AnswerNotMissed, Matches
    <2> QED BY <2>1, <2>2
  <1>3. ASSUME NEW c \in Calls, EndAbandoned(c) \/ ReadFails(c) PROVE AnswerNotMissed'
    BY <1>1, <1>3 DEF EndAbandoned, ReadFails, End
  <1>4. ASSUME NEW c \in Calls, TakeAnswer(c) PROVE AnswerNotMissed'
    BY <1>4 DEF TakeAnswer, End, AnswerNotMissed
  <1>5. ASSUME NEW c \in Calls, Discard(c) PROVE AnswerNotMissed'
    <2>1. /\ c = current /\ UNCHANGED <<current, id>> /\ taken' = Append(taken, Read(c)) /\ ~Matches(c, Read(c))
          /\ waits[c] \in 1 .. Len(reads)
      BY <1>5, CurrentIsLast DEF Discard
    <2>2. Read(c) \in Settled /\ taken \in Seq(Settled)
      <3>1. Frame \subseteq Settled
        BY KindsOfReads
      <3> QED BY <2>1, <3>1, SeqMonotonic, ElementOfSeq DEF Types, Read
    <2>3. /\ \A i \in 1 .. Len(taken) : taken'[i] = taken[i]
          /\ taken'[Len(taken) + 1] = Read(c) /\ DOMAIN taken' = 1 .. Len(taken) + 1 /\ Len(taken) \in Nat
          /\ DOMAIN taken = 1 .. Len(taken)
      BY <2>1, <2>2, AppendProperties, LenProperties
    <2> QED BY <2>1, <2>3 DEF AnswerNotMissed, Matches
  <1>6. CASE Timeout
    BY <1>1, <1>6 DEF Timeout
  <1>7. CASE Channel
    BY <1>1, <1>7 DEF Channel, Yield, YieldEof, clientVars
  <1>8. CASE Host
    BY <1>1, <1>8 DEF Host, HostAnswers, HostBabbles, HostCloses, Send, clientVars
  <1>9. CASE UNCHANGED vars
    BY <1>1, <1>9 DEF vars
  <1>10. ASSUME NEW tooBig \in BOOLEAN, Enqueue(tooBig) PROVE AnswerNotMissed'
    BY <1>1, <1>10 DEF Enqueue
  <1> QED BY <1>2, <1>3, <1>4, <1>5, <1>6, <1>7, <1>8, <1>9, <1>10 DEF Next, Loops, Idle

-----------------------------------------------------------------------------
(* The four parts of the invariant and its consequence, together.           *)
THEOREM ClientInvariant == Spec => []Invariant
  <1>1. Invariant /\ [Next]_vars => Invariant'
    BY TypesStep, LineStep, WaitingStep, MintingStep, AnswerStep DEF Invariant
  <1> QED BY InvariantInit, <1>1, PTL DEF Spec

(* Whatever the host sends and however many calls time out, a frame that    *)
(* answers the waiting call is never discarded (#receiveMatching).          *)
THEOREM NoAnswerMissed == Spec => []AnswerNotMissed
  <1>1. Invariant => AnswerNotMissed
    BY DEF Invariant
  <1> QED BY ClientInvariant, <1>1, PTL

(* Two read loops never wait for two reads of the channel: a zombie loop    *)
(* shares the one of its successor (#danglingRead).                         *)
THEOREM OneReadOfTheChannel == Spec => []OneChannelRead
  <1>1. Invariant => OneChannelRead
    <2>1. ASSUME Types, Waiting, NEW t \in DOMAIN reads, NEW u \in DOMAIN reads, reads[t] = Pending, reads[u] = Pending
          PROVE  t = u
      <3>1. t \in 1 .. Len(reads) /\ u \in 1 .. Len(reads)
        BY <2>1, LenProperties DEF Types
      <3> QED BY <2>1, <3>1, KindsOfReads DEF Waiting
    <2> QED BY <2>1 DEF Invariant, OneChannelRead
  <1> QED BY ClientInvariant, <1>1, PTL

-----------------------------------------------------------------------------
(* The refinement of SerialCalls.  What it adds to the invariant: a call    *)
(* that is not dispatched has no id and no result; a response is somebody's *)
(* or foreign; and a loop is given nothing that was not sent.               *)
Responses(s) == {j \in DOMAIN s : s[j].kind = "response" /\ s[j].id # Foreign}
OwnerIn(f, i) == CHOOSE c \in Calls : f[c] = i
Pairs(s, f) == {<<OwnerIn(f, s[j].id), s[j].answer>> : j \in Responses(s)}

Origins ==
  /\ status \in [Calls -> {"none"} \cup Answer \cup Failure]
  /\ \A c \in Calls : c > made - Len(queue) => status[c] = "none" /\ id[c] = NoId
  /\ \A c, d \in Calls : id[c] = id[d] => c = d \/ id[c] = NoId
  /\ \A j \in Responses(sent) : \E c \in Calls : id[c] = sent[j].id
  /\ \A t \in 1 .. Len(reads) : reads[t].kind = "response" => \E j \in 1 .. Len(sent) : sent[j] = reads[t]

(* An id that one call has is the id of that call.                          *)
LEMMA OwnerIsUnique ==
  ASSUME NEW f, NEW c \in Calls, \A d \in Calls : f[d] = f[c] => d = c
  PROVE  OwnerIn(f, f[c]) = c
  BY DEF OwnerIn

(* The answers given, as a function of two variables.                       *)
LEMMA GivenAsPairs == Given = Pairs(sent, id)
  BY DEF Given, Pairs, Owner, OwnerIn, Responses

(* Nothing has been sent at the start.                                      *)
LEMMA OriginsInit == Init => Origins
  <1> SUFFICES ASSUME Init PROVE Origins
    OBVIOUS
  <1>1. Responses(sent) = {}
    BY DEF Init, Responses
  <1> QED BY <1>1 DEF Init, Origins, NoId

(* Both ends of a call leave the rest of the calls alone.                   *)
LEMMA OriginsStep == Types /\ Line /\ Waiting /\ Origins /\ [Next]_vars => Origins'
  <1> SUFFICES ASSUME Types, Line, Waiting, Origins, [Next]_vars PROVE Origins'
    OBVIOUS
  <1> DEFINE Results == {"none"} \cup Answer \cup Failure
             Given1 == \A t \in 1 .. Len(reads) :
                         reads[t].kind = "response" => \E j \in 1 .. Len(sent) : sent[j] = reads[t]
  <1>1. Given1 /\ status \in [Calls -> Results]
    BY DEF Origins
  <1>2. made \in Nat /\ Len(queue) \in Nat
    BY DEF Types
  <1>3. /\ Len(Append(reads, Pending)) = Len(reads) + 1 /\ Append(reads, Pending)[Len(reads) + 1] = Pending
        /\ \A t \in 1 .. Len(reads) : Append(reads, Pending)[t] = reads[t] /\ Len(reads) \in Nat
    BY AppendProperties, KindsOfReads DEF Types
  <1>4. ASSUME sent' = sent, reads' = reads \/ reads' = Append(reads, Pending) PROVE Given1'
    <2>1. ASSUME NEW t \in 1 .. Len(reads'), reads'[t].kind = "response"
          PROVE  \E j \in 1 .. Len(sent') : sent'[j] = reads'[t]
      <3>1. CASE reads' = reads
        BY <1>1, <1>4, <2>1, <3>1
      <3>2. CASE reads' = Append(reads, Pending)
        <4>1. t \in 1 .. Len(reads)
          BY <1>3, <2>1, <3>2, KindsOfReads
        <4> QED BY <1>1, <1>3, <1>4, <2>1, <3>2, <4>1
      <3> QED BY <1>4, <3>1, <3>2
    <2> QED BY <2>1
  (* The calls that wait in line, and the ids, are what they were.          *)
  <1>5. ASSUME id' = id, sent' = sent, reads' = reads \/ reads' = Append(reads, Pending),
               made' - Len(queue') = made - Len(queue),
               status' = status \/ \E c \in Calls, r \in Answer \cup Failure :
                                     c <= made - Len(queue) /\ status' = [status EXCEPT ![c] = r]
        PROVE  Origins'
    <2>1. Given1'
      BY <1>4, <1>5
    <2>2. status' \in [Calls -> Results]
      BY <1>1, <1>5
    <2>3. \A c \in Calls : c > made - Len(queue) => status'[c] = "none"
      <3>1. CASE status' = status
        BY <3>1 DEF Origins
      <3>2. ASSUME NEW c \in Calls, NEW r, c <= made - Len(queue), status' = [status EXCEPT ![c] = r]
            PROVE  \A d \in Calls : d > made - Len(queue) => status'[d] = "none"
        <4>1. \A d \in Calls : d > made - Len(queue) => d # c
          BY <1>2, <3>2 DEF Calls
        <4> QED BY <1>1, <3>2, <4>1 DEF Origins
      <3> QED BY <1>5, <3>1, <3>2
    <2> QED BY <1>5, <2>1, <2>2, <2>3 DEF Origins
  <1>6. ASSUME NEW tooBig \in BOOLEAN, Enqueue(tooBig) PROVE Origins'
    <2>1. made' = made + 1 /\ Len(queue') = Len(queue) + 1
      <3>1. made + 1 \in Calls
        BY <1>6, ClientAssumption DEF Enqueue, Types, Calls
      <3> QED BY <1>6, <3>1, AppendProperties DEF Enqueue, Types
    <2>2. UNCHANGED <<id, sent, reads, status>>
      BY <1>6 DEF Enqueue, hostVars
    <2>3. made' - Len(queue') = made - Len(queue)
      BY <1>2, <2>1
    <2> QED BY <1>5, <2>2, <2>3
  <1>7. CASE Dispatch
    <2> DEFINE h == Head(queue)
    <2>1. h \in Calls /\ Len(queue') = Len(queue) - 1 /\ Len(queue) > 0 /\ h = queue[1]
      BY <1>7, HeadTailProperties DEF Dispatch, Types
    <2>2. h = made - Len(queue) + 1 /\ made' = made /\ sent' = sent
      BY <1>2, <1>7, <2>1 DEF Line, Dispatch, hostVars
    <2>3. made' - Len(queue') = h
      BY <1>2, <2>1, <2>2
    <2>4. reads' = reads \/ reads' = Append(reads, Pending)
      BY <1>7 DEF Dispatch, Adopt
    <2>5. Given1'
      BY <1>4, <2>2, <2>4
    <2>6. CASE h \in over
      <3>1. id' = id /\ status' = [status EXCEPT ![h] = "cap"]
        BY <1>7, <2>6 DEF Dispatch
      <3>2. status' \in [Calls -> Results]
        BY <1>1, <3>1 DEF Failure
      <3>3. \A c \in Calls : c > h => status'[c] = "none" /\ id[c] = NoId
        BY <1>1, <1>2, <2>1, <2>2, <3>1 DEF Origins, Calls
      <3> QED BY <2>2, <2>3, <2>5, <3>1, <3>2, <3>3 DEF Origins
    <2>7. CASE h \notin over
      <3>1. id' = [id EXCEPT ![h] = nextId] /\ status' = status
        BY <1>7, <2>7 DEF Dispatch
      <3>2. \A c \in Calls : c > h => status'[c] = "none" /\ id'[c] = NoId
        BY <1>2, <2>1, <2>2, <3>1 DEF Origins, Calls, Types
      <3>3. id[h] = NoId
        BY <1>2, <2>1, <2>2 DEF Origins, Calls
      <3>4. nextId < NoId /\ NoId \in Nat /\ nextId \in Nat
        BY <1>2, <2>1, ClientAssumption DEF Types, Line, NoId
      <3>5. \A c, d \in Calls : id'[c] = id'[d] => c = d \/ id'[c] = NoId
        <4>1. \A c \in Calls : c # h => id'[c] = id[c] /\ id'[c] # nextId
          <5>1. \A c \in Calls : c # h => id'[c] = id[c]
            BY <2>1, <3>1 DEF Types
          <5>2. \A c \in Calls : id[c] \in Nat /\ (id[c] = NoId \/ id[c] < nextId)
            BY DEF Types, Line
          <5> QED BY <3>4, <5>1, <5>2
        <4>2. id'[h] = nextId
          BY <2>1, <3>1 DEF Types
        <4> QED BY <4>1, <4>2 DEF Origins
      <3>6. ASSUME NEW j \in Responses(sent) PROVE \E c \in Calls : id'[c] = sent[j].id
        <4>1. PICK c \in Calls : id[c] = sent[j].id
          BY <3>6 DEF Origins
        <4>2. sent[j].id # NoId
          <5>1. j \in 1 .. Len(sent) /\ sent[j].kind = "response"
            BY <3>6, LenProperties DEF Types, Responses
          <5>2. sent[j].id \in 0 .. MaxCalls
            BY <5>1, ElementOfSeq, KindsOfReads DEF Types
          <5> QED BY <5>2, ClientAssumption DEF NoId
        <4> QED BY <2>1, <3>1, <3>3, <4>1, <4>2 DEF Types
      <3> QED BY <2>2, <2>3, <2>5, <1>1, <3>1, <3>2, <3>5, <3>6 DEF Origins
    <2> QED BY <2>6, <2>7
  <1>8. ASSUME NEW c \in Calls, EndAbandoned(c) \/ Discard(c) PROVE Origins'
    BY <1>5, <1>8 DEF EndAbandoned, Discard, hostVars
  <1>9. ASSUME NEW c \in Calls, ReadFails(c) \/ TakeAnswer(c) PROVE Origins'
    <2>1. c = current /\ c <= made - Len(queue) /\ waits[c] \in 1 .. Len(reads)
      BY <1>9, CurrentIsLast DEF ReadFails, TakeAnswer, Line
    <2>2. Read(c) \in Settled
      BY <2>1, ElementOfSeq DEF Read, Types
    <2>3. \E r \in Answer \cup Failure : status' = [status EXCEPT ![c] = r]
      <3>1. CASE ReadFails(c)
        <4>1. Read(c).why \in Fault /\ status' = [status EXCEPT ![c] = Read(c).why]
          BY <2>2, <3>1, FaultsHaveReasons DEF ReadFails, End
        <4> QED BY <4>1 DEF Failure
      <3>2. CASE TakeAnswer(c)
        <4>1. Read(c).answer \in Answer /\ status' = [status EXCEPT ![c] = Read(c).answer]
          BY <2>2, <3>2, KindsOfReads DEF TakeAnswer, End, Matches, Response
        <4> QED BY <4>1
      <3> QED BY <1>9, <3>1, <3>2
    <2>4. UNCHANGED <<id, sent, reads, made, queue>>
      BY <1>9 DEF ReadFails, TakeAnswer, hostVars
    <2> QED BY <1>5, <2>1, <2>3, <2>4
  <1>10. CASE Timeout
    <2>1. current \in Calls /\ current <= made - Len(queue) /\ status' = [status EXCEPT ![current] = "timeout"]
      BY <1>10 DEF Timeout, Types, Line
    <2>2. "timeout" \in Answer \cup Failure
      BY DEF Failure
    <2> QED BY <1>5, <1>10, <2>1, <2>2 DEF Timeout, hostVars
  <1>11. ASSUME NEW t \in DOMAIN reads, NEW r, reads' = [reads EXCEPT ![t] = r],
                r.kind = "response" => \E j \in 1 .. Len(sent) : sent[j] = r,
                UNCHANGED <<made, queue, status, id, sent>>
         PROVE  Origins'
    <2>1. t \in 1 .. Len(reads) /\ Len(reads') = Len(reads) /\ \A u \in 1 .. Len(reads) : reads'[u] = IF u = t THEN r ELSE reads[u]
      BY <1>11, LenProperties DEF Types
    <2>2. Given1'
      BY <1>1, <1>11, <2>1
    <2> QED BY <1>11, <2>2 DEF Origins
  <1>12. CASE Channel
    <2>1. ASSUME NEW t \in DOMAIN reads, Yield(t) PROVE Origins'
      <3> DEFINE f == sent[pulled + 1]
                 r == IF f \in {Malformed, Oversize} THEN Failed(f.kind) ELSE f
      <3>1. pulled + 1 \in 1 .. Len(sent) /\ f \in Frame
        BY <2>1, ElementOfSeq DEF Yield, Types
      <3>2. r.kind = "response" => \E j \in 1 .. Len(sent) : sent[j] = r
        BY <3>1, KindsOfReads
      <3> QED BY <1>11, <2>1, <3>2 DEF Yield, clientVars, hostVars
    <2>2. ASSUME NEW t \in DOMAIN reads, YieldEof(t) PROVE Origins'
      <3>1. Failed("eof").kind # "response"
        BY KindsOfReads
      <3> QED BY <1>11, <2>2, <3>1 DEF YieldEof, clientVars, hostVars
    <2> QED BY <1>12, <2>1, <2>2 DEF Channel
  <1>13. ASSUME NEW f \in Frame, Send(f),
                f.kind = "response" /\ f.id # Foreign => \E c \in Calls : id[c] = f.id
         PROVE  Origins'
    <2>1. /\ DOMAIN sent = 1 .. Len(sent) /\ DOMAIN sent' = 1 .. Len(sent) + 1 /\ Len(sent') = Len(sent) + 1
          /\ Len(sent) \in Nat
          /\ sent'[Len(sent) + 1] = f /\ \A j \in 1 .. Len(sent) : sent'[j] = sent[j]
      BY <1>13, AppendProperties, LenProperties DEF Send, Types
    <2>2. UNCHANGED <<made, queue, status, id, reads>>
      BY <1>13 DEF Send, clientVars
    <2>3. Given1'
      BY <1>1, <2>1, <2>2
    <2>4. ASSUME NEW j \in Responses(sent') PROVE \E c \in Calls : id[c] = sent'[j].id
      <3>1. CASE j = Len(sent) + 1
        BY <1>13, <2>1, <2>4, <3>1 DEF Responses
      <3>2. CASE j \in 1 .. Len(sent)
        BY <2>1, <2>4, <3>2 DEF Responses, Origins
      <3> QED BY <2>1, <2>4, <3>1, <3>2 DEF Responses
    <2> QED BY <2>2, <2>3, <2>4 DEF Origins
  <1>14. CASE Host
    <2>1. ASSUME NEW c \in Calls, NEW answer \in Answer, HostAnswers(c, answer) PROVE Origins'
      <3> DEFINE f == [kind |-> "response", id |-> id[c], answer |-> answer]
      <3>1. id[c] \in 0 .. MaxCalls
        BY <2>1, <1>2, ClientAssumption DEF Types, Line, HostAnswers
      <3>2. f \in Frame /\ f.id = id[c]
        BY <3>1, KindsOfReads DEF Response
      <3> QED BY <1>13, <2>1, <3>2 DEF HostAnswers
    <2>2. CASE HostBabbles
      <3> DEFINE foreign == [kind |-> "response", id |-> Foreign, answer |-> "ok"]
      <3>1. foreign \in Frame /\ foreign.id = Foreign
        BY ClientAssumption, KindsOfReads DEF Response, Foreign, Answer
      <3>2. PICK f \in {Odd, Malformed, Oversize, foreign} : Send(f)
        BY <2>2 DEF HostBabbles
      <3> QED BY <1>13, <3>1, <3>2, KindsOfReads
    <2>3. CASE HostCloses
      BY <1>5, <2>3 DEF HostCloses, clientVars
    <2> QED BY <1>14, <2>1, <2>2, <2>3 DEF Host
  <1>15. CASE UNCHANGED vars
    BY <1>5, <1>15 DEF vars
  <1> QED BY <1>6, <1>7, <1>8, <1>9, <1>10, <1>12, <1>14, <1>15 DEF Next, Loops, Idle

(* Which frames are given depends on what was sent and on whose they are.   *)
LEMMA GivenUnchanged ==
  ASSUME Origins, Types, sent' = sent,
         id' = id \/ \E c \in Calls : id[c] = NoId /\ id' = [id EXCEPT ![c] = nextId] /\ nextId < Foreign,
         \A c \in Calls : id[c] = NoId \/ id[c] < nextId
  PROVE  Given' = Given
  <1>1. Given = Pairs(sent, id) /\ Given' = Pairs(sent', id')
    BY DEF Given, Pairs, Owner, OwnerIn, Responses
  <1>2. CASE id' = id
    BY <1>1, <1>2
  <1>3. ASSUME NEW c \in Calls, id[c] = NoId, id' = [id EXCEPT ![c] = nextId], nextId < Foreign PROVE Given' = Given
    <2>1. ASSUME NEW j \in Responses(sent) PROVE OwnerIn(id', sent[j].id) = OwnerIn(id, sent[j].id)
      <3>1. PICK d \in Calls : id[d] = sent[j].id
        BY <2>1 DEF Origins
      <3>2. sent[j].id \in 0 .. MaxCalls
        <4>1. j \in 1 .. Len(sent) /\ sent[j].kind = "response"
          BY <2>1, LenProperties DEF Types, Responses
        <4> QED BY <4>1, ElementOfSeq, KindsOfReads DEF Types
      <3>3. id[d] # NoId /\ d # c /\ id'[d] = id[d]
        BY <1>3, <3>1, <3>2, ClientAssumption DEF NoId, Types
      <3>4. \A e \in Calls : id[e] = id[d] => e = d
        BY <3>3 DEF Origins
      <3>5. \A e \in Calls : id'[e] = id'[d] => e = d
        BY <1>3, <3>3, <3>4 DEF Types
      <3> QED BY <3>1, <3>3, <3>4, <3>5, OwnerIsUnique
    <2> QED BY <1>1, <2>1 DEF Pairs
  <1> QED BY <1>2, <1>3

(* An answer of the host adds the pair of the call whose id it carries.     *)
LEMMA GivenGrows ==
  ASSUME Origins, Types, Line, NEW c \in Calls, NEW answer, HostAnswers(c, answer)
  PROVE  Given' = Given \cup {<<c, answer>>}
  <1> DEFINE f == [kind |-> "response", id |-> id[c], answer |-> answer]
             n == Len(sent) + 1
  <1>1. /\ DOMAIN sent = 1 .. Len(sent) /\ DOMAIN sent' = 1 .. n /\ Len(sent) \in Nat
        /\ sent'[n] = f /\ (\A j \in 1 .. Len(sent) : sent'[j] = sent[j]) /\ id' = id
    <2>1. sent \in Seq(Frame \cup {f})
      BY SeqMonotonic DEF Types
    <2> QED BY <2>1, AppendProperties, LenProperties DEF HostAnswers, Send, clientVars
  <1>2. f.kind = "response" /\ f.id = id[c] /\ f.answer = answer
    OBVIOUS
  <1> HIDE DEF f
  <1>3. id[c] # NoId /\ id[c] # Foreign
    BY ClientAssumption DEF HostAnswers, Types, Line, Foreign
  <1>4. Responses(sent') = Responses(sent) \cup {n} /\ n \notin Responses(sent)
    BY <1>1, <1>2, <1>3 DEF Responses
  <1>5. OwnerIn(id, f.id) = c
    BY <1>2, <1>3, OwnerIsUnique DEF Origins
  <1>6. Given = Pairs(sent, id) /\ Given' = Pairs(sent', id)
    BY <1>1 DEF Given, Pairs, Owner, OwnerIn, Responses
  <1>7. \A j \in Responses(sent) : sent'[j] = sent[j]
    BY <1>1 DEF Responses
  <1>8. <<OwnerIn(id, sent'[n].id), sent'[n].answer>> = <<c, answer>>
    BY <1>1, <1>2, <1>5
  <1> QED BY <1>4, <1>6, <1>7, <1>8 DEF Pairs

(* Anything else the host sends is given to nobody.                         *)
LEMMA GivenIgnores ==
  ASSUME Types, NEW f \in Frame, Send(f), f.kind = "response" => f.id = Foreign
  PROVE  Given' = Given
  <1>1. /\ DOMAIN sent = 1 .. Len(sent) /\ DOMAIN sent' = 1 .. Len(sent) + 1 /\ Len(sent) \in Nat
        /\ sent'[Len(sent) + 1] = f /\ (\A j \in 1 .. Len(sent) : sent'[j] = sent[j]) /\ id' = id
    BY AppendProperties, LenProperties DEF Types, Send, clientVars
  <1>2. Responses(sent') = Responses(sent) /\ \A j \in Responses(sent) : sent'[j] = sent[j]
    BY <1>1 DEF Responses
  <1>3. Given = Pairs(sent, id) /\ Given' = Pairs(sent', id)
    BY <1>1 DEF Given, Pairs, Owner, OwnerIn, Responses
  <1> QED BY <1>2, <1>3 DEF Pairs

(* The line of the abstract calls.                                          *)
Lined(c, q) == (IF c = NoCall THEN <<>> ELSE <<c>>) \o q

(* What the line is after a call has joined, settled or been dispatched.    *)
LEMMA LinedProperties ==
  ASSUME NEW q \in Seq(Calls)
  PROVE  /\ Lined(NoCall, q) = q
         /\ q # <<>> => Lined(Head(q), Tail(q)) = q
         /\ \A c \in Calls : Lined(c, q) # <<>> /\ Head(Lined(c, q)) = c /\ Tail(Lined(c, q)) = q
         /\ \A c \in Calls \cup {NoCall}, d \in Calls : Lined(c, Append(q, d)) = Append(Lined(c, q), d)
  <1>1. Lined(NoCall, q) = q
    BY ConcatEmptySeq DEF Lined
  <1>2. \A c \in Calls : c # NoCall
    BY ClientAssumption DEF Calls, NoCall
  <1>3. ASSUME NEW c \in Calls PROVE Lined(c, q) = <<c>> \o q /\ <<c>> \in Seq(Calls) /\ Len(<<c>>) = 1 /\ <<c>>[1] = c
    BY <1>2 DEF Lined
  <1>4. ASSUME NEW c \in Calls
        PROVE  /\ Lined(c, q) \in Seq(Calls) /\ Len(Lined(c, q)) = 1 + Len(q) /\ Lined(c, q)[1] = c
               /\ \A i \in 1 .. Len(q) : Lined(c, q)[i + 1] = q[i]
    <2>1. /\ <<c>> \o q \in Seq(Calls) /\ Len(<<c>> \o q) = 1 + Len(q) /\ Len(q) \in Nat
          /\ \A i \in 1 .. 1 + Len(q) : (<<c>> \o q)[i] = IF i <= 1 THEN <<c>>[i] ELSE q[i - 1]
      BY <1>3, ConcatProperties, LenProperties
    <2>2. 1 \in 1 .. 1 + Len(q) /\ \A i \in 1 .. Len(q) : i + 1 \in 1 .. 1 + Len(q) /\ ~(i + 1 <= 1) /\ (i + 1) - 1 = i
      BY <2>1
    <2>3. (<<c>> \o q)[1] = c /\ \A i \in 1 .. Len(q) : (<<c>> \o q)[i + 1] = q[i]
      BY <1>3, <2>1, <2>2
    <2> QED BY <1>3, <2>1, <2>3
  <1>5. ASSUME NEW c \in Calls PROVE Lined(c, q) # <<>> /\ Head(Lined(c, q)) = c /\ Tail(Lined(c, q)) = q
    <2>1. Lined(c, q) # <<>> /\ Len(q) \in Nat
      BY <1>4, LenProperties
    <2>2. /\ Head(Lined(c, q)) = c /\ Tail(Lined(c, q)) \in Seq(Calls) /\ Len(Tail(Lined(c, q))) = Len(q)
          /\ \A i \in 1 .. Len(q) : Tail(Lined(c, q))[i] = Lined(c, q)[i + 1]
      BY <1>4, <2>1, HeadTailProperties
    <2>3. \A i \in 1 .. Len(q) : Tail(Lined(c, q))[i] = q[i]
      BY <1>4, <2>2
    <2> QED BY <2>1, <2>2, <2>3, SeqEqual
  <1>6. ASSUME q # <<>> PROVE Lined(Head(q), Tail(q)) = q
    <2>1. /\ Head(q) \in Calls /\ Tail(q) \in Seq(Calls) /\ Len(Tail(q)) = Len(q) - 1 /\ Len(q) \in Nat /\ Len(q) > 0
          /\ Head(q) = q[1] /\ \A i \in 1 .. Len(Tail(q)) : Tail(q)[i] = q[i + 1]
      BY <1>6, HeadTailProperties, LenProperties
    <2> DEFINE l == Lined(Head(q), Tail(q))
    <2>2. /\ l \in Seq(Calls) /\ Len(l) = 1 + Len(Tail(q)) /\ l[1] = Head(q)
          /\ \A i \in 1 .. Len(Tail(q)) : l[i + 1] = Tail(q)[i]
      <3>1. l = <<Head(q)>> \o Tail(q) /\ <<Head(q)>> \in Seq(Calls) /\ Len(<<Head(q)>>) = 1 /\ <<Head(q)>>[1] = Head(q)
        BY <1>2, <2>1 DEF Lined
      <3> QED BY <2>1, <3>1, ConcatProperties, LenProperties
    <2> HIDE DEF l
    <2>3. ASSUME NEW i \in 1 .. Len(l) PROVE l[i] = q[i]
      <3>1. CASE i = 1
        BY <2>1, <2>2, <3>1
      <3>2. CASE i # 1
        <4>1. i - 1 \in 1 .. Len(Tail(q)) /\ (i - 1) + 1 = i
          BY <2>1, <2>2, <2>3, <3>2
        <4> QED BY <2>1, <2>2, <4>1
      <3> QED BY <3>1, <3>2
    <2>4. Len(l) = Len(q)
      BY <2>1, <2>2
    <2>5. l = q
      BY <2>2, <2>3, <2>4, SeqEqual
    <2> QED BY <2>5 DEF l
  <1>7. ASSUME NEW c \in Calls \cup {NoCall}, NEW d \in Calls PROVE Lined(c, Append(q, d)) = Append(Lined(c, q), d)
    <2>1. Append(q, d) = q \o <<d>> /\ <<d>> \in Seq(Calls)
      BY AppendIsConcat
    <2>2. CASE c = NoCall
      <3>1. Append(q, d) \in Seq(Calls)
        BY AppendProperties
      <3> QED BY <1>1, <2>2, <3>1, ConcatEmptySeq DEF Lined
    <2>3. CASE c \in Calls
      <3>1. Lined(c, Append(q, d)) = <<c>> \o (q \o <<d>>)
        BY <1>2, <2>1, <2>3 DEF Lined
      <3>2. <<c>> \o (q \o <<d>>) = (<<c>> \o q) \o <<d>>
        BY <1>3, <2>1, <2>3, ConcatAssociative
      <3>3. Append(Lined(c, q), d) = (<<c>> \o q) \o <<d>>
        <4>1. Lined(c, q) \in Seq(Calls) /\ Lined(c, q) = <<c>> \o q
          BY <1>3, <1>4, <2>3
        <4> QED BY <4>1, AppendIsConcat
      <3> QED BY <3>1, <3>2, <3>3
    <2> QED BY <2>2, <2>3
  <1> QED BY <1>1, <1>5, <1>6, <1>7

(* The number of a new call is not in the line.                             *)
LEMMA NewToTheLine ==
  ASSUME Types, Line, NEW i \in DOMAIN Lined(current, queue)
  PROVE  Lined(current, queue)[i] # made + 1
  <1>1. made \in Nat /\ made <= MaxCalls /\ Len(queue) \in Nat /\ Len(queue) <= made
    BY DEF Types, Line
  <1>2. queue \in Seq(1 .. made)
    <2>1. \A j \in 1 .. Len(queue) : queue[j] \in 1 .. made
      BY <1>1 DEF Line
    <2>2. queue \in [1 .. Len(queue) -> 1 .. made]
      BY <2>1, LenProperties DEF Types
    <2> QED BY <1>1, <2>2
  <1>3. current = NoCall \/ current \in 1 .. made
    BY <1>1, ClientAssumption DEF Types, Line, Calls
  <1>4. Lined(current, queue) \in Seq(1 .. made)
    <2>1. CASE current = NoCall
      BY <1>2, <2>1, ConcatEmptySeq DEF Lined
    <2>2. CASE current # NoCall
      <3>1. <<current>> \in Seq(1 .. made)
        BY <1>3, <2>2
      <3> QED BY <1>2, <2>2, <3>1, ConcatProperties DEF Lined
    <2> QED BY <2>1, <2>2
  <1>5. Lined(current, queue)[i] \in 1 .. made
    BY <1>4, ElementOfSeq, LenProperties
  <1> QED BY <1>1, <1>5

(* The initial states are initial states of SerialCalls.                    *)
LEMMA SerialInit == Init => Serial!SInit
  <1> SUFFICES ASSUME Init PROVE Serial!SInit
    OBVIOUS
  <1>1. Responses(sent) = {}
    BY DEF Init, Responses
  <1>2. Given = {}
    BY <1>1, GivenAsPairs DEF Pairs
  <1>3. Lined(current, queue) = <<>>
    BY DEF Init, Lined
  <1> QED BY <1>2, <1>3 DEF Init, Serial!SInit, Lined

(* Only Enqueue, the answers of the host, and the ends of calls are more    *)
(* than stuttering.                                                         *)
LEMMA SerialStep ==
  ASSUME Invariant, Origins, [Next]_vars
  PROVE  [Serial!SNext]_(Serial!svars)
  <1> DEFINE L == Lined(current, queue)
  <1>1. Types /\ Line /\ Waiting /\ queue \in Seq(Calls) /\ current \in Calls \cup {NoCall}
    BY DEF Invariant, Types
  <1>2. ASSUME L' = L, status' = status, Given' = Given PROVE [Serial!SNext]_(Serial!svars)
    BY <1>2 DEF Serial!svars, Lined
  <1>3. ASSUME NEW r \in Answer \cup Failure, L # <<>>, L' = Tail(L), status' = [status EXCEPT ![Head(L)] = r],
               r \in Answer => <<Head(L), r>> \in Given, Given' = Given
        PROVE  [Serial!SNext]_(Serial!svars)
    <2>1. Serial!Settle
      BY <1>3 DEF Serial!Settle, Lined
    <2> QED BY <2>1 DEF Serial!SNext
  <1>4. \A c \in Calls : id[c] = NoId \/ id[c] < nextId
    BY <1>1 DEF Line
  <1>5. ASSUME UNCHANGED <<sent, id>> PROVE Given' = Given
    BY <1>1, <1>4, <1>5, GivenUnchanged
  <1>6. ASSUME NEW tooBig \in BOOLEAN, Enqueue(tooBig) PROVE [Serial!SNext]_(Serial!svars)
    <2>1. made + 1 \in Calls /\ queue' = Append(queue, made + 1) /\ UNCHANGED <<current, status, id, sent>>
      BY <1>1, <1>6, ClientAssumption DEF Enqueue, Types, Calls, hostVars
    <2>2. L' = Append(L, made + 1)
      BY <1>1, <2>1, LinedProperties
    <2>3. status[made + 1] = "none"
      BY <1>1, <2>1 DEF Origins, Types
    <2>4. \A i \in DOMAIN L : L[i] # made + 1
      BY <1>1, NewToTheLine
    <2>5. Given' = Given
      BY <1>5, <2>1
    <2>6. Serial!Make(made + 1)
      BY <2>1, <2>2, <2>3, <2>4, <2>5 DEF Serial!Make, Lined
    <2> QED BY <2>1, <2>6 DEF Serial!SNext
  <1>7. CASE Dispatch
    <2>1. current = NoCall /\ queue # <<>> /\ queue' = Tail(queue) /\ sent' = sent /\ Head(queue) \in Calls
      BY <1>1, <1>7, HeadTailProperties DEF Dispatch, hostVars
    <2>2. L = queue
      BY <1>1, <2>1, LinedProperties
    <2>3. CASE Head(queue) \in over
      <3>1. status' = [status EXCEPT ![Head(L)] = "cap"] /\ UNCHANGED <<current, id>>
        BY <1>7, <2>2, <2>3 DEF Dispatch
      <3>2. Tail(queue) \in Seq(Calls)
        BY <1>1, <2>1, HeadTailProperties
      <3>3. L' = Tail(L)
        <4>1. Lined(NoCall, Tail(queue)) = Tail(queue)
          BY <3>2, LinedProperties
        <4> QED BY <2>1, <2>2, <3>1, <4>1 DEF Lined
      <3>4. "cap" \in Failure /\ "cap" \notin Answer
        BY DEF Failure, Answer
      <3> QED BY <1>3, <1>5, <2>1, <2>2, <3>1, <3>3, <3>4
    <2>4. CASE Head(queue) \notin over
      <3>1. status' = status /\ current' = Head(queue) /\ id' = [id EXCEPT ![Head(queue)] = nextId]
        BY <1>7, <2>4 DEF Dispatch
      <3>2. L' = L
        BY <1>1, <2>1, <2>2, <3>1, LinedProperties
      <3>3. id[Head(queue)] = NoId /\ nextId < Foreign
        <4>1. Head(queue) = queue[1] /\ Len(queue) \in Nat /\ Len(queue) > 0
          BY <1>1, <2>1, HeadTailProperties, LenProperties, EmptySeq
        <4>2. Head(queue) = made - Len(queue) + 1
          BY <1>1, <4>1 DEF Line, Types
        <4>3. Head(queue) \in Nat /\ made \in Nat /\ nextId \in Nat
          BY <1>1, <2>1 DEF Types, Calls
        <4>4. id[Head(queue)] = NoId
          BY <2>1, <4>1, <4>2, <4>3 DEF Origins
        <4>5. nextId <= made - Len(queue) /\ made <= MaxCalls
          BY <1>1 DEF Line
        <4> QED BY <4>1, <4>3, <4>4, <4>5, ClientAssumption DEF Foreign
      <3>4. Given' = Given
        BY <1>1, <1>4, <2>1, <3>1, <3>3, GivenUnchanged
      <3> QED BY <1>2, <3>1, <3>2, <3>4
    <2> QED BY <2>3, <2>4
  <1>8. ASSUME NEW c \in Calls, EndAbandoned(c) \/ Discard(c) PROVE [Serial!SNext]_(Serial!svars)
    <2>1. UNCHANGED <<current, queue, status, sent, id>>
      BY <1>8 DEF EndAbandoned, Discard, hostVars
    <2> QED BY <1>2, <1>5, <2>1
  <1>9. ASSUME NEW c \in Calls, c = current, NEW r \in Answer \cup Failure, current' = NoCall,
               status' = [status EXCEPT ![c] = r], r \in Answer => <<c, r>> \in Given, UNCHANGED <<queue, sent, id>>
        PROVE  [Serial!SNext]_(Serial!svars)
    <2>1. L # <<>> /\ Head(L) = c /\ Tail(L) = queue
      BY <1>1, <1>9, LinedProperties
    <2>2. L' = queue
      BY <1>1, <1>9, LinedProperties
    <2> QED BY <1>3, <1>5, <1>9, <2>1, <2>2
  <1>10. ASSUME NEW c \in Calls, ReadFails(c) PROVE [Serial!SNext]_(Serial!svars)
    <2>1. c = current /\ waits[c] \in 1 .. Len(reads)
      BY <1>1, <1>10, CurrentIsLast DEF ReadFails
    <2>2. Read(c).why \in Fault
      BY <1>1, <1>10, <2>1, ElementOfSeq, FaultsHaveReasons DEF Read, Types, ReadFails
    <2>3. Read(c).why \in Failure /\ Read(c).why \notin Answer
      BY <2>2 DEF Failure, Fault, Answer
    <2> QED BY <1>9, <1>10, <2>1, <2>3 DEF ReadFails, End, hostVars
  <1>11. ASSUME NEW c \in Calls, TakeAnswer(c) PROVE [Serial!SNext]_(Serial!svars)
    <2>1. c = current /\ current # NoCall /\ waits[c] \in 1 .. Len(reads)
      BY <1>1, <1>11, CurrentIsLast DEF TakeAnswer
    <2>2. Read(c).kind = "response" /\ Read(c).id = id[c]
      BY <1>11 DEF TakeAnswer, Matches
    <2>3. PICK j \in 1 .. Len(sent) : sent[j] = Read(c)
      BY <2>1, <2>2 DEF Origins, Read
    <2>4. id[c] < Foreign /\ id[c] # NoId
      BY <1>1, <2>1, ClientAssumption DEF Types, Line, Foreign, NoId
    <2>5. j \in Responses(sent)
      BY <1>1, <2>2, <2>3, <2>4, LenProperties, ClientAssumption DEF Responses, Types, Foreign
    <2>6. OwnerIn(id, sent[j].id) = c
      BY <2>2, <2>3, <2>4, OwnerIsUnique DEF Origins
    <2>7. <<c, Read(c).answer>> \in Given
      BY <2>3, <2>5, <2>6, GivenAsPairs DEF Pairs
    <2>8. Read(c).answer \in Answer
      <3>1. sent[j] \in Frame
        BY <1>1, ElementOfSeq DEF Types
      <3> QED BY <2>2, <2>3, <3>1, KindsOfReads DEF Response
    <2> QED BY <1>9, <1>11, <2>1, <2>7, <2>8 DEF TakeAnswer, End, hostVars
  <1>12. CASE Timeout
    <2>1. "timeout" \in Failure /\ "timeout" \notin Answer
      BY DEF Failure, Answer
    <2> QED BY <1>1, <1>9, <1>12, <2>1 DEF Timeout, hostVars
  <1>13. CASE Channel
    BY <1>2, <1>5, <1>13 DEF Channel, Yield, YieldEof, clientVars, hostVars
  <1>14. CASE Host
    <2>1. UNCHANGED <<current, queue, status>>
      BY <1>14 DEF Host, HostAnswers, HostBabbles, HostCloses, Send, clientVars
    <2>2. ASSUME NEW c \in Calls, NEW answer \in Answer, HostAnswers(c, answer) PROVE [Serial!SNext]_(Serial!svars)
      <3>1. Given' = Given \cup {<<c, answer>>}
        BY <1>1, <2>2, GivenGrows
      <3>2. Serial!Give(c, answer)
        BY <2>1, <3>1 DEF Serial!Give
      <3> QED BY <2>2, <3>2 DEF Serial!SNext
    <2>3. ASSUME HostBabbles PROVE [Serial!SNext]_(Serial!svars)
      <3> DEFINE foreign == [kind |-> "response", id |-> Foreign, answer |-> "ok"]
      <3>1. foreign \in Frame /\ foreign.id = Foreign
        BY ClientAssumption, KindsOfReads DEF Response, Foreign, Answer
      <3>2. PICK f \in {Odd, Malformed, Oversize, foreign} : Send(f)
        BY <2>3 DEF HostBabbles
      <3>3. f \in Frame /\ (f.kind = "response" => f.id = Foreign)
        BY <3>1, KindsOfReads
      <3>4. Given' = Given
        BY <1>1, <3>2, <3>3, GivenIgnores
      <3> QED BY <1>2, <2>1, <3>4
    <2>4. CASE HostCloses
      BY <1>2, <1>5, <2>1, <2>4 DEF HostCloses, clientVars
    <2> QED BY <1>14, <2>2, <2>3, <2>4 DEF Host
  <1>15. CASE UNCHANGED vars
    BY <1>2, <1>5, <1>15 DEF vars
  <1> QED BY <1>6, <1>7, <1>8, <1>10, <1>11, <1>12, <1>13, <1>14, <1>15 DEF Next, Loops, Idle

(* The client implements SerialCalls: calls settle in the order they were   *)
(* made, once, and with an answer of the host to their own request or a     *)
(* failure (#chain, #receiveMatching).                                      *)
THEOREM ClientImplementsSerialCalls == Spec => ImplementsSerialCalls
  <1>1. Init => Origins
    BY OriginsInit
  <1>2. Invariant /\ Origins /\ [Next]_vars => Origins'
    BY OriginsStep DEF Invariant
  <1>3. Spec => []Origins
    BY ClientInvariant, <1>1, <1>2, PTL DEF Spec
  <1>4. Invariant /\ Origins /\ [Next]_vars => [Serial!SNext]_(Serial!svars)
    BY SerialStep
  <1> QED BY ClientInvariant, SerialInit, <1>3, <1>4, PTL DEF Spec, ImplementsSerialCalls, Serial!SSpec

-----------------------------------------------------------------------------
(* Every frame is seen once.                                                *)

(* What a settled read holds, unless it is a fault, is a readable frame,    *)
(* and the generator has taken only what was sent.                          *)
Legible ==
  /\ \A i \in 1 .. Len(reads) : reads[i].kind \notin {"pending", "fault"} => Readable(reads[i])
  /\ pulled <= Len(sent)

SeenInOrder == taken \o Parked = Yielded

(* Whether a frame is readable is told by its kind.                         *)
LEMMA ReadableKinds ==
  /\ \A f \in Settled : f.kind \in {"pending", "fault"} => ~Readable(f)
  /\ \A f \in Frame : Readable(f) <=> f \notin {Malformed, Oversize}
  /\ \A f \in Response : Readable(f)
  <1>1. \A f \in Response : f.kind = "response"
    BY KindsOfReads
  <1>2. \A f : Readable(f) => f.kind \in {"response", "odd"}
    BY <1>1, KindsOfReads DEF Readable
  <1>3. \A f \in Frame : Readable(f) \/ f = Malformed \/ f = Oversize
    BY DEF Frame, Readable
  <1>4. ~Readable(Malformed) /\ ~Readable(Oversize)
    BY <1>2, KindsOfReads
  <1> QED BY <1>1, <1>2, <1>3, <1>4 DEF Readable

(* Before anything is read nothing has been yielded.                        *)
LEMMA SeenInit == Init => Legible /\ SeenInOrder
  <1> SUFFICES ASSUME Init PROVE Legible /\ SeenInOrder
    OBVIOUS
  <1>1. Legible
    BY DEF Init, Legible
  <1>2. SubSeq(sent, 1, pulled) = <<>> /\ taken = <<>> /\ Parked = <<>>
    BY DEF Init, Parked
  <1>3. Yielded = Frames!Fold(<<>>, SubSeq(sent, 1, pulled))
    BY DEF Yielded, Frames!Fold, FoldLeft, MapThenFoldSet, Max, Frames!FoldLeft, Frames!MapThenFoldSet, Frames!Max
  <1>4. Yielded = <<>>
    BY <1>2, <1>3, Frames!FoldEmpty
  <1> QED BY <1>1, <1>2, <1>4 DEF SeenInOrder

(* One more frame of the host is one more to see, if it is readable.        *)
LEMMA YieldedGrows ==
  ASSUME Types, pulled < Len(sent), sent' = sent, pulled' = pulled + 1
  PROVE  Yielded' = KeepReadable(Yielded, sent[pulled + 1])
  <1> DEFINE Up(k) == FoldLeft(KeepReadable, <<>>, SubSeq(sent, 1, k))
  <1>1. \A k \in Nat : Up(k) = Frames!Fold(<<>>, SubSeq(sent, 1, k))
    BY DEF Frames!Fold, FoldLeft, MapThenFoldSet, Max, Frames!FoldLeft, Frames!MapThenFoldSet, Frames!Max
  <1>2. Yielded = Up(pulled) /\ Yielded' = Up(pulled + 1)
    BY DEF Yielded
  <1>3. pulled \in 0 .. Len(sent) - 1 /\ pulled \in Nat /\ pulled + 1 \in Nat /\ sent \in Seq(Frame)
    BY DEF Types
  <1>4. Frames!Fold(<<>>, SubSeq(sent, 1, pulled + 1))
          = KeepReadable(Frames!Fold(<<>>, SubSeq(sent, 1, pulled)), sent[pulled + 1])
    BY <1>3, Frames!FoldPrefix
  <1> HIDE DEF Up
  <1> QED BY <1>1, <1>2, <1>3, <1>4

(* What the host sends later does not change what has been yielded.         *)
LEMMA YieldedStays ==
  ASSUME Types, pulled <= Len(sent), NEW f \in Frame, sent' = Append(sent, f), pulled' = pulled
  PROVE  Yielded' = Yielded
  <1>1. SubSeq(Append(sent, f), 1, pulled) = SubSeq(sent, 1, pulled)
    BY DEF Types
  <1> QED BY <1>1 DEF Yielded

(* What the loops took, with the parked frame, is what has been yielded.    *)
LEMMA SeenStep ==
  Types /\ Line /\ Waiting /\ Legible /\ SeenInOrder /\ [Next]_vars => Legible' /\ SeenInOrder'
  <1> SUFFICES ASSUME Types, Line, Waiting, Legible, SeenInOrder, [Next]_vars PROVE Legible' /\ SeenInOrder'
    OBVIOUS
  <1>0. /\ Len(reads) \in Nat /\ dangling \in Nat /\ waits \in [Calls -> Nat] /\ pulled \in Nat
        /\ reads \in Seq(Settled) /\ taken \in Seq(Frame) /\ sent \in Seq(Frame) /\ Len(sent) \in Nat
    BY DEF Types
  (* Nothing a loop looks at, or may look at, changes. *)
  <1>1. ASSUME UNCHANGED <<taken, dangling, reads, sent, pulled>> PROVE Legible' /\ SeenInOrder'
    BY <1>1 DEF Legible, SeenInOrder, Parked, Yielded
  (* A read is issued, and no frame was parked. *)
  <1>2. ASSUME reads' = Append(reads, Pending), dangling' = Len(reads) + 1, UNCHANGED <<sent, pulled>>,
               taken' = taken \o Parked
        PROVE  Legible' /\ SeenInOrder'
    <2>1. /\ Len(reads') = Len(reads) + 1 /\ reads'[Len(reads) + 1] = Pending
          /\ \A i \in 1 .. Len(reads) : reads'[i] = reads[i]
      BY <1>0, <1>2, AppendProperties, KindsOfReads
    <2>2. Parked' = <<>>
      BY <1>2, <2>1, ReadableKinds, KindsOfReads DEF Parked
    <2>3. Legible'
      BY <1>0, <1>2, <2>1, KindsOfReads DEF Legible
    <2>4. taken' \in Seq(Frame)
      BY TypesStep DEF Types
    <2>5. taken' \o <<>> = taken'
      BY <2>4, ConcatEmptySeq
    <2>6. Yielded' = Yielded
      BY <1>2 DEF Yielded
    <2> QED BY <1>2, <2>2, <2>3, <2>5, <2>6 DEF SeenInOrder
  (* A loop ends, and what was parked has been looked at. *)
  <1>3. ASSUME dangling' = NoRead, UNCHANGED <<reads, sent, pulled>>, taken' = taken \o Parked
        PROVE  Legible' /\ SeenInOrder'
    <2>1. Parked' = <<>> /\ Yielded' = Yielded /\ Legible'
      BY <1>3 DEF Parked, Yielded, Legible
    <2>2. taken' \in Seq(Frame)
      BY TypesStep DEF Types
    <2>3. taken' \o <<>> = taken'
      BY <2>2, ConcatEmptySeq
    <2> QED BY <1>3, <2>1, <2>3 DEF SeenInOrder
  <1>4. ASSUME Parked = <<>> PROVE taken \o Parked = taken
    BY <1>0, <1>4, ConcatEmptySeq
  <1>5. ASSUME NEW c \in Calls, Ready(c), Read(c).kind = "fault" PROVE Parked = <<>>
    <2>1. waits[c] = dangling \/ dangling = NoRead
      BY <1>5 DEF Waiting, Ready
    <2>2. ASSUME dangling # NoRead PROVE ~Readable(reads[dangling])
      <3>1. dangling = waits[c] /\ dangling \in 1 .. Len(reads) /\ reads[dangling].kind = "fault"
        BY <1>5, <2>1, <2>2 DEF Waiting, Ready, Read
      <3> QED BY <1>0, <3>1, ElementOfSeq, ReadableKinds
    <2> QED BY <2>2 DEF Parked
  (* A frame that a loop has in its hands is the parked one. *)
  <1>6. ASSUME NEW c \in Calls, Ready(c), Read(c).kind # "fault"
        PROVE  Parked = <<Read(c)>> /\ Append(taken, Read(c)) = taken \o Parked
    <2>1. waits[c] = dangling /\ dangling # NoRead /\ dangling \in 1 .. Len(reads)
      BY <1>6 DEF Waiting, Ready, Read
    <2>2. Readable(reads[dangling])
      BY <1>6, <2>1 DEF Legible, Ready, Read
    <2>3. Parked = <<Read(c)>>
      BY <2>1, <2>2 DEF Parked, Read
    <2>4. Append(taken, Read(c)) = taken \o <<Read(c)>>
      <3>1. Read(c) \in Frame
        BY <1>0, <1>6, <2>1, ElementOfSeq, KindsOfReads DEF Ready, Read
      <3> QED BY <1>0, <3>1
    <2> QED BY <2>3, <2>4
  <1>7. ASSUME NEW tooBig \in BOOLEAN, Enqueue(tooBig) PROVE Legible' /\ SeenInOrder'
    BY <1>1, <1>7 DEF Enqueue, hostVars
  <1>8. CASE Dispatch
    <2>1. UNCHANGED <<taken, sent, pulled>>
      BY <1>8 DEF Dispatch, hostVars
    <2>2. CASE UNCHANGED <<reads, dangling>>
      BY <1>1, <2>1, <2>2
    <2>3. CASE dangling = NoRead /\ reads' = Append(reads, Pending) /\ dangling' = Len(reads) + 1
      <3>1. Parked = <<>>
        BY <2>3 DEF Parked
      <3> QED BY <1>2, <1>4, <2>1, <2>3, <3>1
    <2> QED BY <1>8, <2>2, <2>3 DEF Dispatch, Adopt
  <1>9. ASSUME NEW c \in Calls, EndAbandoned(c) PROVE Legible' /\ SeenInOrder'
    <2>1. CASE Read(c).kind = "fault"
      <3>1. Ready(c) /\ dangling' = NoRead /\ UNCHANGED <<reads, taken, sent, pulled>>
        BY <1>9, <2>1 DEF EndAbandoned, hostVars
      <3> QED BY <1>3, <1>4, <1>5, <2>1, <3>1
    <2>2. CASE Read(c).kind # "fault"
      BY <1>1, <1>9, <2>2 DEF EndAbandoned, hostVars
    <2> QED BY <2>1, <2>2
  <1>10. ASSUME NEW c \in Calls, ReadFails(c) PROVE Legible' /\ SeenInOrder'
    <2>1. Ready(c) /\ Read(c).kind = "fault" /\ dangling' = NoRead /\ UNCHANGED <<reads, taken, sent, pulled>>
      BY <1>10 DEF ReadFails, hostVars
    <2> QED BY <1>3, <1>4, <1>5, <2>1
  <1>11. ASSUME NEW c \in Calls, TakeAnswer(c) PROVE Legible' /\ SeenInOrder'
    <2>1. /\ Ready(c) /\ Read(c).kind = "response" /\ dangling' = NoRead /\ UNCHANGED <<reads, sent, pulled>>
          /\ taken' = Append(taken, Read(c))
      BY <1>11 DEF TakeAnswer, Matches, hostVars
    <2> QED BY <1>3, <1>6, <2>1
  <1>12. ASSUME NEW c \in Calls, Discard(c) PROVE Legible' /\ SeenInOrder'
    <2>1. /\ Ready(c) /\ Read(c).kind # "fault" /\ dangling' = Len(reads) + 1 /\ UNCHANGED <<sent, pulled>>
          /\ taken' = Append(taken, Read(c)) /\ reads' = Append(reads, Pending)
      BY <1>12 DEF Discard, hostVars
    <2> QED BY <1>2, <1>6, <2>1
  <1>13. CASE Timeout
    BY <1>1, <1>13 DEF Timeout, hostVars
  (* The pending read settles to something. *)
  <1>14. ASSUME NEW t \in DOMAIN reads, Oldest(t), NEW r \in Settled, reads' = [reads EXCEPT ![t] = r],
                r.kind \in {"fault"} \/ Readable(r), r.kind # "pending", UNCHANGED <<taken, dangling>>,
                pulled' <= Len(sent')
         PROVE  Legible' /\ Parked = <<>> /\ Parked' = IF Readable(r) THEN <<r>> ELSE <<>>
    <2>1. /\ t \in 1 .. Len(reads) /\ reads[t].kind = "pending" /\ t = dangling /\ Len(reads') = Len(reads)
          /\ reads'[t] = r /\ \A u \in 1 .. Len(reads) : u # t => reads'[u] = reads[u]
      BY <1>0, <1>14 DEF Oldest, Waiting
    <2>2. ~Readable(reads[t])
      BY <1>0, <2>1, ElementOfSeq, ReadableKinds
    <2>3. dangling # NoRead
      BY <1>0, <2>1 DEF NoRead
    <2>4. Parked = <<>> /\ Parked' = IF Readable(r) THEN <<r>> ELSE <<>>
      BY <1>14, <2>1, <2>2, <2>3 DEF Parked
    <2>5. Legible'
      BY <1>14, <2>1 DEF Legible
    <2> QED BY <2>4, <2>5
  <1>15. ASSUME NEW t \in DOMAIN reads, Yield(t) PROVE Legible' /\ SeenInOrder'
    <2> DEFINE f == sent[pulled + 1]
               r == IF f \in {Malformed, Oversize} THEN Failed(f.kind) ELSE f
    <2>1. /\ Oldest(t) /\ pulled < Len(sent) /\ reads' = [reads EXCEPT ![t] = r] /\ pulled' = pulled + 1
          /\ UNCHANGED <<taken, dangling, sent>>
      BY <1>15 DEF Yield, clientVars, hostVars
    <2>2. f \in Frame
      BY <1>0, <2>1, ElementOfSeq
    <2>3. r \in Settled /\ r.kind # "pending" /\ (Readable(f) => r = f) /\ (~Readable(f) => r.kind = "fault")
      BY <2>2, KindsOfReads, ReadableKinds
    <2>4. Readable(r) <=> Readable(f)
      BY <2>3, ReadableKinds
    <2>5. pulled' <= Len(sent')
      BY <1>0, <2>1
    <2> HIDE DEF r
    <2>6. Legible' /\ Parked = <<>> /\ Parked' = IF Readable(r) THEN <<r>> ELSE <<>>
      BY <1>14, <2>1, <2>3, <2>5
    <2>7. taken = Yielded
      BY <1>4, <2>6 DEF SeenInOrder
    <2>8. Yielded' = IF Readable(f) THEN Append(taken, f) ELSE taken
      BY <2>1, <2>7, YieldedGrows DEF KeepReadable
    <2> HIDE DEF f
    <2>9. Append(taken, f) = taken \o <<f>> /\ taken \o <<>> = taken
      BY <1>0, <2>2, ConcatEmptySeq
    <2> QED BY <2>1, <2>3, <2>4, <2>6, <2>8, <2>9 DEF SeenInOrder
  <1>16. ASSUME NEW t \in DOMAIN reads, YieldEof(t) PROVE Legible' /\ SeenInOrder'
    <2>1. /\ Oldest(t) /\ reads' = [reads EXCEPT ![t] = Failed("eof")] /\ UNCHANGED <<taken, dangling, sent, pulled>>
      BY <1>16 DEF YieldEof, clientVars, hostVars
    <2>2. Failed("eof") \in Settled /\ Failed("eof").kind = "fault" /\ ~Readable(Failed("eof"))
      BY KindsOfReads, ReadableKinds
    <2>3. pulled' <= Len(sent')
      BY <2>1 DEF Legible
    <2>4. Legible' /\ Parked = <<>> /\ Parked' = <<>>
      BY <1>14, <2>1, <2>2, <2>3
    <2>5. Yielded' = Yielded
      BY <2>1 DEF Yielded
    <2> QED BY <2>1, <2>4, <2>5 DEF SeenInOrder
  <1>17. ASSUME UNCHANGED <<taken, dangling, reads, pulled>>, NEW f, sent' = Append(sent, f)
         PROVE  Legible' /\ SeenInOrder'
    <2>1. sent' \in Seq(Frame)
      BY TypesStep DEF Types
    <2>2. f \in Frame /\ Len(sent') = Len(sent) + 1
      <3>1. Len(sent') = Len(sent) + 1 /\ sent'[Len(sent) + 1] = f
        BY <1>0, <1>17
      <3>2. Len(sent) + 1 \in 1 .. Len(sent')
        BY <1>0, <3>1
      <3> QED BY <2>1, <3>1, <3>2, ElementOfSeq
    <2>3. Yielded' = Yielded
      BY <1>17, <2>2, YieldedStays DEF Legible
    <2>4. Parked' = Parked
      BY <1>17 DEF Parked
    <2>5. Legible'
      BY <1>0, <1>17, <2>2 DEF Legible
    <2> QED BY <1>17, <2>3, <2>4, <2>5 DEF SeenInOrder
  <1>18. CASE Host
    <2>1. ASSUME NEW f, Send(f) PROVE Legible' /\ SeenInOrder'
      BY <1>17, <2>1 DEF Send, clientVars
    <2>2. CASE HostCloses
      BY <1>1, <2>2 DEF HostCloses, clientVars
    <2> QED BY <1>18, <2>1, <2>2 DEF Host, HostAnswers, HostBabbles
  <1>19. CASE UNCHANGED vars
    BY <1>1, <1>19 DEF vars
  <1> QED BY <1>7, <1>8, <1>9, <1>10, <1>11, <1>12, <1>13, <1>15, <1>16, <1>18, <1>19
     DEF Next, Loops, Channel, Idle

(* No frame is lost or seen twice, in whatever order answers, timeouts and  *)
(* calls come: the read loops look at everything readable that the host has *)
(* sent and the generator has yielded, in order, and the one frame that is  *)
(* still to be looked at waits where the next call finds it                 *)
(* (#danglingRead, #receiveMatching).                                       *)
THEOREM FramesSeenOnce == Spec => []EveryFrameSeenOnce
  <1>1. Invariant /\ Legible /\ SeenInOrder /\ [Next]_vars => Legible' /\ SeenInOrder'
    BY SeenStep DEF Invariant
  <1>2. Spec => [](Legible /\ SeenInOrder)
    BY ClientInvariant, SeenInit, <1>1, PTL DEF Spec
  <1>3. SeenInOrder /\ OneChannelRead => EveryFrameSeenOnce
    BY DEF SeenInOrder, EveryFrameSeenOnce
  <1> QED BY <1>2, <1>3, OneReadOfTheChannel, PTL

==============================================================================
