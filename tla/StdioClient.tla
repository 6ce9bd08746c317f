------------------------------ MODULE StdioClient ------------------------------
(***************************************************************************)
(* The transport to the real engine: StdioEngineClient                     *)
(* (src/transport/stdio-engine-client.ts) over the channel of runner.ts    *)
(* and the frames a FrameReader yields.                                    *)
(*                                                                         *)
(* Calls are chained: one is dispatched when the one before has settled.   *)
(* A dispatched call writes a request and runs a read loop until a frame   *)
(* carries its id or its timer fires; then the loop is abandoned, and the  *)
(* channel read it waits for is left to the next call.                     *)
(*                                                                         *)
(* The host is arbitrary: it answers late, twice, with foreign or unknown  *)
(* frames, with frames that are malformed or too long, closes the stream,  *)
(* or stays silent.                                                        *)
(*                                                                         *)
(* Steps are the runs of the event loop between two awaits.  A timer fires *)
(* only when no continuation is ready.                                     *)
(***************************************************************************)
EXTENDS Integers, SequencesExt

CONSTANTS
  MaxCalls,     \* bound: client calls made
  MaxFrames     \* bound: frames the host sends

ASSUME ClientAssumption ==
  /\ MaxCalls \in Nat
  /\ MaxFrames \in Nat

Calls == 1 .. MaxCalls
Foreign == MaxCalls        \* an id the client never mints
NoId == MaxCalls + 1
NoCall == 0
NoRead == 0

Fault == {"malformed", "oversize", "eof"}
Answer == {"ok", "refused"}
Failure == Fault \cup {"timeout", "cap"}

Response == [kind: {"response"}, id: 0 .. MaxCalls, answer: Answer]
Odd == [kind |-> "odd"]              \* no object, or not a response
Malformed == [kind |-> "malformed"]  \* a body that is no JSON
Oversize == [kind |-> "oversize"]    \* a length prefix over the cap
Frame == Response \cup {Odd, Malformed, Oversize}

Pending == [kind |-> "pending"]
Failed(why) == [kind |-> "fault", why |-> why]

VARIABLES
  made,       \* how many calls have been made
  over,       \* the calls that are emits over the batch budget
  queue,      \* calls made and not dispatched, the oldest first
  current,    \* the call dispatched and not settled, or NoCall
  status,     \* "none" until a call settles, then its outcome
  id,         \* the id of each call's request, or NoId
  nextId,     \* #nextRequestId
  waits,      \* the channel read each read loop awaits, or NoRead
  abandoned,  \* the calls whose loop was abandoned by a timeout
  reads,      \* every channel read issued, with what it settled to
  dangling,   \* #danglingRead: the read to be adopted, or NoRead
  reader,     \* whether the frame generator is "live" or "done"
  sent,       \* every frame the host has sent
  pulled,     \* how many of them the generator has taken
  closed,     \* whether the host has closed the stream
  timersFire, \* whether a timeout ever expires in this behaviour
  taken       \* history: the frames the read loops have looked at

clientVars == <<made, over, queue, current, status, id, nextId, waits, abandoned, dangling>>
hostVars == <<sent, closed, timersFire>>
vars == <<made, over, queue, current, status, id, nextId, waits, abandoned, reads,
          dangling, reader, sent, pulled, closed, timersFire, taken>>

-----------------------------------------------------------------------------
(* The client.                                                             *)

(* Continuations on one promise run in the order they were attached, with  *)
(* nothing in between.                                                     *)
Ready(c) == waits[c] # NoRead /\ reads[waits[c]].kind # "pending"
First(c) == \A d \in Calls : d < c => ~Ready(d)
Quiet == \A d \in abandoned : ~Ready(d)

(* A public method is called: its dispatch joins the chain.                *)
Enqueue(tooBig) ==
  /\ made < MaxCalls
  /\ made' = made + 1
  /\ queue' = Append(queue, made + 1)
  /\ over' = IF tooBig THEN over \cup {made + 1} ELSE over
  /\ UNCHANGED <<current, status, id, nextId, waits, abandoned, reads, dangling,
                 reader, pulled, taken, hostVars>>

(* #danglingRead ??= #io.read(): the read left behind is adopted.          *)
Adopt(c) ==
  IF dangling # NoRead
  THEN /\ waits' = [waits EXCEPT ![c] = dangling]
       /\ UNCHANGED <<reads, dangling>>
  ELSE /\ reads' = Append(reads, Pending)
       /\ dangling' = Len(reads) + 1
       /\ waits' = [waits EXCEPT ![c] = Len(reads) + 1]

(* The next dispatch of the chain.  An emit over the budget fails here: no *)
(* id is minted and nothing is written.                                    *)
Dispatch ==
  /\ Quiet /\ current = NoCall /\ queue # <<>>
  /\ LET c == Head(queue)
     IN \/ /\ c \in over
           /\ status' = [status EXCEPT ![c] = "cap"]
           /\ UNCHANGED <<current, id, nextId, waits, reads, dangling>>
        \/ /\ c \notin over
           /\ id' = [id EXCEPT ![c] = nextId]
           /\ nextId' = nextId + 1
           /\ current' = c
           /\ Adopt(c)
           /\ UNCHANGED status
  /\ queue' = Tail(queue)
  /\ UNCHANGED <<made, over, abandoned, reader, pulled, taken, hostVars>>

Read(c) == reads[waits[c]]

End(c, outcome) ==
  /\ waits' = [waits EXCEPT ![c] = NoRead]
  /\ status' = [status EXCEPT ![c] = outcome]
  /\ current' = NoCall

(* A slip: a zombie loop swallows the frame it was waiting for.            *)
ZombieSwallows(c) ==
  /\ c \in abandoned /\ Ready(c) /\ First(c)
  /\ waits' = [waits EXCEPT ![c] = NoRead]
  /\ dangling' = NoRead
  /\ taken' = IF Read(c).kind = "fault" THEN taken ELSE Append(taken, Read(c))
  /\ UNCHANGED <<made, over, queue, current, status, id, nextId, abandoned, reads,
                 reader, pulled, hostVars>>

(* An abandoned loop ends when its read settles.  It leaves a frame where  *)
(* the next call finds it, and forgets a failed read.                      *)
EndAbandoned(c) ==
  /\ c \in abandoned /\ Ready(c) /\ First(c)
  /\ waits' = [waits EXCEPT ![c] = NoRead]
  /\ dangling' = IF Read(c).kind = "fault" THEN NoRead ELSE dangling
  /\ UNCHANGED <<made, over, queue, current, status, id, nextId, abandoned, reads,
                 reader, pulled, taken, hostVars>>

(* A failed read rejects the call that waits for it.                       *)
ReadFails(c) ==
  /\ c \notin abandoned /\ Ready(c) /\ First(c)
  /\ Read(c).kind = "fault"
  /\ dangling' = NoRead
  /\ End(c, Read(c).why)
  /\ UNCHANGED <<made, over, queue, id, nextId, abandoned, reads, reader, pulled,
                 taken, hostVars>>

(* A slip: any response settles the call that waits.                       *)
MatchesAnyId(c, f) == f.kind = "response"

Matches(c, f) == f.kind = "response" /\ f.id = id[c]

(* A slip: the read that brought the answer is left to be adopted.         *)
TakeAnswerKeepsRead(c) ==
  /\ c \notin abandoned /\ Ready(c) /\ First(c)
  /\ Matches(c, Read(c))
  /\ taken' = Append(taken, Read(c))
  /\ End(c, Read(c).answer)
  /\ UNCHANGED <<made, over, queue, id, nextId, abandoned, reads, dangling, reader,
                 pulled, hostVars>>

TakeAnswer(c) ==
  /\ c \notin abandoned /\ Ready(c) /\ First(c)
  /\ Matches(c, Read(c))
  /\ taken' = Append(taken, Read(c))
  /\ dangling' = NoRead
  /\ End(c, Read(c).answer)
  /\ UNCHANGED <<made, over, queue, id, nextId, abandoned, reads, reader, pulled, hostVars>>

(* Anything else is discarded, and the loop reads on.                      *)
Discard(c) ==
  /\ c \notin abandoned /\ Ready(c) /\ First(c)
  /\ Read(c).kind # "fault" /\ ~Matches(c, Read(c))
  /\ taken' = Append(taken, Read(c))
  /\ reads' = Append(reads, Pending)
  /\ dangling' = Len(reads) + 1
  /\ waits' = [waits EXCEPT ![c] = Len(reads) + 1]
  /\ UNCHANGED <<made, over, queue, current, status, id, nextId, abandoned, reader,
                 pulled, hostVars>>

(* A slip: the first frame that comes in stops the timer.                  *)
TimeoutUntilFirstFrame ==
  /\ timersFire /\ taken = <<>>
  /\ current # NoCall
  /\ \A c \in Calls : ~Ready(c)
  /\ status' = [status EXCEPT ![current] = "timeout"]
  /\ abandoned' = abandoned \cup {current}
  /\ current' = NoCall
  /\ UNCHANGED <<made, over, queue, id, nextId, waits, reads, dangling, reader,
                 pulled, taken, hostVars>>

(* The bound on the wait.                                                  *)
Timeout ==
  /\ timersFire
  /\ current # NoCall
  /\ \A c \in Calls : ~Ready(c)
  /\ status' = [status EXCEPT ![current] = "timeout"]
  /\ abandoned' = abandoned \cup {current}
  /\ current' = NoCall
  /\ UNCHANGED <<made, over, queue, id, nextId, waits, reads, dangling, reader,
                 pulled, taken, hostVars>>

-----------------------------------------------------------------------------
(* The channel: frames().next(), whose requests the generator serves in    *)
(* the order they were made.                                               *)

Oldest(t) == reads[t].kind = "pending" /\ \A u \in 1 .. t - 1 : reads[u].kind # "pending"

Exhausted == reader = "done" \/ (closed /\ pulled = Len(sent))

(* A frame is yielded.  A malformed one fails this read and no other; an   *)
(* oversize one is thrown, which completes the generator.                  *)
Yield(t) ==
  /\ Oldest(t)
  /\ reader = "live" /\ pulled < Len(sent)
  /\ LET f == sent[pulled + 1]
     IN /\ reads' = [reads EXCEPT ![t] = IF f \in {Malformed, Oversize} THEN Failed(f.kind) ELSE f]
        /\ reader' = IF f = Oversize THEN "done" ELSE "live"
  /\ pulled' = pulled + 1
  /\ UNCHANGED <<taken, clientVars, hostVars>>

(* The stream has ended, in the middle of a frame or not: reads fail.      *)
YieldEof(t) ==
  /\ Oldest(t)
  /\ Exhausted
  /\ reads' = [reads EXCEPT ![t] = Failed("eof")]
  /\ reader' = "done"
  /\ UNCHANGED <<pulled, taken, clientVars, hostVars>>

-----------------------------------------------------------------------------
(* The host.                                                               *)

Send(f) ==
  /\ ~closed /\ Len(sent) < MaxFrames
  /\ sent' = Append(sent, f)
  /\ UNCHANGED <<clientVars, reads, reader, pulled, closed, timersFire, taken>>

HostAnswers(c, answer) ==
  /\ id[c] # NoId
  /\ Send([kind |-> "response", id |-> id[c], answer |-> answer])

HostBabbles ==
  \E f \in {Odd, Malformed, Oversize, [kind |-> "response", id |-> Foreign, answer |-> "ok"]} :
    Send(f)

HostCloses ==
  /\ ~closed
  /\ closed' = TRUE
  /\ UNCHANGED <<clientVars, reads, reader, sent, pulled, timersFire, taken>>

-----------------------------------------------------------------------------
Init ==
  /\ made = 0 /\ over = {} /\ queue = <<>> /\ current = NoCall
  /\ status = [c \in Calls |-> "none"]
  /\ id = [c \in Calls |-> NoId] /\ nextId = 0
  /\ waits = [c \in Calls |-> NoRead] /\ abandoned = {}
  /\ reads = <<>> /\ dangling = NoRead /\ reader = "live"
  /\ sent = <<>> /\ pulled = 0 /\ closed = FALSE /\ taken = <<>> /\ timersFire \in BOOLEAN

Loops ==
  \E c \in Calls : EndAbandoned(c) \/ ReadFails(c) \/ TakeAnswer(c) \/ Discard(c)

Channel == \E t \in DOMAIN reads : Yield(t) \/ YieldEof(t)

Host ==
  \/ \E c \in Calls, answer \in Answer : HostAnswers(c, answer)
  \/ HostBabbles
  \/ HostCloses

Idle == current = NoCall /\ queue = <<>> /\ UNCHANGED vars

Next ==
  \/ \E tooBig \in BOOLEAN : Enqueue(tooBig)
  \/ Dispatch
  \/ Loops
  \/ Timeout
  \/ Channel
  \/ Host
  \/ Idle

(* The event loop runs what is ready, delivers what has arrived and fires  *)
(* the timers.  Nothing is asked of the host or of the callers.            *)
Fairness ==
  /\ WF_vars(Dispatch) /\ WF_vars(Loops) /\ WF_vars(Channel) /\ WF_vars(Timeout)

Spec == Init /\ [][Next]_vars /\ Fairness

-----------------------------------------------------------------------------
(* Properties.                                                             *)

(* Two read loops never interleave over the channel: one read of it at     *)
(* most is outstanding, however many loops a timeout has abandoned.        *)
OneChannelRead ==
  \A t, u \in DOMAIN reads : reads[t] = Pending /\ reads[u] = Pending => t = u

Readable(f) == f \in Response \cup {Odd}
Parked == IF dangling # NoRead /\ Readable(reads[dangling]) THEN <<reads[dangling]>> ELSE <<>>

(* The readable ones among the frames the generator has yielded, in order. *)
KeepReadable(kept, f) == IF Readable(f) THEN Append(kept, f) ELSE kept
Yielded == FoldLeft(KeepReadable, <<>>, SubSeq(sent, 1, pulled))

(* No frame is lost or seen twice, and a malformed one is not seen at all: *)
(* what the read loops have looked at, then the frame parked by an         *)
(* abandoned loop, is in order everything readable that the generator has  *)
(* yielded; and two loops never interleave.                                *)
EveryFrameSeenOnce ==
  /\ taken \o Parked = Yielded
  /\ OneChannelRead

(* A frame that answers the waiting call is never discarded: not by a      *)
(* zombie loop, nor by the call itself.                                    *)
AnswerNotMissed ==
  current # NoCall => \A i \in DOMAIN taken : ~Matches(current, taken[i])

Owner(i) == CHOOSE c \in Calls : id[c] = i
Given == {<<Owner(sent[i].id), sent[i].answer>> :
            i \in {j \in DOMAIN sent : sent[j].kind = "response" /\ sent[j].id # Foreign}}

Serial == INSTANCE SerialCalls WITH
  Answers  <- Answer,
  Failures <- Failure,
  line     <- (IF current = NoCall THEN <<>> ELSE <<current>>) \o queue,
  result   <- status,
  given    <- Given

(* Calls settle in the order they were made, once, and with an answer to   *)
(* their own request or a failure: what RunBoundary takes for granted.     *)
ImplementsSerialCalls == Serial!SSpec

(* Every call settles, whatever the host does or fails to do, because its  *)
(* timer fires at the latest; and once the stream has ended, waiting calls *)
(* and those made later fail without waiting for their timers.             *)
EveryCallSettles ==
  \A c \in Calls : c <= made /\ (timersFire \/ closed) ~> status[c] # "none"

================================================================================
