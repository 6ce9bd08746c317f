------------------------------- MODULE Runner -------------------------------
(***************************************************************************)
(* The process that runs a factory for a host: the two ways in             *)
(* (src/bin/pbuilder-runner.ts, src/transport/bootstrap-bridge.ts), the    *)
(* guard against overlapping runs, the gates of runRunner                  *)
(* (src/transport/runner.ts) and the exit codes (exit-codes.ts).  Several  *)
(* attempts to run may be made in one process.  The run itself             *)
(* (RunBoundary) is here one request for work and one for the commit.      *)
(*                                                                         *)
(* Each attempt reads a byte stream of its own, which a host wrote as      *)
(* frames and which arrives in chunks (FrameReassembly).  What a gate      *)
(* looks at, an argument, a file, a module, is a choice.                   *)
(***************************************************************************)
EXTENDS FrameReassembly, SequencesExt

CONSTANTS
  Attempts,    \* calls of runRunner, direct, by the binary or by the bridge
  Hosts,       \* what the host of each attempt may send: frame bodies, and
               \* what follows the last complete frame, [bodies, tail]
  MaxChunk     \* bound: bytes in a chunk

(* Bytes that begin no frame, one that is not complete, or one that is     *)
(* declared to be over the cap.                                            *)
EndOfStream(bytes, ends) ==
  LET declares == Len(bytes) >= Prefix
      declared == bytes[1] * Base + bytes[2]
  IN CASE ends = "clean" -> bytes = <<>>
       [] ends = "short" -> bytes # <<>> /\ (declares => declared <= Cap /\ Len(bytes) < Prefix + declared)
       [] ends = "oversize" -> declares /\ declared > Cap

(* Any stream of bytes is frames within the cap and such a tail.           *)
ASSUME HostsAssumption ==
  \A a \in Attempts : \A wire \in Hosts[a] :
    /\ wire.bodies \in Seq(Seq(0..(Base - 1)))
    /\ \A i \in DOMAIN wire.bodies : Len(wire.bodies[i]) <= Cap
    /\ wire.tail.bytes \in Seq(0..(Base - 1)) /\ wire.tail.ends \in {"clean", "short", "oversize"}
    /\ EndOfStream(wire.tail.bytes, wire.tail.ends)

VARIABLES
  at,        \* where each attempt stands
  entry,     \* how it came in
  sent,      \* what the host of each attempt sends: [bodies, tail]
  fed,       \* how many bytes of it have arrived
  closed,    \* whether it has closed the stream after them
  reader,    \* the frame reader of each attempt
  frames,    \* the frames it has yielded
  taken,     \* how many of them the runner has consumed
  code,      \* the exit code, or the error that escapes
  inFlight,  \* runInFlight
  captured,  \* process.stdout is replaced, its writer kept for frames
  redirected,\* console.* writes to stderr
  stdout,    \* history: what descriptor 1 has carried; mixed: text after a frame
  asked      \* the requests each attempt has written

io == <<entry, sent, fed, closed, reader, frames>>
process == <<captured, redirected>>
vars == <<at, io, taken, code, inFlight, process, stdout, asked>>

Overlap == 5      \* OverlappingRunError, which no exit code stands for
Mismatch == 6     \* BridgeVersionMismatchError
NotOver == 7

Inside == {"arguments", "greeting", "probe", "import", "author", "answer"}

(* A host writes one frame after the other.                                *)
AddFrame(stream, body) == stream \o EncodeFrame(body)
Concat(bodies) == FoldLeft(AddFrame, <<>>, bodies)

Stream(a) == Concat(sent[a].bodies) \o sent[a].tail.bytes

-----------------------------------------------------------------------------
(* The process.                                                            *)

WriteFrame(a) ==
  stdout' = IF entry[a] = "direct" \/ stdout = "mixed" THEN stdout ELSE "frames"

(* Code in the process prints, by console or on process.stdout.            *)
Say ==
  /\ ~redirected \/ ~captured
  /\ stdout' = IF stdout \in {"untouched", "raw"} THEN "raw" ELSE "mixed"
  /\ UNCHANGED <<at, io, taken, code, inFlight, process, asked>>

(* Slips: the console is left alone; the guard is set and not looked at.   *)
ProtectStdoutOnly(e) ==
  /\ captured' = (captured \/ e # "direct")
  /\ UNCHANGED redirected

(* Both entries replace the standard output and the console before the     *)
(* guard and the gates; a test that calls runRunner brings its own writer. *)
Protect(e) ==
  /\ captured' = (captured \/ e # "direct")
  /\ redirected' = (redirected \/ e # "direct")

AdmitAlways(a) ==
  /\ at' = [at EXCEPT ![a] = "arguments"]
  /\ inFlight' = TRUE
  /\ UNCHANGED code

(* runRunner: an overlapping attempt rejects, untouched by any gate.       *)
Admit(a) ==
  IF inFlight
  THEN /\ at' = [at EXCEPT ![a] = "over"]
       /\ code' = [code EXCEPT ![a] = Overlap]
       /\ UNCHANGED inFlight
  ELSE /\ at' = [at EXCEPT ![a] = "arguments"]
       /\ inFlight' = TRUE
       /\ UNCHANGED code

(* The binary ends its process with its attempt, so there is only one.     *)
Start(a, e) ==
  /\ at[a] = "idle"
  /\ \A b \in Attempts : entry[b] # "bin" /\ (e = "bin" => entry[b] = "none")
  /\ entry' = [entry EXCEPT ![a] = e]
  /\ Protect(e)
  /\ Admit(a)
  /\ UNCHANGED <<sent, fed, closed, reader, frames, taken, stdout, asked>>

(* A bootstrap that expects another bridge is refused before anything.     *)
BridgeMismatch(a) ==
  /\ at[a] = "idle"
  /\ at' = [at EXCEPT ![a] = "over"]
  /\ code' = [code EXCEPT ![a] = Mismatch]
  /\ UNCHANGED <<io, taken, inFlight, process, stdout, asked>>

EndLeavesGuard(a, c) ==
  /\ at' = [at EXCEPT ![a] = "over"]
  /\ code' = [code EXCEPT ![a] = c]
  /\ UNCHANGED inFlight

(* However an attempt that was admitted ends, the finally clause frees the *)
(* process for the next.  (A slip, in EndLeavesGuard: it does not.)        *)
End(a, c) ==
  /\ at' = [at EXCEPT ![a] = "over"]
  /\ code' = [code EXCEPT ![a] = c]
  /\ inFlight' = FALSE

Pass(a, gate) ==
  /\ at' = [at EXCEPT ![a] = gate]
  /\ UNCHANGED <<code, inFlight>>

-----------------------------------------------------------------------------
(* Frames.                                                                 *)

(* The result of frames().next(), when there is one: the next frame, or    *)
(* how the stream ended.                                                   *)
Ready(a) ==
  IF taken[a] < Len(frames[a]) THEN {frames[a][taken[a] + 1]}
  ELSE IF reader[a].oversize THEN {"oversize"}
  ELSE IF closed[a] THEN {StreamEnd(reader[a])}
  ELSE {}

Take(a) == taken' = [taken EXCEPT ![a] = @ + 1]

(* A chunk is asked for only when the frames at hand are used up.          *)
Deliver(a, n) ==
  /\ at[a] \in {"greeting", "answer"} /\ Ready(a) = {}
  /\ fed[a] + n <= Len(Stream(a))
  /\ LET chunk == SubSeq(Stream(a), fed[a] + 1, fed[a] + n)
     IN /\ frames' = [frames EXCEPT ![a] = @ \o Yielded(reader[a], chunk)]
        /\ reader' = [reader EXCEPT ![a] = Feed(@, chunk)]
  /\ fed' = [fed EXCEPT ![a] = @ + n]
  /\ UNCHANGED <<at, entry, sent, closed, taken, code, inFlight, process, stdout, asked>>

(* The host closes its end, or never does.                                 *)
Close(a) ==
  /\ at[a] \in {"greeting", "answer"} /\ Ready(a) = {}
  /\ fed[a] = Len(Stream(a))
  /\ closed' = [closed EXCEPT ![a] = TRUE]
  /\ UNCHANGED <<at, entry, sent, fed, reader, frames, taken, code, inFlight, process, stdout, asked>>

TransportFault == {"malformed", "oversize", "short"}

-----------------------------------------------------------------------------
(* The gates.                                                              *)

(* parseArgv, resolveInput and the pointer, all before the first read.     *)
Arguments(a) ==
  /\ at[a] = "arguments"
  /\ Pass(a, "greeting") \/ End(a, 1)
  /\ UNCHANGED <<io, taken, process, stdout, asked>>

(* The greeting comes first and names the version, or nothing is run.      *)
Greeting(a) ==
  /\ at[a] = "greeting"
  /\ \E f \in Ready(a) :
        \/ f \in TransportFault /\ End(a, 3)
        \/ f \notin TransportFault \cup {"ready"} /\ End(a, 1)
        \/ f = "ready" /\ Pass(a, "probe")
  /\ Take(a)
  /\ UNCHANGED <<io, process, stdout, asked>>

Probe(a) ==
  /\ at[a] = "probe"
  /\ Pass(a, "import") \/ End(a, 1)
  /\ UNCHANGED <<io, taken, process, stdout, asked>>

(* A module that cannot be loaded, or exports no bare function, is a       *)
(* mistake of the author's; one whose top-level code throws has crashed.   *)
Import(a) ==
  /\ at[a] = "import"
  /\ Pass(a, "author") \/ End(a, 1) \/ End(a, 4)
  /\ UNCHANGED <<io, taken, process, stdout, asked>>

-----------------------------------------------------------------------------
(* The run.                                                                *)

(* A request for work, then, when fn has returned, the commit.             *)
Request(a) ==
  /\ at[a] = "author"
  /\ asked' = [asked EXCEPT ![a] = Append(@, IF @ = <<>> THEN "work" ELSE "commit")]
  /\ WriteFrame(a)
  /\ Pass(a, "answer")
  /\ UNCHANGED <<io, taken, process>>

(* A failed run asks for a discard, whose own failure it ignores.          *)
Fail(a, c) ==
  /\ asked' = [asked EXCEPT ![a] = Append(@, "discard")]
  /\ WriteFrame(a)
  /\ End(a, c)

(* classifyExitCode: 1 for what the author got wrong, 2 for what the host  *)
(* refused, 3 for the wire, 4 for anything else.                           *)
AuthorFails(a) ==
  /\ at[a] = "author"
  /\ Fail(a, 1) \/ Fail(a, 4)
  /\ UNCHANGED <<io, taken, process>>

AnswerTakenForGranted(a) ==
  /\ at[a] = "answer"
  /\ \E f \in Ready(a) :
        IF f \in TransportFault \cup {"clean"} THEN Fail(a, 3)
        ELSE /\ IF Len(asked[a]) = 1 THEN Pass(a, "author") ELSE End(a, 0)
             /\ UNCHANGED <<asked, stdout>>
  /\ Take(a)
  /\ UNCHANGED <<io, process>>

(* A frame that is neither answer is discarded, and a stream that ends     *)
(* while an answer is awaited is a fault.                                  *)
Answer(a) ==
  /\ at[a] = "answer"
  /\ \E f \in Ready(a) :
        \/ f \in TransportFault \cup {"clean"} /\ Fail(a, 3)
        \/ f = "refused" /\ Fail(a, 2)
        \/ /\ f = "ok"
           /\ IF Len(asked[a]) = 1 THEN Pass(a, "author") ELSE End(a, 0)
           /\ UNCHANGED <<asked, stdout>>
        \/ /\ f \in {"ready", "ready2"}
           /\ UNCHANGED <<at, code, inFlight, asked, stdout>>
  /\ Take(a)
  /\ UNCHANGED <<io, process>>

(* The timer of the awaited answer.                                        *)
Timeout(a) ==
  /\ at[a] = "answer"
  /\ Fail(a, 3)
  /\ UNCHANGED <<io, taken, process>>

-----------------------------------------------------------------------------
Init ==
  /\ at = [a \in Attempts |-> "idle"]
  /\ entry = [a \in Attempts |-> "none"]
  /\ sent \in {f \in [Attempts -> UNION {Hosts[a] : a \in Attempts}] :
                  \A a \in Attempts : f[a] \in Hosts[a]}
  /\ fed = [a \in Attempts |-> 0]
  /\ closed = [a \in Attempts |-> FALSE]
  /\ reader = [a \in Attempts |-> EmptyReader]
  /\ frames = [a \in Attempts |-> <<>>]
  /\ taken = [a \in Attempts |-> 0]
  /\ code = [a \in Attempts |-> NotOver]
  /\ inFlight = FALSE /\ captured = FALSE /\ redirected = FALSE
  /\ stdout = "untouched"
  /\ asked = [a \in Attempts |-> <<>>]

(* What the runner does by itself, timers included.                        *)
Own(a) == Arguments(a) \/ Greeting(a) \/ Probe(a) \/ Answer(a) \/ Timeout(a)

(* What waits for the author's code: his module's, then his function's.    *)
Author(a) == Import(a) \/ Request(a) \/ AuthorFails(a)

(* What waits for the host.                                                *)
Host(a) == Close(a) \/ \E n \in 1..MaxChunk : Deliver(a, n)

Advance(a) == Own(a) \/ Author(a) \/ Host(a)

Next ==
  \/ \E a \in Attempts :
        \/ \E e \in {"direct", "bin", "bridge"} : Start(a, e)
        \/ BridgeMismatch(a)
        \/ Advance(a)
  \/ Say

(* The event loop runs what is ready, and a timer fires.  Nothing is asked *)
(* of the host, which may fall silent at any byte and keep its stream      *)
(* open, nor of the author, whose code need never settle.                  *)
Spec == Init /\ [][Next]_vars /\ \A a \in Attempts : WF_vars(Own(a))

-----------------------------------------------------------------------------
(* Properties.                                                             *)

(* One run at a time is inside the gates, whatever the others do, and the  *)
(* guard is up exactly as long: no way out of a run leaves it up, and no   *)
(* refused attempt takes it down.                                          *)
OneRunAtATime ==
  /\ \A a, b \in Attempts : at[a] \in Inside /\ at[b] \in Inside => a = b
  /\ inFlight <=> \E a \in Attempts : at[a] \in Inside

(* However the bytes are cut into chunks, the frames are the ones the host *)
(* wrote, in order, and the end of the stream is told for what it was.     *)
ChunksDoNotMatter ==
  \A a \in Attempts :
     /\ frames[a] = [i \in 1..Len(frames[a]) |-> Decode(sent[a].bodies[i])]
     /\ fed[a] = Len(Stream(a)) =>
          /\ Len(frames[a]) = Len(sent[a].bodies)
          /\ StreamEnd(reader[a]) = sent[a].tail.ends

(* Exit code 0 is the host's acknowledgement of the commit, and no other   *)
(* end of a run has one: an answer to the work is never taken for it.      *)
ZeroMeansCommitted ==
  \A a \in Attempts :
     code[a] = 0 <=>
        /\ at[a] = "over" /\ asked[a] = <<"work", "commit">>
        /\ frames[a][taken[a]] = "ok"

(* The host can rely on descriptor 1: from the first frame on it carries   *)
(* nothing but frames, whatever code the process runs prints by console or *)
(* process.stdout.write (Say); a write to the descriptor itself, or by a   *)
(* reference to the writer saved before, is not modelled.                  *)
StdoutCarriesFramesOnly == stdout # "mixed"

(* No timer runs before the first request: until a greeting is complete or *)
(* the stream is closed, and until the author's code settles, a run waits. *)
AwaitsGreeting(a) == at[a] = "greeting" /\ Ready(a) = {}
AwaitsAuthor(a) == at[a] \in {"import", "author"}

(* An attempt that is admitted ends, and lets the next one in, unless its  *)
(* host for ever neither completes a greeting nor closes the stream, or    *)
(* its author's code never settles; past the greeting a silent host delays *)
(* a run for no longer than the timer of the request it does not answer.   *)
EveryRunEnds ==
  \/ []<>~inFlight
  \/ \E a \in Attempts : <>[]AwaitsGreeting(a) \/ <>[]AwaitsAuthor(a)

==============================================================================
