--------------------------- MODULE FrameReassembly ---------------------------
(***************************************************************************)
(* The framing of the wire: encodeFrame (src/transport/framing.ts) and the *)
(* reassembly of frames from chunks of any size by FrameReader             *)
(* (src/transport/frame-reader.ts).  A byte is a number below Base, the    *)
(* length prefix has two of them instead of four, and a body is one byte,  *)
(* its kind, and padding.                                                  *)
(***************************************************************************)
EXTENDS Naturals, Sequences

CONSTANTS
  Base,   \* the values of a byte
  Cap     \* the longest body a frame may declare

ASSUME FramingAssumption == Base \in Nat \ {0} /\ Cap \in 1..(Base * Base - 2)

Prefix == 2

(* What a body decodes to, by its first byte.  The others fail to parse.   *)
Meaning == <<"ready", "ready2", "ok", "refused">>

Decode(body) ==
  IF body # <<>> /\ Head(body) \in DOMAIN Meaning THEN Meaning[Head(body)] ELSE "malformed"

EncodeFrame(body) == <<Len(body) \div Base, Len(body) % Base>> \o body

(* Everything a buffer yields: its complete frames, in order, then what is *)
(* left of it, and whether a declared length ended the stream.             *)
DrainCompleteFrames(buffer) ==
  LET from[i \in 0..Len(buffer)] ==
        IF Len(buffer) - i < Prefix
        THEN [frames |-> <<>>, rest |-> i, oversize |-> FALSE]
        ELSE LET declared == buffer[i + 1] * Base + buffer[i + 2]
                 next == i + Prefix + declared
             IN IF declared > Cap
                THEN [frames |-> <<>>, rest |-> i, oversize |-> TRUE]
                ELSE IF Len(buffer) < next
                THEN [frames |-> <<>>, rest |-> i, oversize |-> FALSE]
                ELSE LET body == SubSeq(buffer, i + Prefix + 1, next)
                     IN [from[next] EXCEPT !.frames = <<Decode(body)>> \o @]
  IN from[0]

(* The reader's state after one more chunk: the buffer is what the last    *)
(* drain left, and a reader that has thrown takes nothing more.            *)
EmptyReader == [buffer |-> <<>>, oversize |-> FALSE]

(* A slip: what a drain leaves over is dropped.                            *)
FeedForgets(reader, chunk) ==
  [buffer |-> <<>>, oversize |-> DrainCompleteFrames(reader.buffer \o chunk).oversize]

Feed(reader, chunk) ==
  LET drained == DrainCompleteFrames(reader.buffer \o chunk)
  IN IF reader.oversize THEN reader
     ELSE [buffer |-> SubSeq(reader.buffer \o chunk, drained.rest + 1,
                             Len(reader.buffer) + Len(chunk)),
           oversize |-> drained.oversize]

Yielded(reader, chunk) ==
  IF reader.oversize THEN <<>> ELSE DrainCompleteFrames(reader.buffer \o chunk).frames

(* What ends the frames, once the source has ended.                        *)
StreamEnd(reader) ==
  IF reader.oversize THEN "oversize"
  ELSE IF reader.buffer = <<>> THEN "clean" ELSE "short"

==============================================================================
