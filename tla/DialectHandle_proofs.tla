------------------------- MODULE DialectHandle_proofs -------------------------
(* Theorems about DialectHandle: for any set of handles, steps and files,   *)
(* and however the calls of the handles interleave.                         *)
EXTENDS DialectHandle, SequenceTheorems, TLAPS

Points == {"idle", "queued", "flushing", "flushed", "refused", "reading", "loaded", "ready", "edited"}
Phases == {"fn", "drain", "flushing", "flushed", "committed", "failed"}

IsSequence(s) == s \in Seq({s[i] : i \in DOMAIN s})

Types ==
  /\ phase \in Phases /\ failure \in BOOLEAN
  /\ pc \in [Handles -> Points]
  /\ rejected \in [Handles -> BOOLEAN] /\ settled \in [Handles -> BOOLEAN]
  /\ IsSequence(calls)

(* A failure stays visible in the handle it rejected; past the drain there  *)
(* is no such handle, and nothing is left to begin there.                   *)
Ended ==
  /\ failure => \E h \in Handles : rejected[h]
  /\ \A h \in Handles : settled[h] => pc[h] = "idle"
  /\ phase \in {"flushing", "flushed", "committed"} => \A h \in Handles : settled[h] /\ ~rejected[h]
  /\ phase # "committed" => kept = [h \in Handles |-> <<>>]

(* Whoever waits for a call waits for one, at the point that fits it.       *)
WaitsFor(c, run, at) ==
  \/ c.by = Main /\ c.kind = "emit" /\ run = "flushing"
  \/ c.by \in Handles /\ at[c.by] = (IF c.kind = "emit" THEN "flushing" ELSE "reading")

Calling ==
  /\ \A i \in 1 .. Len(calls) : WaitsFor(calls[i], phase, pc)
  /\ \A i, j \in 1 .. Len(calls) : calls[i].by = calls[j].by => i = j

Invariant == Types /\ Ended /\ Calling

-----------------------------------------------------------------------------
(* A function on 1..n is a sequence of its values.                          *)
LEMMA FunctionIsSequence ==
  ASSUME NEW n \in Nat, NEW f, f = [i \in 1 .. n |-> f[i]]
  PROVE  IsSequence(f) /\ Len(f) = n
  <1>1. f \in [1 .. n -> {f[i] : i \in DOMAIN f}]
    OBVIOUS
  <1>2. f \in Seq({f[i] : i \in DOMAIN f})
    BY <1>1
  <1> QED BY <1>2 DEF IsSequence

(* What a sequence of anything is after a call has joined it.               *)
LEMMA AppendToSequence ==
  ASSUME NEW s, IsSequence(s), NEW e
  PROVE  /\ IsSequence(Append(s, e)) /\ Len(s) \in Nat /\ Len(Append(s, e)) = Len(s) + 1
         /\ Append(s, e)[Len(s) + 1] = e /\ \A i \in 1 .. Len(s) : Append(s, e)[i] = s[i]
  <1> DEFINE S == {s[i] : i \in DOMAIN s}
             T == S \cup {e}
             a == Append(s, e)
  <1>1. s \in Seq(T)
    BY SeqMonotonic DEF IsSequence
  <1>2. /\ a \in Seq(T) /\ Len(a) = Len(s) + 1 /\ Len(s) \in Nat
        /\ a[Len(s) + 1] = e /\ \A i \in 1 .. Len(s) : a[i] = s[i]
    BY <1>1, AppendProperties, LenProperties
  <1>3. a = [i \in 1 .. Len(s) + 1 |-> a[i]]
    BY <1>2, LenProperties
  <1> QED BY <1>2, <1>3, FunctionIsSequence

(* What it is after the oldest call has left it.                            *)
LEMMA TailOfSequence ==
  ASSUME NEW s, IsSequence(s), s # <<>>
  PROVE  /\ IsSequence(Tail(s)) /\ Len(s) \in Nat /\ Len(s) > 0 /\ Len(Tail(s)) = Len(s) - 1
         /\ Head(s) = s[1] /\ \A i \in 1 .. Len(s) - 1 : Tail(s)[i] = s[i + 1]
  <1> DEFINE S == {s[i] : i \in DOMAIN s}
  <1>1. s \in Seq(S)
    BY DEF IsSequence
  <1>2. /\ Tail(s) \in Seq(S) /\ Len(Tail(s)) = Len(s) - 1 /\ Len(s) \in Nat /\ Len(s) > 0 /\ Head(s) = s[1]
        /\ \A i \in 1 .. Len(s) - 1 : Tail(s)[i] = s[i + 1]
    BY <1>1, HeadTailProperties, EmptySeq, LenProperties
  <1>3. Tail(s) = [i \in 1 .. Len(s) - 1 |-> Tail(s)[i]]
    BY <1>2, LenProperties
  <1>4. Len(s) - 1 \in Nat
    BY <1>2
  <1> QED BY <1>2, <1>3, <1>4, FunctionIsSequence

(* The invariant holds at the start.                                        *)
LEMMA InvariantInit == Init => Invariant
  <1> SUFFICES ASSUME Init PROVE Invariant
    OBVIOUS
  <1>1. IsSequence(<<>>) /\ Len(<<>>) = 0
    BY DEF IsSequence
  <1>2. Types
    BY <1>1 DEF Init, Types, Points, Phases
  <1> QED BY <1>1, <1>2 DEF Init, Invariant, Ended, Calling

(* A step of a handle that is not waiting for a call, and makes none.       *)
Quietly(h, p) ==
  /\ ~settled[h] /\ pc[h] \notin {"flushing", "reading"} /\ p \in Points
  /\ pc' = [pc EXCEPT ![h] = p]
  /\ \/ UNCHANGED <<failure, rejected>>
     \/ failure' = TRUE /\ rejected' = [rejected EXCEPT ![h] = TRUE]
  /\ UNCHANGED <<phase, settled, calls, kept>>

(* Such a step is none of the callers'.                                     *)
LEMMA QuietStep ==
  ASSUME Invariant, NEW h \in Handles, NEW p, Quietly(h, p)
  PROVE  Invariant'
  <1>1. Types'
    BY DEF Invariant, Types, Quietly
  <1>2. Ended'
    BY DEF Invariant, Types, Ended, Quietly
  <1>3. ASSUME NEW i \in 1 .. Len(calls) PROVE WaitsFor(calls[i], phase', pc')
    <2>1. WaitsFor(calls[i], phase, pc)
      BY DEF Invariant, Calling
    <2> QED BY <2>1 DEF WaitsFor, Quietly, Invariant, Types
  <1>4. Calling'
    BY <1>3 DEF Invariant, Calling, Quietly
  <1> QED BY <1>1, <1>2, <1>4 DEF Invariant

(* A step of a handle that makes a call and waits for it.                   *)
Calls(h, c, p) ==
  /\ ~settled[h] /\ pc[h] \notin {"flushing", "reading"}
  /\ c.by = h /\ p = (IF c.kind = "emit" THEN "flushing" ELSE "reading")
  /\ pc' = [pc EXCEPT ![h] = p]
  /\ calls' = Append(calls, c)
  /\ UNCHANGED <<phase, failure, rejected, settled, kept>>

(* The new call is the only one of its caller.                              *)
LEMMA CallStep ==
  ASSUME Invariant, NEW h \in Handles, NEW c, NEW p, Calls(h, c, p)
  PROVE  Invariant'
  <1>1. /\ IsSequence(calls') /\ Len(calls) \in Nat /\ Len(calls') = Len(calls) + 1
        /\ calls'[Len(calls) + 1] = c /\ \A i \in 1 .. Len(calls) : calls'[i] = calls[i]
    BY AppendToSequence DEF Invariant, Types, Calls
  <1>2. Types'
    BY <1>1 DEF Invariant, Types, Calls, Points
  <1>3. Ended'
    BY DEF Invariant, Types, Ended, Calls
  <1>4. ASSUME NEW i \in 1 .. Len(calls) PROVE WaitsFor(calls[i], phase, pc) /\ calls[i].by # h
    <2>1. WaitsFor(calls[i], phase, pc)
      BY <1>4 DEF Invariant, Calling
    <2> QED BY <2>1, HandleAssumption DEF WaitsFor, Calls
  <1>5. ASSUME NEW i \in 1 .. Len(calls') PROVE WaitsFor(calls'[i], phase', pc')
    <2>1. CASE i \in 1 .. Len(calls)
      BY <1>1, <1>4, <2>1 DEF WaitsFor, Calls, Invariant, Types
    <2>2. CASE i = Len(calls) + 1
      BY <1>1, <2>2 DEF WaitsFor, Calls, Invariant, Types
    <2> QED BY <1>1, <2>1, <2>2
  <1>6. ASSUME NEW i \in 1 .. Len(calls'), NEW j \in 1 .. Len(calls'), calls'[i].by = calls'[j].by PROVE i = j
    <2>1. \A k \in 1 .. Len(calls') : calls'[k].by = h <=> k = Len(calls) + 1
      BY <1>1, <1>4 DEF Calls
    <2>2. CASE i \in 1 .. Len(calls) /\ j \in 1 .. Len(calls)
      BY <1>1, <1>6, <2>2 DEF Invariant, Calling
    <2> QED BY <1>1, <1>6, <2>1, <2>2
  <1> QED BY <1>2, <1>3, <1>5, <1>6 DEF Invariant, Calling

-----------------------------------------------------------------------------
(* Every step of a handle is one or the other, but for its settling.        *)
LEMMA HandleKeeps ==
  ASSUME Invariant, NEW h \in Handles, HandleStep(h)
  PROVE  Invariant'
  <1>1. settled[h] => pc[h] = "idle"
    BY DEF Invariant, Ended
  <1>2. ASSUME NEW s \in Kinds, Enqueue(h, s) PROVE Invariant'
    <2>1. Quietly(h, "queued")
      BY <1>2 DEF Enqueue, Quietly, Points, engineVars
    <2> QED BY <2>1, QuietStep
  <1>3. ASSUME Reject(h) \/ (Finish(h) /\ Unharmed), pc[h] \notin {"idle", "flushing", "reading"},
               UNCHANGED <<phase, settled, calls, kept>>
        PROVE  Invariant'
    <2>1. Quietly(h, "idle")
      BY <1>1, <1>3 DEF Reject, Finish, Unharmed, Quietly, Points
    <2> QED BY <2>1, QuietStep
  <1>4. ASSUME NEW p \in Points, pc' = [pc EXCEPT ![h] = p], pc[h] \notin {"idle", "flushing", "reading"},
               UNCHANGED <<phase, failure, rejected, settled, calls, kept>>
        PROVE  Invariant'
    <2>1. Quietly(h, p)
      BY <1>1, <1>4 DEF Quietly
    <2> QED BY <2>1, QuietStep
  <1>5. CASE Skip(h)
    BY <1>3, <1>5 DEF Skip, engineVars
  <1>6. CASE Wholesale(h)
    BY <1>3, <1>6 DEF Wholesale, engineVars
  <1>7. CASE Enter(h)
    <2>1. CASE HasPending /\ pc' = [pc EXCEPT ![h] = "flushing"] /\ Flush(h)
      <3> DEFINE c == [kind |-> "emit", by |-> h, lo |-> spliced + 1, hi |-> Len(journal)]
      <3>1. Calls(h, c, "flushing")
        BY <1>1, <1>7, <2>1 DEF Enter, Flush, Calls
      <3> QED BY <3>1, CallStep
    <2>2. CASE UNCHANGED calls /\ \E p \in {"ready", "flushed"} : pc' = [pc EXCEPT ![h] = p]
      BY <1>4, <1>7, <2>2 DEF Enter, Points
    <2> QED BY <1>7, <2>1, <2>2 DEF Enter
  <1>8. CASE Ask(h)
    <2> DEFINE c == [kind |-> "read", by |-> h, lo |-> 1, hi |-> 0]
    <2>1. Calls(h, c, "reading")
      BY <1>1, <1>8 DEF Ask, Calls
    <2> QED BY <2>1, CallStep
  <1>9. CASE FlushRefused(h)
    BY <1>3, <1>9 DEF FlushRefused, engineVars
  <1>10. CASE ReadDone(h)
    BY <1>3, <1>10 DEF ReadDone, Unharmed, engineVars
  <1>11. CASE Load(h)
    BY <1>3, <1>4, <1>11 DEF Load, Unharmed, engineVars, Points
  <1>12. CASE Operate(h)
    BY <1>3, <1>4, <1>12 DEF Operate, Unharmed, engineVars, Points
  <1>13. CASE Register(h)
    <2>1. Reject(h) \/ (Finish(h) /\ Unharmed)
      BY <1>13 DEF Register, EnsureOpen
    <2> QED BY <1>3, <1>13, <2>1 DEF Register, engineVars
  <1>14. CASE Query(h)
    BY <1>3, <1>14 DEF Query, engineVars
  <1>15. CASE Settle(h)
    <2>1. /\ phase = "drain" /\ pc[h] = "idle" /\ settled' = [settled EXCEPT ![h] = TRUE]
          /\ rejected' = rejected \/ rejected' = [rejected EXCEPT ![h] = TRUE]
          /\ UNCHANGED <<phase, failure, pc, calls, kept>>
      BY <1>15 DEF Settle, engineVars
    <2>2. Types' /\ Ended'
      BY <2>1 DEF Invariant, Types, Ended
    <2> QED BY <2>1, <2>2 DEF Invariant, Calling, WaitsFor
  <1> QED BY <1>2, <1>5, <1>6, <1>7, <1>8, <1>9, <1>10, <1>11, <1>12, <1>13, <1>14, <1>15 DEF HandleStep

(* The oldest call is served: whoever waits for it goes on.                 *)
LEMMA ServeKeeps ==
  ASSUME Invariant, ServeEmit \/ ServeRead
  PROVE  Invariant'
  <1> DEFINE b == Head(calls)
  <1>1. calls # <<>> /\ calls' = Tail(calls) /\ UNCHANGED <<failure, rejected, settled, kept>>
    BY DEF ServeEmit, ServeRead
  <1>2. /\ IsSequence(calls') /\ Len(calls) \in Nat /\ Len(calls) > 0 /\ Len(calls') = Len(calls) - 1
        /\ b = calls[1] /\ \A i \in 1 .. Len(calls) - 1 : calls'[i] = calls[i + 1]
    BY <1>1, TailOfSequence DEF Invariant, Types
  <1>3. WaitsFor(b, phase, pc)
    BY <1>2 DEF Invariant, Calling
  <1>4. \A i \in 1 .. Len(calls') : calls'[i] = calls[i + 1] /\ WaitsFor(calls[i + 1], phase, pc) /\ calls[i + 1].by # b.by
    BY <1>2 DEF Invariant, Calling
  <1>5. \A i, j \in 1 .. Len(calls') : calls'[i].by = calls'[j].by => i = j
    BY <1>2, <1>4 DEF Invariant, Calling
  <1>6. ASSUME b.by \in Handles, phase' = phase, NEW p \in Points, pc' = [pc EXCEPT ![b.by] = p]
        PROVE  Invariant'
    <2>1. ~settled[b.by]
      BY <1>3, <1>6, HandleAssumption DEF WaitsFor, Invariant, Ended
    <2>2. Types'
      BY <1>1, <1>2, <1>6 DEF Invariant, Types
    <2>3. Ended'
      BY <1>1, <1>6, <2>1 DEF Invariant, Types, Ended
    <2>4. \A i \in 1 .. Len(calls') : WaitsFor(calls'[i], phase', pc')
      BY <1>4, <1>6 DEF WaitsFor, Invariant, Types
    <2> QED BY <1>5, <2>2, <2>3, <2>4 DEF Invariant, Calling
  <1>7. ASSUME b.by = Main, phase = "flushing", phase' \in {"flushed", "failed"}, pc' = pc
        PROVE  Invariant'
    <2>1. Len(calls') = 0
      <3>1. ASSUME NEW i \in 1 .. Len(calls') PROVE FALSE
        <4>1. WaitsFor(calls[i + 1], phase, pc) /\ calls[i + 1].by # Main
          BY <1>4, <1>7
        <4>2. calls[i + 1].by \in Handles /\ pc[calls[i + 1].by] # "idle"
          BY <4>1 DEF WaitsFor
        <4> QED BY <1>7, <4>2 DEF Invariant, Ended
      <3> QED BY <1>2, <3>1
    <2>2. Types'
      BY <1>1, <1>2, <1>7 DEF Invariant, Types, Phases
    <2>3. Ended'
      BY <1>1, <1>7 DEF Invariant, Types, Ended
    <2> QED BY <2>1, <2>2, <2>3 DEF Invariant, Calling
  <1>8. CASE ServeEmit
    <2>1. b.kind = "emit"
      BY <1>8 DEF ServeEmit
    <2>2. CASE b.by = Main
      <3>1. phase' \in {"flushed", "failed"} /\ pc' = pc
        BY <1>8, <2>2 DEF ServeEmit
      <3>2. phase = "flushing"
        BY <1>3, <2>2, HandleAssumption DEF WaitsFor
      <3> QED BY <1>7, <2>2, <3>1, <3>2
    <2>3. CASE b.by # Main
      <3>1. phase' = phase /\ \E p \in {"flushed", "refused"} : pc' = [pc EXCEPT ![b.by] = p]
        BY <1>8, <2>3 DEF ServeEmit
      <3>2. b.by \in Handles
        BY <1>3, <2>3 DEF WaitsFor
      <3> QED BY <1>6, <3>1, <3>2 DEF Points
    <2> QED BY <2>2, <2>3
  <1>9. CASE ServeRead
    <2>1. b.kind = "read" /\ phase' = phase /\ pc' = [pc EXCEPT ![b.by] = "loaded"]
      BY <1>9 DEF ServeRead
    <2>2. b.by \in Handles
      BY <1>3, <2>1 DEF WaitsFor
    <2> QED BY <1>6, <2>1, <2>2 DEF Points
  <1> QED BY <1>8, <1>9

(* The run boundary: only a run whose handles are all settled, and none     *)
(* rejected, goes on to its last flush.                                     *)
LEMMA RunKeeps ==
  ASSUME Invariant, Measure \/ Return \/ Throw \/ Drained \/ CommitRun
  PROVE  Invariant'
  <1>1. UNCHANGED <<failure, rejected, settled, pc>>
    BY DEF Measure, Return, Throw, Drained, CommitRun, handleVars
  <1>2. ASSUME UNCHANGED <<calls, kept>>, phase \in {"fn", "drain"}, phase' \in {"fn", "drain", "failed"} PROVE Invariant'
    <2>1. Types' /\ Ended'
      BY <1>1, <1>2 DEF Invariant, Types, Ended, Phases
    <2>2. \A i \in 1 .. Len(calls) : WaitsFor(calls[i], phase', pc')
      BY <1>1, <1>2 DEF Invariant, Calling, WaitsFor
    <2> QED BY <1>2, <2>1, <2>2 DEF Invariant, Calling
  <1>3. CASE Measure \/ Return \/ Throw
    BY <1>2, <1>3 DEF Measure, Return, Throw, engineVars
  <1>4. CASE Drained
    <2>1. phase = "drain" /\ kept' = kept /\ \A h \in Handles : settled[h] /\ pc[h] = "idle"
      BY <1>4 DEF Drained, Invariant, Ended
    <2>2. Len(calls) = 0 /\ calls = <<>>
      <3>1. Len(calls) \in Nat /\ (Len(calls) = 0 => calls = <<>>)
        BY EmptySeq, LenProperties DEF Invariant, Types, IsSequence
      <3>2. ASSUME NEW i \in 1 .. Len(calls) PROVE FALSE
        <4>1. WaitsFor(calls[i], phase, pc)
          BY DEF Invariant, Calling
        <4> QED BY <2>1, <4>1 DEF WaitsFor
      <3> QED BY <3>1, <3>2
    <2>3. CASE \E h \in Handles : rejected[h]
      BY <1>2, <1>4, <2>1, <2>3 DEF Drained
    <2>4. CASE ~ \E h \in Handles : rejected[h]
      <3>1. Ended'
        BY <1>1, <1>4, <2>1, <2>4 DEF Drained, Invariant, Ended
      <3>2. CASE HasPending
        <4> DEFINE c == [kind |-> "emit", by |-> Main, lo |-> spliced + 1, hi |-> Len(journal)]
        <4>1. phase' = "flushing" /\ calls' = Append(calls, c)
          BY <1>4, <2>4, <3>2 DEF Drained, Flush
        <4>2. WaitsFor(c, phase', pc')
          BY <4>1 DEF WaitsFor
        <4> HIDE DEF c
        <4>3. IsSequence(calls') /\ Len(calls') = 1 /\ calls'[1] = c
          <5>1. /\ IsSequence(calls') /\ Len(calls') = Len(calls) + 1
                /\ calls'[Len(calls) + 1] = c
            BY <4>1, AppendToSequence DEF Invariant, Types
          <5> QED BY <2>2, <5>1
        <4>4. Types'
          BY <1>1, <4>1, <4>3 DEF Invariant, Types, Phases
        <4>5. Calling'
          BY <4>2, <4>3 DEF Calling
        <4> QED BY <3>1, <4>4, <4>5 DEF Invariant
      <3>3. CASE ~HasPending
        <4>1. phase' = "flushed" /\ calls' = calls
          BY <1>4, <2>4, <3>3 DEF Drained
        <4>2. Types'
          BY <1>1, <4>1 DEF Invariant, Types, Phases
        <4>3. Calling'
          BY <2>2, <4>1 DEF Calling
        <4> QED BY <3>1, <4>2, <4>3 DEF Invariant
      <3> QED BY <3>2, <3>3
    <2> QED BY <2>3, <2>4
  <1>5. CASE CommitRun
    <2>1. phase = "flushed" /\ phase' = "committed" /\ calls' = calls
      BY <1>5 DEF CommitRun
    <2>2. Types' /\ Ended'
      BY <1>1, <2>1 DEF Invariant, Types, Ended, Phases
    <2>3. \A i \in 1 .. Len(calls) : WaitsFor(calls[i], phase', pc')
      BY <1>1, <2>1 DEF Invariant, Calling, WaitsFor
    <2> QED BY <2>1, <2>2, <2>3 DEF Invariant, Calling
  <1> QED BY <1>3, <1>4, <1>5

-----------------------------------------------------------------------------
(* The three parts of the invariant, together.                              *)
THEOREM HandleInvariant == Spec => []Invariant
  <1>1. ASSUME Invariant, [Next]_vars PROVE Invariant'
    <2>1. CASE UNCHANGED vars
      BY <1>1, <2>1 DEF Invariant, Types, Ended, Calling, WaitsFor, vars, handleVars, engineVars
    <2> QED BY <1>1, <2>1, HandleKeeps, ServeKeeps, RunKeeps DEF Next
  <1> QED BY InvariantInit, <1>1, PTL DEF Spec

(* Once a step of any handle has failed (#chain keeps the first failure),   *)
(* the run is not committed, whatever the other handles had begun.          *)
THEOREM FailedEditWritesNothing == Spec => []FailureIsFinal
  <1>1. Invariant => FailureIsFinal
    BY DEF Invariant, Ended, FailureIsFinal
  <1> QED BY HandleInvariant, <1>1, PTL

-----------------------------------------------------------------------------
(* What a run that may still succeed holds.                                 *)

Contents == Seq(Nat)
Directives == [by : Handles, op : {"modify", "remove"}, content : Contents \cup {None, Gone}]

Shapes ==
  /\ chain \in [Handles -> Seq(Kinds)] /\ \A h \in Handles : Now(h) <= MaxSteps
  /\ live \in [Handles -> Contents \cup {None}] /\ emitted \in [Handles -> Contents \cup {None}]
  /\ file \in [Handles -> Contents \cup {Gone}] /\ got \in [Handles -> Contents \cup {None, Gone}]
  /\ open \in [Handles -> Nat] /\ journal \in Seq(Directives)
  /\ spliced \in 0 .. Len(journal) /\ applied \in 0 .. spliced

(* The batches on their way divide what has been flushed and not applied,   *)
(* in order; a read travels behind all directives of its handle.            *)
Carries(c, k) == c.kind = "emit" /\ c.lo <= k /\ k <= c.hi

Ranges ==
  /\ \A i \in 1 .. Len(calls) : calls[i].kind = "emit" =>
       /\ calls[i].lo \in applied + 1 .. spliced /\ calls[i].hi \in calls[i].lo .. spliced
       /\ \A j \in 1 .. i - 1 : calls[j].kind = "emit" => calls[j].hi < calls[i].lo
  /\ \A k \in applied + 1 .. spliced : \E i \in 1 .. Len(calls) : Carries(calls[i], k)
  /\ \A i \in 1 .. Len(calls) : calls[i].kind = "read" =>
       \A k \in applied + 1 .. Len(journal) :
          journal[k].by = calls[i].by => \E j \in 1 .. i - 1 : Carries(calls[j], k)

(* A directive without content is the open one of its handle.               *)
Opened(h) ==
  /\ open[h] # 0 => /\ open[h] <= Len(journal) /\ live[h] # None
                    /\ journal[open[h]].by = h /\ journal[open[h]].content # Gone
  /\ \A k \in 1 .. Len(journal) :
       journal[k].by = h /\ journal[k].content = None => k = open[h] /\ k > applied
  /\ pc[h] # "idle" /\ Doing(h) \in Edits => ~Measured(h)

(* Where a step stands.                                                     *)
Standing(h) ==
  /\ pc[h] # "idle" => Now(h) > 0
  /\ pc[h] \in {"ready", "edited"} => live[h] # None /\ Doing(h) \notin {"read", "replace", "remove"}
  /\ pc[h] = "edited" => Doing(h) \in Edits
  /\ pc[h] \in {"flushing", "flushed", "reading", "loaded"} => Doing(h) \notin {"replace", "remove"} /\
       (Doing(h) # "read" => live[h] = None)
  /\ pc[h] \in {"flushing", "flushed"} => \A k \in spliced + 1 .. Len(journal) : journal[k].by # h
  /\ pc[h] = "loaded" => got[h] = file[h] /\ \A k \in applied + 1 .. Len(journal) : journal[k].by # h

(* The steps of h that have had their effect on the live document.          *)
Done(h) == IF pc[h] \in {"idle", "edited"} THEN Now(h) ELSE Now(h) - 1

(* What the next directive of h has to differ from.                         *)
Baseline(h) == IF open[h] = 0 THEN emitted[h] ELSE Memoized(journal[open[h]]).content

InStep(h) ==
  /\ Document[h] = Baseline(h)
  /\ live[h] = Replay(h, Done(h))
  /\ open[h] # 0 => \A k \in open[h] + 1 .. Len(journal) : journal[k].by # h

(* A live document is what its path holds, until it is left behind.         *)
Live(h) ==
  live[h] # None => InStep(h) \/ (Outdated(h) /\ (pc[h] = "idle" \/ Doing(h) \in {"read", "replace", "remove"}))

(* A directive on its way will not find its file: the run cannot succeed.   *)
Stuck(h) ==
  \E k \in applied + 1 .. Len(journal) :
     journal[k].by = h /\ After(file, applied + 1, k - 1)[h] = Gone

Told(h) ==
  \/ Stuck(h)
  \/ Document[h] = Replay(h, Done(h))
  \/ pc[h] = "edited" /\ Document[h] = Replay(h, Now(h) - 1)

Answered ==
  \A a \in answers : a.by \in Handles /\ a.at \in 1 .. Now(a.by) /\ a.saw = Replay(a.by, a.at - 1)

Finale ==
  /\ phase \in {"flushing", "flushed", "committed"} => spliced = Len(journal)
  /\ phase \in {"flushed", "committed"} => applied = spliced
  /\ phase = "committed" => kept = file

Hopeful ==
  /\ Shapes /\ Ranges /\ Answered /\ Finale
  /\ \A h \in Handles : Opened(h) /\ Standing(h) /\ Live(h) /\ Told(h)

-----------------------------------------------------------------------------
(* Replaying a chain, and walking through a journal.                        *)

(* The folds of the module Folding, over the steps of a chain and over the  *)
(* directives of a journal.                                                 *)
Steps == INSTANCE Folding WITH Step <- Edited
Puts == INSTANCE Folding WITH Step <- Put

(* What the first n steps of chain c make of the document.                  *)
Replayed(c, n) == FoldLeft(Edited, <<>>, [k \in 1 .. n |-> [does |-> c[k], number |-> k]])

(* Replaying a chain is a fold over its steps.                              *)
LEMMA ReplayFolds == \A b, s : FoldLeft(Edited, b, s) = Steps!Fold(b, s)
  BY DEF Steps!Fold, Edited, Edits, FoldLeft, MapThenFoldSet, Max, Steps!FoldLeft, Steps!MapThenFoldSet, Steps!Max

(* So is applying directives to the tree.                                   *)
LEMMA WalkFolds == \A b, s : FoldLeft(Put, b, s) = Puts!Fold(b, s)
  BY DEF Puts!Fold, Put, FoldLeft, MapThenFoldSet, Max, Puts!FoldLeft, Puts!MapThenFoldSet, Puts!Max

(* One more step of a chain.                                                *)
LEMMA ReplayOn ==
  ASSUME NEW c, NEW n \in Nat
  PROVE  Replayed(c, n + 1) = Edited(Replayed(c, n), [does |-> c[n + 1], number |-> n + 1])
  <1> DEFINE s == [k \in 1 .. n |-> [does |-> c[k], number |-> k]]
             t == [k \in 1 .. n + 1 |-> [does |-> c[k], number |-> k]]
  <1>1. /\ DOMAIN s = 1 .. n /\ DOMAIN t = 1 .. n + 1 /\ \A i \in 1 .. n : s[i] = t[i]
        /\ t[n + 1] = [does |-> c[n + 1], number |-> n + 1]
    OBVIOUS
  <1> HIDE DEF s, t
  <1>2. Steps!Fold(<<>>, t) = Edited(Steps!Fold(<<>>, s), t[n + 1])
    BY <1>1, Steps!FoldNext
  <1> QED BY <1>1, <1>2, ReplayFolds DEF Replayed, s, t

(* A chain of which nothing has been done leaves the document as loaded.    *)
LEMMA ReplayNothing == \A c : Replayed(c, 0) = <<>>
  <1>1. \A c : [k \in 1 .. 0 |-> [does |-> c[k], number |-> k]] = <<>>
    OBVIOUS
  <1> QED BY <1>1, ReplayFolds, Steps!FoldEmpty DEF Replayed

(* Only the steps replayed matter.                                          *)
LEMMA ReplaySame ==
  ASSUME NEW c, NEW d, NEW n, \A k \in 1 .. n : c[k] = d[k]
  PROVE  Replayed(c, n) = Replayed(d, n)
  <1>1. [k \in 1 .. n |-> [does |-> c[k], number |-> k]] = [k \in 1 .. n |-> [does |-> d[k], number |-> k]]
    OBVIOUS
  <1> QED BY <1>1 DEF Replayed

(* The replay of a handle is that of its chain.                             *)
LEMMA ReplayIs == \A h, n : Replay(h, n) = Replayed(chain[h], n)
  BY DEF Replay, Replayed

(* What a directive prints, if the live documents are lv.                   *)
ContentOf(d, lv) == IF d.content = None THEN lv[d.by] ELSE d.content
Prints(js, lv) == [i \in DOMAIN js |-> [js[i] EXCEPT !.content = IF @ = None THEN lv[js[i].by] ELSE @]]

(* The tree after directive i of js, if ap of them are in tree already.     *)
Walk(js, lv, tree, ap, i) == FoldLeft(Put, tree, SubSeq(Prints(js, lv), ap + 1, i))

(* Trees, and directives with the content they are printed with.            *)
Trees == [Handles -> Contents \cup {Gone}]
Printed == [by : Handles, op : {"modify", "remove"}, content : Contents \cup {Gone}]

(* A journal that can be walked: every open directive has a live document   *)
(* to be printed from.                                                      *)
Sound(js, lv, tree, ap) ==
  /\ js \in Seq(Directives) /\ lv \in [Handles -> Contents \cup {None}] /\ tree \in Trees /\ ap \in 0 .. Len(js)
  /\ \A k \in 1 .. Len(js) : js[k].content = None => lv[js[k].by] # None

(* Printing keeps the number, the order and the paths of the directives,    *)
(* and gives each a content.                                                *)
LEMMA PrintsAre ==
  ASSUME NEW js, NEW lv, NEW tree, NEW ap, Sound(js, lv, tree, ap)
  PROVE  /\ Prints(js, lv) \in Seq(Printed) /\ Len(Prints(js, lv)) = Len(js)
         /\ \A k \in 1 .. Len(js) : /\ Prints(js, lv)[k].by = js[k].by /\ Prints(js, lv)[k].content = ContentOf(js[k], lv)
                                    /\ Prints(js, lv)[k] \in Printed
  <1> DEFINE n == Len(js)
  <1>1. n \in Nat /\ DOMAIN js = 1 .. n /\ \A k \in 1 .. n : js[k] \in Directives
    BY DEF Sound
  <1>2. ASSUME NEW k \in 1 .. n
        PROVE  /\ Prints(js, lv)[k] = [js[k] EXCEPT !.content = ContentOf(js[k], lv)]
               /\ ContentOf(js[k], lv) \in Contents \cup {Gone}
    <2>1. Prints(js, lv)[k] = [js[k] EXCEPT !.content = ContentOf(js[k], lv)]
      BY <1>1 DEF Prints, ContentOf
    <2>2. ContentOf(js[k], lv) \in Contents \cup {Gone}
      <3>1. js[k].by \in Handles /\ js[k].content \in Contents \cup {None, Gone}
        BY <1>1 DEF Directives
      <3>2. lv[js[k].by] \in Contents \cup {None}
        BY <3>1 DEF Sound
      <3> QED BY <3>1, <3>2 DEF ContentOf, Sound
    <2> QED BY <2>1, <2>2
  <1>3. ASSUME NEW k \in 1 .. n
        PROVE  Prints(js, lv)[k].by = js[k].by /\ Prints(js, lv)[k].content = ContentOf(js[k], lv) /\
             Prints(js, lv)[k] \in Printed
    <2>1. js[k] \in Directives
      BY <1>1
    <2>2. ASSUME NEW d \in Directives, NEW v \in Contents \cup {Gone}, NEW w, w = [d EXCEPT !.content = v]
          PROVE  w.by = d.by /\ w.content = v /\ w \in Printed
      BY <2>2 DEF Directives, Printed
    <2>3. PICK v : v = ContentOf(js[k], lv)
      OBVIOUS
    <2>4. v \in Contents \cup {Gone} /\ Prints(js, lv)[k] = [js[k] EXCEPT !.content = v]
      BY <1>2, <2>3
    <2> QED BY <2>1, <2>2, <2>3, <2>4, Zenon
  <1>4. DOMAIN Prints(js, lv) = 1 .. n
    BY <1>1 DEF Prints
  <1>5. Prints(js, lv) \in [1 .. n -> Printed]
    <2>1. Prints(js, lv) = [i \in 1 .. n |-> Prints(js, lv)[i]]
      BY <1>1 DEF Prints
    <2> QED BY <1>3, <2>1
  <1>6. Prints(js, lv) \in Seq(Printed) /\ Len(Prints(js, lv)) = n
    BY <1>1, <1>4, <1>5, SeqDef, LenProperties
  <1> QED BY <1>3, <1>6

(* The walk starts at the tree.                                             *)
LEMMA WalkStarts ==
  ASSUME NEW js, NEW lv, NEW tree, NEW ap, Sound(js, lv, tree, ap)
  PROVE  Walk(js, lv, tree, ap, ap) = tree
  <1>1. Prints(js, lv) \in Seq(Printed) /\ ap \in Nat
    BY PrintsAre DEF Sound
  <1>2. SubSeq(Prints(js, lv), ap + 1, ap) = <<>>
    BY <1>1
  <1> QED BY <1>2, WalkFolds, Puts!FoldEmpty DEF Walk

(* One more directive.                                                      *)
LEMMA WalkOn ==
  ASSUME NEW js, NEW lv, NEW tree, NEW ap, Sound(js, lv, tree, ap), NEW i \in ap + 1 .. Len(js)
  PROVE  Walk(js, lv, tree, ap, i) = Put(Walk(js, lv, tree, ap, i - 1), Prints(js, lv)[i])
  <1> DEFINE P == Prints(js, lv)
             s == SubSeq(P, ap + 1, i - 1)
             t == SubSeq(P, ap + 1, i)
             n == (i - 1) - ap
  <1>1. P \in Seq(Printed) /\ Len(P) = Len(js) /\ ap \in Nat /\ i \in Nat /\ n \in Nat /\ i <= Len(P) /\ n + 1 = i - ap
    <2>1. P \in Seq(Printed) /\ Len(P) = Len(js)
      BY PrintsAre
    <2>2. ap \in Nat /\ js \in Seq(Directives)
      BY DEF Sound
    <2>3. Len(js) \in Nat
      BY <2>2
    <2> HIDE DEF P
    <2> QED BY <2>1, <2>2, <2>3
  <1> HIDE DEF P
  <1>2. /\ DOMAIN s = 1 .. n /\ DOMAIN t = 1 .. n + 1 /\ \A k \in 1 .. n : s[k] = t[k]
        /\ t[n + 1] = P[i]
    BY <1>1
  <1> HIDE DEF s, t, n
  <1>3. Puts!Fold(tree, t) = Put(Puts!Fold(tree, s), t[n + 1])
    BY <1>1, <1>2, Puts!FoldNext
  <1> QED BY <1>2, <1>3, WalkFolds DEF Walk, s, t, P

(* The walk ends at a tree.                                                 *)
LEMMA WalkTyped ==
  ASSUME NEW js, NEW lv, NEW tree, NEW ap, Sound(js, lv, tree, ap), NEW i \in ap .. Len(js)
  PROVE  Walk(js, lv, tree, ap, i) \in Trees
  <1> DEFINE s == SubSeq(Prints(js, lv), ap + 1, i)
  <1>1. /\ Prints(js, lv) \in Seq(Printed) /\ Len(Prints(js, lv)) = Len(js) /\ ap \in Nat /\ i \in Nat /\ i <= Len(js)
        /\ \A k \in 1 .. Len(js) : Prints(js, lv)[k] \in Printed
    BY PrintsAre DEF Sound
  <1>2. s \in Seq(Printed)
    <2>1. \A k \in ap + 1 .. i : Prints(js, lv)[k] \in Printed
      BY <1>1
    <2> QED BY <1>1, <2>1, SubSeqProperties
  <1>3. \A acc \in Trees, d \in Printed : Put(acc, d) \in Trees
    BY DEF Put, Trees, Printed
  <1>4. tree \in Trees
    BY DEF Sound
  <1> HIDE DEF s
  <1>5. Puts!Fold(tree, s) \in Trees
    BY <1>2, <1>3, <1>4, Puts!FoldInvariant
  <1> QED BY <1>5, WalkFolds DEF Walk, s

(* What it does to one handle.                                              *)
LEMMA WalkAt ==
  ASSUME NEW js, NEW lv, NEW tree, NEW ap, Sound(js, lv, tree, ap), NEW i \in ap + 1 .. Len(js), NEW h \in Handles
  PROVE  Walk(js, lv, tree, ap, i)[h]
           = IF js[i].by # h THEN Walk(js, lv, tree, ap, i - 1)[h]
             ELSE IF Walk(js, lv, tree, ap, i - 1)[h] = Gone THEN Gone ELSE ContentOf(js[i], lv)
  <1> DEFINE w == Walk(js, lv, tree, ap, i - 1)
             d == Prints(js, lv)[i]
  <1>1. ap \in Nat /\ Len(js) \in Nat /\ i \in 1 .. Len(js) /\ i - 1 \in ap .. Len(js)
    <2>1. ap \in Nat /\ js \in Seq(Directives)
      BY DEF Sound
    <2>2. Len(js) \in Nat
      BY <2>1
    <2> QED BY <2>1, <2>2
  <1>2. w \in Trees
    BY <1>1, WalkTyped
  <1>3. d.by = js[i].by /\ d.content = ContentOf(js[i], lv) /\ d \in Printed
    BY <1>1, PrintsAre
  <1>4. Walk(js, lv, tree, ap, i) = Put(w, d)
    BY WalkOn
  <1> HIDE DEF w, d
  <1>5. Put(w, d)[h] = IF d.by # h THEN w[h] ELSE IF w[h] = Gone THEN Gone ELSE d.content
    BY <1>2, <1>3 DEF Put, Trees, Printed
  <1> QED BY <1>3, <1>4, <1>5 DEF w

(* Two walks that have come to the same and go on with the same.            *)
LEMMA WalksAgree ==
  ASSUME NEW js, NEW lv, NEW tree, NEW ap, Sound(js, lv, tree, ap),
         NEW ks, NEW kv, NEW tree2, NEW ap2, Sound(ks, kv, tree2, ap2),
         NEW h \in Handles, NEW m \in Nat, NEW n \in Nat, ap <= m, ap2 <= m, m <= n, n <= Len(js), n <= Len(ks),
         Walk(js, lv, tree, ap, m)[h] = Walk(ks, kv, tree2, ap2, m)[h],
         \A k \in m + 1 .. n : js[k].by = ks[k].by /\ (js[k].by = h => ContentOf(js[k], lv) = ContentOf(ks[k], kv))
  PROVE  Walk(js, lv, tree, ap, n)[h] = Walk(ks, kv, tree2, ap2, n)[h]
  <1> DEFINE T == {d \in Nat : m + d <= n => Walk(js, lv, tree, ap, m + d)[h] = Walk(ks, kv, tree2, ap2, m + d)[h]}
  <1>0. ap \in Nat /\ ap2 \in Nat
    BY DEF Sound
  <1>1. 0 \in T
    OBVIOUS
  <1>2. ASSUME NEW d \in Nat, d \in T PROVE d + 1 \in T
    <2> SUFFICES ASSUME m + (d + 1) <= n
                 PROVE  Walk(js, lv, tree, ap, m + (d + 1))[h] = Walk(ks, kv, tree2, ap2, m + (d + 1))[h]
      OBVIOUS
    <2> DEFINE i == m + (d + 1)
    <2>1. /\ i \in ap + 1 .. Len(js) /\ i \in ap2 + 1 .. Len(ks) /\ i - 1 = m + d /\ m + d <= n /\ i \in m + 1 .. n
      <3>1. Len(js) \in Nat /\ Len(ks) \in Nat
        BY DEF Sound
      <3> QED BY <1>0, <3>1
    <2>2. Walk(js, lv, tree, ap, i - 1)[h] = Walk(ks, kv, tree2, ap2, i - 1)[h]
      BY <1>2, <2>1
    <2>3. js[i].by = ks[i].by /\ (js[i].by = h => ContentOf(js[i], lv) = ContentOf(ks[i], kv))
      BY <2>1
    <2> HIDE DEF i, T
    <2>4. Walk(js, lv, tree, ap, i)[h] = Walk(ks, kv, tree2, ap2, i)[h]
      BY <2>1, <2>2, <2>3, WalkAt
    <2> QED BY <2>4 DEF i
  <1>3. n - m \in Nat /\ m + (n - m) = n
    OBVIOUS
  <1> HIDE DEF T
  <1>4. n - m \in T
    BY <1>1, <1>2, <1>3, Steps!SetInduction
  <1> QED BY <1>3, <1>4 DEF T

(* A path of no directive stays as it is, a file that is gone stays gone.   *)
LEMMA WalkPasses ==
  ASSUME NEW js, NEW lv, NEW tree, NEW ap, Sound(js, lv, tree, ap),
         NEW h \in Handles, NEW m \in Nat, NEW n \in Nat, ap <= m, m <= n, n <= Len(js),
         \/ \A k \in m + 1 .. n : js[k].by # h
         \/ Walk(js, lv, tree, ap, m)[h] = Gone
  PROVE  Walk(js, lv, tree, ap, n)[h] = Walk(js, lv, tree, ap, m)[h]
  <1> DEFINE T == {d \in Nat : m + d <= n => Walk(js, lv, tree, ap, m + d)[h] = Walk(js, lv, tree, ap, m)[h]}
  <1>0. ap \in Nat /\ Len(js) \in Nat
    BY DEF Sound
  <1>1. 0 \in T
    OBVIOUS
  <1>2. ASSUME NEW d \in Nat, d \in T PROVE d + 1 \in T
    <2> SUFFICES ASSUME m + (d + 1) <= n
                 PROVE  Walk(js, lv, tree, ap, m + (d + 1))[h] = Walk(js, lv, tree, ap, m)[h]
      OBVIOUS
    <2> DEFINE i == m + (d + 1)
    <2>1. i \in ap + 1 .. Len(js) /\ i - 1 = m + d /\ m + d <= n /\ i \in m + 1 .. n
      BY <1>0
    <2>2. Walk(js, lv, tree, ap, i - 1)[h] = Walk(js, lv, tree, ap, m)[h]
      BY <1>2, <2>1
    <2>3. js[i].by # h \/ Walk(js, lv, tree, ap, m)[h] = Gone
      BY <2>1
    <2> HIDE DEF i, T
    <2>4. Walk(js, lv, tree, ap, i)[h] = Walk(js, lv, tree, ap, m)[h]
      BY <2>1, <2>2, <2>3, WalkAt
    <2> QED BY <2>4 DEF i
  <1>3. n - m \in Nat /\ m + (n - m) = n
    OBVIOUS
  <1> HIDE DEF T
  <1>4. n - m \in T
    BY <1>1, <1>2, <1>3, Steps!SetInduction
  <1> QED BY <1>3, <1>4 DEF T

-----------------------------------------------------------------------------
(* The walk of the present state.                                           *)

(* Where the walk of the present state is after directive i.                *)
Reached(i) == Walk(journal, live, file, applied, i)

(* The document is where the walk of the present state ends.                *)
LEMMA Reaching ==
  /\ \A i : After(file, applied + 1, i) = Reached(i)
  /\ Document = Reached(Len(journal))
  <1>1. Printing = Prints(journal, live)
    BY DEF Printing, Prints, Memoized
  <1> QED BY <1>1 DEF After, Document, Reached, Walk

(* The same in the state after a step.                                      *)
LEMMA ReachingNext == Document' = Walk(journal', live', file', applied', Len(journal'))
  <1>1. Printing' = Prints(journal', live')
    BY DEF Printing, Prints, Memoized
  <1> QED BY <1>1 DEF After, Document, Walk

(* In a hopeful state the journal can be walked.                            *)
LEMMA Sounds ==
  ASSUME Shapes, \A h \in Handles : Opened(h)
  PROVE  /\ Sound(journal, live, file, applied)
         /\ Len(journal) \in Nat /\ applied \in Nat /\ spliced \in Nat /\ applied <= spliced /\ spliced <= Len(journal)
         /\ \A k \in 1 .. Len(journal) : journal[k].by \in Handles
  <1>1. /\ Len(journal) \in Nat /\ applied \in Nat /\ spliced \in Nat /\ applied <= spliced /\ spliced <= Len(journal)
        /\ \A k \in 1 .. Len(journal) : journal[k] \in Directives
    BY DEF Shapes
  <1>2. \A k \in 1 .. Len(journal) : journal[k].by \in Handles
    BY <1>1 DEF Directives
  <1>3. ASSUME NEW k \in 1 .. Len(journal), journal[k].content = None
        PROVE  live[journal[k].by] # None
    <2> DEFINE h == journal[k].by
    <2>1. h \in Handles /\ open[h] = k
      BY <1>2, <1>3 DEF Opened
    <2>2. open[h] # 0
      BY <1>1, <2>1
    <2> QED BY <2>1, <2>2 DEF Opened
  <1>4. applied \in 0 .. Len(journal)
    BY <1>1
  <1>5. Sound(journal, live, file, applied)
    BY <1>3, <1>4 DEF Sound, Shapes, Trees
  <1> QED BY <1>1, <1>2, <1>5

(* A step that changes no printed directive of handle h.                    *)
Reprinted(h) ==
  /\ UNCHANGED <<file, applied>>
  /\ Len(journal) <= Len(journal')
  /\ \A k \in 1 .. Len(journal) :
       journal'[k].by = journal[k].by /\ (journal[k].by = h => ContentOf(journal'[k], live') = ContentOf(journal[k], live))

(* Such a step moves no point of the walk.                                  *)
LEMMA ReprintedReaches ==
  ASSUME Sound(journal, live, file, applied), Sound(journal, live, file, applied)', NEW h \in Handles, Reprinted(h),
         NEW i \in applied .. Len(journal)
  PROVE  Reached(i)'[h] = Reached(i)[h]
  <1>1. /\ applied \in Nat /\ Len(journal) \in Nat /\ Len(journal') \in Nat
        /\ applied' = applied /\ file' = file
    BY DEF Sound, Reprinted
  <1>2. Walk(journal', live', file, applied, applied) = file /\ Walk(journal, live, file, applied, applied) = file
    <2>1. Sound(journal', live', file, applied)
      BY <1>1
    <2> QED BY <2>1, WalkStarts
  <1>3. i \in Nat /\ applied <= i /\ i <= Len(journal) /\ i <= Len(journal')
    BY <1>1 DEF Reprinted
  <1>4. \A k \in applied + 1 .. i : k \in 1 .. Len(journal)
    BY <1>1, <1>3
  <1>5. \A k \in applied + 1 .. i : journal'[k].by = journal[k].by /\
       (journal'[k].by = h => ContentOf(journal'[k], live') = ContentOf(journal[k], live))
    BY <1>4 DEF Reprinted
  <1>6. Sound(journal', live', file, applied)
    BY <1>1
  <1>7. Walk(journal', live', file, applied, i)[h] = Walk(journal, live, file, applied, i)[h]
    BY <1>1, <1>2, <1>3, <1>5, <1>6, WalksAgree
  <1> QED BY <1>1, <1>7 DEF Reached

(* A handle that is stuck is stuck at the end of its journal.               *)
StuckThere(js, lv, tree, ap, h) ==
  \E k \in ap + 1 .. Len(js) : js[k].by = h /\ Walk(js, lv, tree, ap, k - 1)[h] = Gone

(* Being stuck is a fact about the walk of the present state.               *)
LEMMA StuckIs == \A h : Stuck(h) <=> StuckThere(journal, live, file, applied, h)
  BY Reaching DEF Stuck, StuckThere, Reached

(* The same in the state after a step.                                      *)
LEMMA StuckNext == \A h : Stuck(h)' <=> StuckThere(journal', live', file', applied', h)
  <1>1. Printing' = Prints(journal', live')
    BY DEF Printing, Prints, Memoized
  <1> QED BY <1>1 DEF After, Walk, Stuck, StuckThere

(* The document of a stuck handle is gone.                                  *)
LEMMA StuckIsGone ==
  ASSUME Sound(journal, live, file, applied), NEW h \in Handles, Stuck(h)
  PROVE  Document[h] = Gone
  <1>1. PICK k \in applied + 1 .. Len(journal) : Reached(k - 1)[h] = Gone
    BY Reaching DEF Stuck
  <1>2. applied \in Nat /\ Len(journal) \in Nat
    BY DEF Sound
  <1>3. k - 1 \in Nat /\ applied <= k - 1 /\ k - 1 <= Len(journal) /\ Len(journal) <= Len(journal)
    BY <1>2
  <1>4. Walk(journal, live, file, applied, Len(journal))[h] = Walk(journal, live, file, applied, k - 1)[h]
    BY <1>1, <1>2, <1>3, WalkPasses DEF Reached
  <1> QED BY <1>1, <1>4, Reaching DEF Reached

(* A handle of which nothing is on its way.                                 *)
LEMMA NothingUnderWay ==
  ASSUME Sound(journal, live, file, applied), NEW h \in Handles,
         \A k \in applied + 1 .. Len(journal) : journal[k].by # h
  PROVE  Document[h] = file[h] /\ ~Stuck(h)
  <1>1. applied \in Nat /\ Len(journal) \in Nat /\ applied <= Len(journal)
    BY DEF Sound
  <1>2. Walk(journal, live, file, applied, Len(journal))[h] = Walk(journal, live, file, applied, applied)[h]
    BY <1>1, WalkPasses
  <1>3. Document[h] = file[h]
    BY <1>2, WalkStarts, Reaching DEF Reached
  <1> QED BY <1>3 DEF Stuck

(* Such a step, for the document of h.                                      *)
LEMMA ReprintedStays ==
  ASSUME Sound(journal, live, file, applied), Sound(journal, live, file, applied)', NEW h \in Handles, Reprinted(h),
         \A k \in Len(journal) + 1 .. Len(journal') : journal'[k].by # h
  PROVE  Document'[h] = Document[h] /\ (Stuck(h) => Stuck(h)')
  <1>1. /\ applied \in Nat /\ Len(journal) \in Nat /\ Len(journal') \in Nat /\ applied <= Len(journal)
        /\ Len(journal) <= Len(journal') /\ applied' = applied
    BY DEF Sound, Reprinted
  <1>2. \A i \in applied .. Len(journal) : Reached(i)'[h] = Reached(i)[h]
    BY ReprintedReaches
  <1>3. Document'[h] = Document[h]
    <2>1. Walk(journal', live', file', applied', Len(journal'))[h] = Walk(journal', live', file', applied', Len(journal))[h]
      BY <1>1, WalkPasses
    <2>2. Len(journal) \in applied .. Len(journal)
      BY <1>1
    <2>3. Document'[h] = Walk(journal', live', file', applied', Len(journal'))[h]
      BY ReachingNext
    <2>4. Walk(journal', live', file', applied', Len(journal))[h] = Reached(Len(journal))[h]
      BY <1>2, <2>2 DEF Reached
    <2> QED BY <2>1, <2>3, <2>4, Reaching
  <1>4. ASSUME Stuck(h) PROVE Stuck(h)'
    <2>1. PICK k \in applied + 1 .. Len(journal) : journal[k].by = h /\ Reached(k - 1)[h] = Gone
      BY <1>4, StuckIs DEF StuckThere, Reached
    <2>2. k - 1 \in applied .. Len(journal) /\ k \in 1 .. Len(journal) /\ k \in applied' + 1 .. Len(journal')
      BY <1>1
    <2>3. Walk(journal', live', file', applied', k - 1)[h] = Gone /\ journal'[k].by = h
      <3>1. Reached(k - 1)'[h] = Gone
        BY <1>2, <2>1, <2>2
      <3>2. journal'[k].by = h
        BY <2>1, <2>2 DEF Reprinted
      <3> QED BY <3>1, <3>2 DEF Reached
    <2>4. StuckThere(journal', live', file', applied', h)
      BY <2>2, <2>3 DEF StuckThere
    <2> QED BY <2>4, StuckNext
  <1> QED BY <1>3, <1>4

-----------------------------------------------------------------------------
(* A handle that a step passes by.                                          *)

(* All that happens to the directives of h is that one is printed.          *)
OnlyPrints(h) ==
  \A k \in 1 .. Len(journal) :
     /\ journal'[k].by = journal[k].by
     /\ journal[k].by = h => \/ journal'[k].content = journal[k].content
                             \/ journal[k].content = None /\ journal'[k].content = live[h]

(* Served or not, a flush is the same to a handle.                          *)
Same(x) ==
  /\ chain'[x] = chain[x] /\ live'[x] = live[x] /\ emitted'[x] = emitted[x]
  /\ open'[x] = open[x] /\ got'[x] = got[x]
  /\ pc'[x] = pc[x] \/ (pc[x] = "flushing" /\ pc'[x] = "flushed")

Aside(x) ==
  /\ Same(x)
  /\ Len(journal) <= Len(journal') /\ OnlyPrints(x)
  /\ \A k \in Len(journal) + 1 .. Len(journal') : journal'[k].by # x
  /\ spliced <= spliced' /\ applied <= applied'
  /\ \A k \in 1 .. Len(journal) : journal[k].by = x /\ journal'[k].content = None => k > applied'
  /\ pc[x] # "idle" => \A k \in spliced' + 1 .. Len(journal) : journal[k].by = x => journal'[k].content = journal[k].content
  /\ pc[x] = "loaded" => file'[x] = file[x]
  /\ Document'[x] = Document[x] /\ (Stuck(x) => Stuck(x)')

(* The document of x is what it was; the document of h takes one step.      *)
Still(x) == Document'[x] = Document[x]

Moves(h) ==
  /\ Document[h] # Gone
  /\ \E k \in 1 .. MaxSteps : Document'[h] \in {Append(Document[h], k), <<k>>, Gone}

Progress ==
  \/ \A x \in Handles : Still(x)
  \/ \E h \in Handles : Moves(h) /\ \A x \in Handles \ {h} : Still(x)

Passed(x) == Opened(x)' /\ Standing(x)' /\ Live(x)' /\ Told(x)' /\ Still(x)

(* A step that leaves a handle aside keeps what the handle holds.           *)
LEMMA PassedBy ==
  ASSUME Shapes, Shapes', NEW x \in Handles, Opened(x), Standing(x), Live(x), Told(x), Aside(x)
  PROVE  Passed(x)
  <1>1. /\ Len(journal) \in Nat /\ Len(journal') \in Nat /\ open[x] \in Nat
        /\ applied \in Nat /\ applied' \in Nat /\ spliced \in Nat /\ spliced' \in Nat
        /\ live[x] \in Contents \cup {None} /\ live[x] # Gone
    BY HandleAssumption DEF Shapes, Contents
  <1>2. /\ Now(x)' = Now(x) /\ Doing(x)' = Doing(x) /\ Done(x)' = Done(x)
        /\ \A n : Replay(x, n)' = Replay(x, n)
    <2>1. chain'[x] = chain[x]
      BY DEF Aside, Same
    <2>2. \A n : Replay(x, n)' = Replay(x, n)
      BY <2>1 DEF Replay
    <2>3. pc'[x] \in {"idle", "edited"} <=> pc[x] \in {"idle", "edited"}
      BY DEF Aside, Same
    <2> QED BY <2>1, <2>2, <2>3 DEF Now, Doing, Done
  <1>3. \A k \in 1 .. Len(journal') : journal'[k].by = x => k \in 1 .. Len(journal) /\ journal[k].by = x
    <2> SUFFICES ASSUME NEW k \in 1 .. Len(journal'), journal'[k].by = x
                 PROVE  k \in 1 .. Len(journal) /\ journal[k].by = x
      OBVIOUS
    <2>1. k \in 1 .. Len(journal) \/ k \in Len(journal) + 1 .. Len(journal')
      BY <1>1
    <2> QED BY <2>1 DEF Aside, Same, OnlyPrints
  <1>4. open[x] # 0 => open[x] \in 1 .. Len(journal)
    BY <1>1 DEF Opened
  <1>9. /\ spliced <= spliced' /\ applied <= applied' /\ Len(journal) <= Len(journal')
        /\ \A k \in 1 .. Len(journal') : k \in 1 .. Len(journal) =>
             (k > spliced' => k \in spliced + 1 .. Len(journal)) /\ (k > applied' => k \in applied + 1 .. Len(journal))
        /\ \A k \in spliced' + 1 .. Len(journal') : k \in 1 .. Len(journal') /\ k > spliced'
        /\ \A k \in applied' + 1 .. Len(journal') : k \in 1 .. Len(journal') /\ k > applied'
    <2>1. spliced <= spliced' /\ applied <= applied' /\ Len(journal) <= Len(journal')
      BY DEF Aside, Same
    <2>2. \A a, b, m, n \in Nat : m <= n /\ a <= b =>
            /\ \A k \in 1 .. n : k \in 1 .. m => (k > b => k \in a + 1 .. m)
            /\ \A k \in b + 1 .. n : k \in 1 .. n /\ k > b
      OBVIOUS
    <2>3. /\ \A k \in 1 .. Len(journal') : k \in 1 .. Len(journal) => (k > spliced' => k \in spliced + 1 .. Len(journal))
          /\ \A k \in spliced' + 1 .. Len(journal') : k \in 1 .. Len(journal') /\ k > spliced'
      BY <1>1, <2>1, <2>2, Zenon
    <2>4. /\ \A k \in 1 .. Len(journal') : k \in 1 .. Len(journal) => (k > applied' => k \in applied + 1 .. Len(journal))
          /\ \A k \in applied' + 1 .. Len(journal') : k \in 1 .. Len(journal') /\ k > applied'
      BY <1>1, <2>1, <2>2, Zenon
    <2> QED BY <2>1, <2>3, <2>4
  <1>5. Opened(x)'
    <2>1. ASSUME open'[x] # 0
          PROVE  /\ open'[x] <= Len(journal') /\ live'[x] # None
                 /\ journal'[open'[x]].by = x /\ journal'[open'[x]].content # Gone
      <3>1. open[x] \in 1 .. Len(journal) /\ open'[x] = open[x] /\ live'[x] = live[x]
        BY <1>4, <2>1 DEF Aside, Same
      <3>2. journal[open[x]].by = x /\ journal[open[x]].content # Gone /\ live[x] # None
        BY <2>1, <3>1 DEF Opened
      <3>3. journal'[open[x]].by = x /\ journal'[open[x]].content # Gone
        BY <1>1, <3>1, <3>2 DEF Aside, Same, OnlyPrints
      <3> QED BY <1>1, <3>1, <3>2, <3>3 DEF Aside, Same
    <2>2. ASSUME NEW k \in 1 .. Len(journal'), journal'[k].by = x, journal'[k].content = None
          PROVE  k = open'[x] /\ k > applied'
      <3>1. k \in 1 .. Len(journal) /\ journal[k].by = x
        BY <1>3, <2>2
      <3>2. journal[k].content = None
        BY <2>2, <3>1 DEF Aside, Same, OnlyPrints
      <3> QED BY <2>2, <3>1, <3>2 DEF Aside, Same, Opened
    <2>3. ASSUME pc'[x] # "idle", Doing(x)' \in Edits PROVE ~Measured(x)'
      <3>1. pc[x] # "idle" /\ Doing(x) \in Edits /\ ~Measured(x)
        BY <1>2, <2>3 DEF Aside, Same, Opened
      <3>2. SUFFICES ASSUME open[x] > spliced', journal'[open[x]].content # None PROVE FALSE
        <4>1. open'[x] = open[x]
          BY DEF Aside, Same
        <4> QED BY <4>1 DEF Measured, OpenIsPending
      <3>3. open[x] \in 1 .. Len(journal) /\ open[x] \in spliced' + 1 .. Len(journal) /\ open[x] > spliced
        BY <1>1, <1>4, <3>2 DEF Aside, Same
      <3>4. journal[open[x]].by = x
        BY <1>1, <3>3 DEF Opened
      <3>5. journal'[open[x]].content = journal[open[x]].content
        BY <3>1, <3>3, <3>4 DEF Aside, Same
      <3> QED BY <3>1, <3>2, <3>3, <3>5 DEF Measured, OpenIsPending
    <2>4. \A e : (e \in Edits)' <=> e \in Edits
      BY DEF Edits
    <2> QED BY <2>1, <2>2, <2>3 DEF Opened
  <1>6. Standing(x)'
    <2>1. ASSUME pc[x] \in {"flushing", "flushed"}, NEW k \in spliced' + 1 .. Len(journal') PROVE journal'[k].by # x
      <3>1. SUFFICES ASSUME journal'[k].by = x PROVE FALSE
        OBVIOUS
      <3>2. k \in 1 .. Len(journal') /\ k > spliced'
        BY <1>9, Zenon
      <3>3. k \in 1 .. Len(journal) /\ journal[k].by = x
        BY <1>3, <3>1, <3>2, Zenon
      <3>4. k \in spliced + 1 .. Len(journal)
        BY <1>9, <3>2, <3>3, Zenon
      <3> QED BY <2>1, <3>3, <3>4 DEF Standing
    <2>2. ASSUME pc[x] = "loaded"
          PROVE  got'[x] = file'[x] /\ \A k \in applied' + 1 .. Len(journal') : journal'[k].by # x
      <3>1. got'[x] = file'[x]
        BY <2>2 DEF Aside, Same, Standing
      <3>2. ASSUME NEW k \in applied' + 1 .. Len(journal'), journal'[k].by = x PROVE FALSE
        <4>1. k \in 1 .. Len(journal') /\ k > applied'
          BY <1>9, Zenon
        <4>2. k \in 1 .. Len(journal) /\ journal[k].by = x
          BY <1>3, <3>2, <4>1, Zenon
        <4>3. k \in applied + 1 .. Len(journal)
          BY <1>9, <4>1, <4>2, Zenon
        <4> QED BY <2>2, <4>2, <4>3 DEF Standing
      <3> QED BY <3>1, <3>2
    <2>3. live'[x] = live[x] /\ (pc'[x] = pc[x] \/ (pc[x] = "flushing" /\ pc'[x] = "flushed"))
      BY DEF Aside, Same
    <2> QED BY <1>2, <2>1, <2>2, <2>3 DEF Standing
  <1>7. Live(x)'
    <2>1. ASSUME live[x] # None PROVE Baseline(x)' = Baseline(x)
      <3>1. open'[x] = open[x] /\ emitted'[x] = emitted[x] /\ live'[x] = live[x]
        BY DEF Aside, Same
      <3>2. CASE open[x] = 0
        BY <3>1, <3>2 DEF Baseline
      <3>3. CASE open[x] # 0
        <4>1. open[x] \in 1 .. Len(journal) /\ journal[open[x]].by = x
          BY <1>4, <3>3 DEF Opened
        <4>2. /\ journal'[open[x]].by = x
              /\ \/ journal'[open[x]].content = journal[open[x]].content
                 \/ journal[open[x]].content = None /\ journal'[open[x]].content = live[x]
          BY <4>1 DEF Aside, Same, OnlyPrints
        <4>3. /\ Baseline(x) = IF journal[open[x]].content = None THEN live[x] ELSE journal[open[x]].content
              /\ Baseline(x)' = IF journal'[open[x]].content = None THEN live'[x] ELSE journal'[open[x]].content
          <5>1. \A d \in Directives : Memoized(d).content = (IF d.content = None THEN live[d.by] ELSE d.content) /\
               Memoized(d)'.content = (IF d.content = None THEN live'[d.by] ELSE d.content)
            BY DEF Memoized, Directives
          <5>2. journal[open[x]] \in Directives /\ journal'[open[x]] \in Directives
            <6>1. open[x] \in 1 .. Len(journal')
              BY <1>1, <1>9, <4>1
            <6> QED BY <4>1, <6>1 DEF Shapes
          <5> QED BY <3>1, <3>3, <4>1, <4>2, <5>1, <5>2 DEF Baseline, Memoized, Directives
        <4> QED BY <2>1, <3>1, <4>2, <4>3
      <3> QED BY <3>2, <3>3
    <2>2. ASSUME live[x] # None, InStep(x) PROVE InStep(x)'
      <3>1. Document'[x] = Document[x] /\ open'[x] = open[x] /\ live'[x] = live[x]
        BY DEF Aside, Same
      <3>2. ASSUME open'[x] # 0, NEW k \in open'[x] + 1 .. Len(journal'), journal'[k].by = x PROVE FALSE
        <4>1. open[x] \in 1 .. Len(journal)
          BY <1>4, <3>1, <3>2
        <4>2. k \in 1 .. Len(journal')
          BY <1>1, <3>1, <3>2, <4>1
        <4>3. k \in 1 .. Len(journal) /\ journal[k].by = x
          BY <1>3, <3>2, <4>2, Zenon
        <4>4. k \in open[x] + 1 .. Len(journal)
          BY <1>1, <3>1, <4>1, <4>2, <4>3
        <4> QED BY <2>2, <3>1, <3>2, <4>3, <4>4 DEF InStep
      <3> QED BY <1>2, <2>1, <2>2, <3>1, <3>2 DEF InStep
    <2>3. Outdated(x)' <=> Outdated(x)
      BY DEF Outdated, Aside, Same
    <2> QED BY <1>2, <2>2, <2>3 DEF Live, Aside, Same
  <1>8. Told(x)'
    BY <1>2 DEF Told, Aside, Same
  <1> QED BY <1>5, <1>6, <1>7, <1>8 DEF Passed, Still, Aside

-----------------------------------------------------------------------------
(* A step that appends to the journal, or prints some of it.                *)

Kept ==
  /\ UNCHANGED <<file, applied>> /\ Len(journal) <= Len(journal')
  /\ \A k \in 1 .. Len(journal) : journal'[k] = journal[k] \/ journal'[k] = Memoized(journal[k])

(* Printing a directive changes nothing else of it.                         *)
LEMMA PrintedOnce ==
  ASSUME Shapes, NEW k \in 1 .. Len(journal), NEW d, d = journal[k] \/ d = Memoized(journal[k])
  PROVE  /\ d.by = journal[k].by /\ d.op = journal[k].op
         /\ \/ d.content = journal[k].content
            \/ journal[k].content = None /\ d.content = live[journal[k].by]
  <1>1. journal[k] \in Directives
    BY DEF Shapes
  <1> QED BY <1>1 DEF Memoized, Directives

(* A kept journal is printed at most.                                       *)
LEMMA KeptPrints == ASSUME Shapes, Kept, NEW x PROVE OnlyPrints(x)
  <1> SUFFICES ASSUME NEW k \in 1 .. Len(journal)
               PROVE  /\ journal'[k].by = journal[k].by
                      /\ journal[k].by = x => \/ journal'[k].content = journal[k].content
                                              \/ journal[k].content = None /\ journal'[k].content = live[x]
    BY DEF OnlyPrints
  <1>1. journal'[k] = journal[k] \/ journal'[k] = Memoized(journal[k])
    BY DEF Kept
  <1> QED BY <1>1, PrintedOnce

(* A journal that a step has printed, or appended to, can be walked.        *)
LEMMA PrintingSounds ==
  ASSUME Shapes, \A x \in Handles : Opened(x), Shapes', \A x \in Handles : OnlyPrints(x), Len(journal) <= Len(journal'),
         \A x \in Handles : live[x] # None => live'[x] # None,
         \A k \in Len(journal) + 1 .. Len(journal') : journal'[k].content = None => live'[journal'[k].by] # None
  PROVE  Sound(journal', live', file', applied')
  <1>1. Sound(journal, live, file, applied) /\ Len(journal) \in Nat /\ \A k \in 1 .. Len(journal) : journal[k].by \in Handles
    BY Sounds
  <1>2. Len(journal') \in Nat /\ applied' \in 0 .. Len(journal')
    BY DEF Shapes
  <1>3. ASSUME NEW k \in 1 .. Len(journal'), journal'[k].content = None PROVE live'[journal'[k].by] # None
    <2>1. CASE k \in 1 .. Len(journal)
      <3>1. journal[k].by \in Handles /\ journal'[k].by = journal[k].by
        BY <1>1, <2>1 DEF OnlyPrints
      <3>2. journal[k].content = None
        BY <1>3, <2>1, <3>1 DEF OnlyPrints
      <3> QED BY <1>1, <2>1, <3>1, <3>2 DEF Sound
    <2>2. CASE k \in Len(journal) + 1 .. Len(journal')
      BY <1>3, <2>2
    <2> QED BY <1>1, <1>2, <2>1, <2>2
  <1> QED BY <1>2, <1>3 DEF Sound, Shapes, Trees

(* A handle whose text is not touched prints what it printed before.        *)
LEMMA KeptReprints ==
  ASSUME Shapes, \A x \in Handles : Opened(x), Kept, NEW x \in Handles,
         live'[x] = live[x] \/ \A k \in 1 .. Len(journal) : journal[k].by = x => journal[k].content # None
  PROVE  Reprinted(x)
  <1>1. Sound(journal, live, file, applied)
    BY Sounds
  <1>2. ASSUME NEW k \in 1 .. Len(journal), journal[k].by = x
        PROVE  ContentOf(journal'[k], live') = ContentOf(journal[k], live)
    <2>1. OnlyPrints(x)
      BY KeptPrints
    <2>2. /\ journal'[k].by = x
          /\ \/ journal'[k].content = journal[k].content
             \/ journal[k].content = None /\ journal'[k].content = live[x]
      BY <1>2, <2>1 DEF OnlyPrints
    <2>3. journal[k].content = None => live[x] # None
      BY <1>1, <1>2 DEF Sound
    <2> QED BY <1>2, <2>2, <2>3 DEF ContentOf
  <1>3. \A k \in 1 .. Len(journal) : journal'[k].by = journal[k].by
    BY KeptPrints DEF OnlyPrints
  <1> QED BY <1>2, <1>3 DEF Reprinted, Kept

(* A step that keeps the journal changes no document it appends no          *)
(* directive for.                                                           *)
LEMMA KeptDocument ==
  ASSUME Shapes, \A x \in Handles : Opened(x), Kept, Sound(journal, live, file, applied)', NEW x \in Handles,
         live'[x] = live[x] \/ \A k \in 1 .. Len(journal) : journal[k].by = x => journal[k].content # None,
         \A k \in Len(journal) + 1 .. Len(journal') : journal'[k].by # x
  PROVE  Document'[x] = Document[x] /\ (Stuck(x) => Stuck(x)')
  <1>1. Sound(journal, live, file, applied)
    BY Sounds
  <1>2. Reprinted(x)
    BY KeptReprints
  <1> QED BY <1>1, <1>2, ReprintedStays

(* A directive more, and the document is what it holds, if there is a file. *)
LEMMA AppendedDocument ==
  ASSUME Shapes, \A x \in Handles : Opened(x), Kept, Sound(journal, live, file, applied)', NEW h \in Handles,
         live'[h] = live[h], Len(journal') = Len(journal) + 1, journal'[Len(journal) + 1].by = h
  PROVE  /\ Document[h] # Gone => Document'[h] = ContentOf(journal'[Len(journal) + 1], live')
         /\ Document[h] = Gone => Stuck(h)' /\ Document'[h] = Gone
  <1>0. PICK n : n = Len(journal)
    OBVIOUS
  <1>1. /\ Sound(journal, live, file, applied) /\ n \in Nat /\ applied \in Nat /\ applied <= n
        /\ applied' = applied
    BY <1>0, Sounds DEF Sound, Kept
  <1>2. Reached(n)'[h] = Reached(n)[h]
    <2>1. n \in applied .. Len(journal)
      BY <1>0, <1>1
    <2> QED BY <1>1, <2>1, KeptReprints, ReprintedReaches
  <1>3. Reached(n)[h] = Document[h]
    BY <1>0, Reaching
  <1>4. n + 1 \in applied' + 1 .. Len(journal') /\ (n + 1) - 1 = n
    BY <1>0, <1>1
  <1>5. Walk(journal', live', file', applied', n)[h] = Document[h]
    BY <1>2, <1>3 DEF Reached
  <1>6. Walk(journal', live', file', applied', n + 1)[h]
          = IF Walk(journal', live', file', applied', n)[h] = Gone THEN Gone ELSE ContentOf(journal'[n + 1], live')
    <2>1. journal'[n + 1].by = h
      BY <1>0
    <2> QED BY <1>4, <2>1, WalkAt
  <1>7. Document'[h] = Walk(journal', live', file', applied', n + 1)[h]
    BY <1>0, ReachingNext
  <1>8. ASSUME Document[h] = Gone PROVE Stuck(h)'
    <2>1. StuckThere(journal', live', file', applied', h)
      BY <1>0, <1>4, <1>5, <1>8 DEF StuckThere
    <2> QED BY <2>1, StuckNext
  <1> QED BY <1>0, <1>5, <1>6, <1>7, <1>8

(* Who looks on while another handle, or the run, takes such a step.        *)
LEMMA Onlooker ==
  ASSUME Shapes, Shapes', \A x \in Handles : Opened(x), Kept, Sound(journal, live, file, applied)', spliced <= spliced',
         NEW x \in Handles, Standing(x), Live(x), Told(x), Same(x),
         \A k \in Len(journal) + 1 .. Len(journal') : journal'[k].by # x,
         pc[x] # "idle" => \A k \in spliced' + 1 .. Len(journal) : journal[k].by = x =>
              journal'[k].content = journal[k].content
  PROVE  Passed(x)
  <1>1. OnlyPrints(x)
    BY KeptPrints
  <1>2. Document'[x] = Document[x] /\ (Stuck(x) => Stuck(x)')
    BY KeptDocument DEF Same
  <1>3. applied \in Nat /\ applied' = applied /\ file' = file /\ Len(journal) <= Len(journal')
    BY DEF Kept, Shapes
  <1>4. \A k \in 1 .. Len(journal) : journal[k].by = x /\ journal'[k].content = None => k > applied'
    <2> SUFFICES ASSUME NEW k \in 1 .. Len(journal), journal[k].by = x, journal'[k].content = None PROVE k > applied'
      OBVIOUS
    <2>1. journal[k].content = None
      BY <1>1 DEF OnlyPrints
    <2> QED BY <1>3, <2>1 DEF Opened
  <1>5. Aside(x)
    BY <1>1, <1>2, <1>3, <1>4 DEF Aside
  <1> QED BY <1>5, PassedBy

-----------------------------------------------------------------------------
(* The parts of the invariant that most steps leave alone.                  *)

(* A step of one handle passes the others by.                               *)
LEMMA Others ==
  ASSUME Shapes, Shapes', \A x \in Handles : Opened(x) /\ Standing(x) /\ Live(x) /\ Told(x), Kept, spliced <= spliced',
         Sound(journal, live, file, applied)', NEW h, \A x \in Handles \ {h} : Same(x),
         \A k \in Len(journal) + 1 .. Len(journal') : journal'[k].by = h,
         \A k \in 1 .. Len(journal) : journal[k].by # h => journal'[k] = journal[k]
  PROVE  \A x \in Handles \ {h} : Passed(x)
  <1> SUFFICES ASSUME NEW x \in Handles \ {h} PROVE Passed(x)
    OBVIOUS
  <1>3. spliced' \in Nat /\ Len(journal) \in Nat
    BY DEF Shapes
  <1>4. \A a, n \in Nat : \A k \in a + 1 .. n : k \in 1 .. n
    OBVIOUS
  <1>1. \A k \in spliced' + 1 .. Len(journal) : k \in 1 .. Len(journal)
    BY <1>3, <1>4, Zenon
  <1>2. \A k \in spliced' + 1 .. Len(journal) : journal[k].by = x => journal'[k].content = journal[k].content
    BY <1>1
  <1> QED BY <1>2, Onlooker

(* A handle that has made no call is the reader of none.                    *)
LEMMA NoCall ==
  ASSUME Invariant, NEW h, pc[h] \notin {"flushing", "reading"}, h # Main
  PROVE  \A i \in 1 .. Len(calls) : calls[i].by # h
  BY DEF Invariant, Calling, WaitsFor

(* No call made or served: the batches stay, and the reads travel behind    *)
(* them still.                                                              *)
LEMMA RangesKept ==
  ASSUME Shapes, Shapes', Ranges, UNCHANGED <<calls, spliced, applied>>, Len(journal) <= Len(journal'),
         \A k \in 1 .. Len(journal) : journal'[k].by = journal[k].by,
         \A k \in Len(journal) + 1 .. Len(journal') : \A i \in 1 .. Len(calls) : calls[i].by # journal'[k].by
  PROVE  Ranges'
  <1>1. Len(journal) \in Nat /\ Len(journal') \in Nat /\ applied \in Nat /\ spliced \in Nat
    BY DEF Shapes
  <1>2. ASSUME NEW i \in 1 .. Len(calls), calls[i].kind = "read", NEW k \in applied + 1 .. Len(journal'),
       journal'[k].by = calls[i].by
        PROVE  \E j \in 1 .. i - 1 : Carries(calls[j], k)
    <2>1. k \in 1 .. Len(journal) /\ k \in applied + 1 .. Len(journal)
      <3>1. k \in Len(journal) + 1 .. Len(journal') \/ (k \in 1 .. Len(journal) /\ k \in applied + 1 .. Len(journal))
        BY <1>1
      <3> QED BY <1>2, <3>1
    <2> QED BY <1>2, <2>1 DEF Ranges
  <1> QED BY <1>2 DEF Ranges, Carries

(* A flush cuts a new batch, behind those on their way.                     *)
LEMMA RangesFlush ==
  ASSUME Shapes, Shapes', Ranges, IsSequence(calls), HasPending, NEW by, Flush(by), UNCHANGED <<journal, applied>>
  PROVE  Ranges'
  <1> DEFINE n == Len(calls)
             c == [kind |-> "emit", by |-> by, lo |-> spliced + 1, hi |-> Len(journal)]
  <1>1. Len(journal) \in Nat /\ applied \in Nat /\ spliced \in Nat /\ applied <= spliced /\
       spliced < Len(journal) /\ spliced' = Len(journal)
    BY DEF Shapes, HasPending, Flush
  <1>2. /\ n \in Nat /\ Len(calls') = n + 1 /\ \A i \in 1 .. n : calls'[i] = calls[i]
        /\ calls'[n + 1] = c
    BY AppendToSequence DEF Flush
  <1>3. c.kind = "emit" /\ c.lo = spliced + 1 /\ c.hi = Len(journal)
    OBVIOUS
  <1> HIDE DEF n, c
  <1>4. \A i \in 1 .. n : calls[i].kind = "emit" => /\ calls[i].lo \in applied + 1 .. spliced /\
                                                         calls[i].hi \in calls[i].lo .. spliced
                                                   /\ \A j \in 1 .. i - 1 : calls[j].kind = "emit" =>
                                                        calls[j].hi < calls[i].lo
    BY DEF Ranges, n
  <1>5. ASSUME NEW i \in 1 .. n + 1, calls'[i].kind = "emit"
        PROVE  /\ calls'[i].lo \in applied + 1 .. spliced' /\ calls'[i].hi \in calls'[i].lo .. spliced'
               /\ \A j \in 1 .. i - 1 : calls'[j].kind = "emit" => calls'[j].hi < calls'[i].lo
    <2>1. CASE i \in 1 .. n
      <3>1. calls'[i] = calls[i] /\ \A j \in 1 .. i - 1 : j \in 1 .. n /\ calls'[j] = calls[j]
        BY <1>2, <2>1
      <3>2. calls[i].lo \in applied + 1 .. spliced' /\ calls[i].hi \in calls[i].lo .. spliced'
        BY <1>1, <1>4, <1>5, <2>1, <3>1
      <3> QED BY <1>4, <1>5, <2>1, <3>1, <3>2
    <2>2. CASE i = n + 1
      <3>1. \A j \in 1 .. n : calls'[j].kind = "emit" => calls'[j].hi < c.lo
        BY <1>1, <1>2, <1>3, <1>4
      <3> QED BY <1>1, <1>2, <1>3, <2>2, <3>1
    <2> QED BY <1>2, <2>1, <2>2
  <1>6. ASSUME NEW k \in applied + 1 .. spliced' PROVE \E i \in 1 .. n + 1 : Carries(calls'[i], k)
    <2>1. CASE k \in applied + 1 .. spliced
      <3>1. PICK i \in 1 .. n : Carries(calls[i], k)
        BY <2>1 DEF Ranges, n
      <3>2. calls'[i] = calls[i] /\ i \in 1 .. n + 1
        BY <1>2
      <3> QED BY <3>1, <3>2
    <2>2. CASE k \in spliced + 1 .. Len(journal)
      <3>1. Carries(c, k)
        BY <1>1, <1>3, <2>2 DEF Carries
      <3> QED BY <1>2, <3>1
    <2> QED BY <1>1, <2>1, <2>2
  <1>7. ASSUME NEW i \in 1 .. n + 1, calls'[i].kind = "read", NEW k \in applied + 1 .. Len(journal),
       journal[k].by = calls'[i].by
        PROVE  \E j \in 1 .. i - 1 : Carries(calls'[j], k)
    <2>1. i \in 1 .. n /\ calls'[i] = calls[i]
      BY <1>2, <1>3, <1>7
    <2>2. PICK j \in 1 .. i - 1 : Carries(calls[j], k)
      BY <1>7, <2>1 DEF Ranges, n
    <2>3. j \in 1 .. n
      BY <1>2, <2>1
    <2> QED BY <1>2, <2>2, <2>3
  <1> QED BY <1>2, <1>5, <1>6, <1>7 DEF Ranges, Carries

(* A read goes behind every batch, once its own directives are flushed.     *)
LEMMA RangesAsk ==
  ASSUME Shapes, Shapes', Ranges, IsSequence(calls), NEW h, \A k \in spliced + 1 .. Len(journal) : journal[k].by # h,
         calls' = Append(calls, [kind |-> "read", by |-> h, lo |-> 1, hi |-> 0]), UNCHANGED <<journal, applied, spliced>>
  PROVE  Ranges'
  <1> DEFINE n == Len(calls)
             c == [kind |-> "read", by |-> h, lo |-> 1, hi |-> 0]
  <1>1. Len(journal) \in Nat /\ applied \in Nat /\ spliced \in Nat /\ applied <= spliced /\ spliced <= Len(journal)
    BY DEF Shapes
  <1>2. /\ n \in Nat /\ Len(calls') = n + 1 /\ \A i \in 1 .. n : calls'[i] = calls[i]
        /\ calls'[n + 1] = c
    BY AppendToSequence
  <1>3. c.kind = "read" /\ c.by = h
    OBVIOUS
  <1> HIDE DEF n, c
  <1>4. ASSUME NEW i \in 1 .. n + 1, calls'[i].kind = "emit"
        PROVE  i \in 1 .. n /\ \A j \in 1 .. i : j \in 1 .. n /\ calls'[j] = calls[j]
    BY <1>2, <1>3, <1>4
  <1>5. ASSUME NEW i \in 1 .. n + 1, calls'[i].kind = "emit"
        PROVE  /\ calls'[i].lo \in applied + 1 .. spliced /\ calls'[i].hi \in calls'[i].lo .. spliced
               /\ \A j \in 1 .. i - 1 : calls'[j].kind = "emit" => calls'[j].hi < calls'[i].lo
    <2>1. i \in 1 .. n /\ calls'[i] = calls[i] /\ \A j \in 1 .. i - 1 : calls'[j] = calls[j]
      BY <1>2, <1>4, <1>5
    <2> QED BY <1>5, <2>1 DEF Ranges, n
  <1>6. ASSUME NEW k \in applied + 1 .. spliced PROVE \E i \in 1 .. n : Carries(calls[i], k)
    BY DEF Ranges, n
  <1>7. ASSUME NEW i \in 1 .. n + 1, calls'[i].kind = "read", NEW k \in applied + 1 .. Len(journal),
       journal[k].by = calls'[i].by
        PROVE  \E j \in 1 .. i - 1 : Carries(calls'[j], k)
    <2>1. CASE i \in 1 .. n
      <3>1. calls'[i] = calls[i]
        BY <1>2, <2>1
      <3>2. PICK j \in 1 .. i - 1 : Carries(calls[j], k)
        BY <1>7, <2>1, <3>1 DEF Ranges, n
      <3>3. j \in 1 .. n
        BY <1>2, <2>1
      <3> QED BY <1>2, <3>2, <3>3
    <2>2. CASE i = n + 1
      <3>1. journal[k].by = h
        BY <1>2, <1>3, <1>7, <2>2
      <3>2. k \in applied + 1 .. spliced
        <4>1. k \in applied + 1 .. spliced \/ k \in spliced + 1 .. Len(journal)
          BY <1>1
        <4> QED BY <3>1, <4>1
      <3>3. PICK j \in 1 .. n : Carries(calls[j], k)
        BY <1>6, <3>2
      <3>4. j \in 1 .. i - 1 /\ calls'[j] = calls[j]
        BY <1>2, <2>2
      <3> QED BY <3>3, <3>4
    <2> QED BY <1>2, <2>1, <2>2
  <1>8. \A k \in applied + 1 .. spliced : \E i \in 1 .. n + 1 : Carries(calls'[i], k)
    <2> SUFFICES ASSUME NEW k \in applied + 1 .. spliced PROVE \E i \in 1 .. n + 1 : Carries(calls'[i], k)
      OBVIOUS
    <2>1. PICK i \in 1 .. n : Carries(calls[i], k)
      BY <1>6
    <2>2. i \in 1 .. n + 1 /\ calls'[i] = calls[i]
      BY <1>2
    <2> QED BY <2>1, <2>2
  <1> QED BY <1>2, <1>5, <1>7, <1>8 DEF Ranges, Carries

(* Answers given stay right while chains only grow.                         *)
LEMMA AnsweredKept ==
  ASSUME Answered, answers' = answers, \A x \in Handles : Now(x) \in Nat /\ Now(x)' \in Nat /\ Now(x) <= Now(x)',
         \A x \in Handles : \A k \in 1 .. Now(x) : chain'[x][k] = chain[x][k]
  PROVE  Answered'
  <1> SUFFICES ASSUME NEW a \in answers PROVE a.by \in Handles /\ a.at \in 1 .. Now(a.by)' /\ a.saw = Replay(a.by, a.at - 1)'
    BY DEF Answered
  <1>1. a.by \in Handles /\ a.at \in 1 .. Now(a.by) /\ a.saw = Replay(a.by, a.at - 1)
    BY DEF Answered
  <1>2. a.at \in 1 .. Now(a.by)' /\ \A k \in 1 .. a.at - 1 : k \in 1 .. Now(a.by)
    BY <1>1
  <1>3. \A k \in 1 .. a.at - 1 : chain[a.by][k] = chain'[a.by][k]
    BY <1>1, <1>2
  <1>4. Replay(a.by, a.at - 1) = Replayed(chain[a.by], a.at - 1) /\ Replay(a.by, a.at - 1)' = Replayed(chain'[a.by], a.at - 1)
    BY DEF Replay, Replayed
  <1> QED BY <1>1, <1>2, <1>3, <1>4, ReplaySame

(* An answer that says what the chain amounts to keeps the answers right.   *)
LEMMA AnsweredMore ==
  ASSUME Answered, chain' = chain, NEW h \in Handles, Now(h) \in Nat, Now(h) > 0, Answer(h, Replay(h, Now(h) - 1))
  PROVE  Answered'
  <1>1. answers' = answers \cup {[by |-> h, at |-> Now(h), saw |-> Replay(h, Now(h) - 1)]}
    BY DEF Answer
  <1>2. \A x, n : Replay(x, n)' = Replay(x, n) /\ Now(x)' = Now(x)
    BY DEF Replay, Now
  <1> QED BY <1>1, <1>2 DEF Answered

(* Handles take steps in the two first phases only.                         *)
LEMMA Begun ==
  ASSUME Invariant, ~Doomed, NEW h \in Handles, HandleStep(h)
  PROVE  phase \in {"fn", "drain"} /\ phase' = phase /\ ~failure /\ (pc[h] # "idle" => ~settled[h])
  <1>1. \A x \in Handles : ~rejected[x]
    BY DEF Doomed
  <1>2. ~failure /\ (pc[h] # "idle" => ~settled[h])
    BY <1>1 DEF Invariant, Ended
  <1>3. phase' = phase
    BY DEF HandleStep, Enqueue, Skip, Wholesale, Enter, Ask, FlushRefused, ReadDone, Load, Operate, Register,
       Query, Settle
  <1>4. phase = "fn" \/ phase = "drain" \/ pc[h] # "idle"
    BY DEF HandleStep, Enqueue, Skip, Wholesale, Enter, Ask, FlushRefused, ReadDone, Load, Operate, Register,
       Query, Settle
  <1>5. phase \in {"fn", "drain"}
    BY <1>2, <1>4 DEF Invariant, Types, Ended, Phases, Doomed
  <1> QED BY <1>2, <1>3, <1>5

-----------------------------------------------------------------------------
(* The steps of the run boundary.                                           *)

(* A failed run stays failed (src/core/define-factory.ts): no step takes a  *)
(* failure back.                                                            *)
LEMMA DoomedStays ==
  ASSUME Invariant, Doomed, Next
  PROVE  Doomed'
  <1>1. phase # "failed"
    BY DEF Next, Running
  <1>2. ASSUME NEW h \in Handles, rejected[h] PROVE rejected'[h]
    <2>1. \/ rejected' = rejected
          \/ \E x \in Handles : rejected' = [rejected EXCEPT ![x] = TRUE]
      <3>1. CASE \E x \in Handles : HandleStep(x)
        <4>1. PICK x \in Handles : HandleStep(x)
          BY <3>1, Zenon
        <4>2. rejected' = rejected \/ rejected' = [rejected EXCEPT ![x] = TRUE]
          <5>1. CASE \/ \E s \in Kinds : Enqueue(x, s)
                     \/ Skip(x) \/ Enter(x) \/ Ask(x) \/ FlushRefused(x) \/ ReadDone(x)
            BY <5>1, Zenon DEF Enqueue, Skip, Enter, Ask, FlushRefused, ReadDone, Reject
          <5>2. CASE Wholesale(x)
            BY <5>2, Zenon DEF Wholesale, Reject, Unharmed
          <5>3. CASE Load(x) \/ Operate(x)
            BY <5>3, Zenon DEF Load, Operate, Reject, Unharmed
          <5>4. CASE Register(x)
            BY <5>4 DEF Register, EnsureOpen, Reject, Unharmed
          <5>5. CASE Query(x)
            BY <5>5, Zenon DEF Query, Reject, Unharmed
          <5>6. CASE Settle(x)
            BY <5>6 DEF Settle
          <5> QED BY <4>1, <5>1, <5>2, <5>3, <5>4, <5>5, <5>6, Zenon DEF HandleStep
        <4> QED BY <4>2, Zenon
      <3>2. CASE ServeEmit \/ ServeRead
        BY <3>2 DEF ServeEmit, ServeRead
      <3>3. CASE Measure \/ Return \/ Throw \/ Drained \/ CommitRun
        BY <3>3 DEF Measure, Return, Throw, Drained, CommitRun, handleVars
      <3> QED BY <3>1, <3>2, <3>3, Zenon DEF Next
    <2> QED BY <1>2, <2>1 DEF Invariant, Types
  <1>3. ASSUME NEW h \in Handles, pc[h] = "refused" PROVE rejected'[h] \/ pc'[h] = "refused"
    <2>1. CASE \E x \in Handles : HandleStep(x)
      <3>1. PICK x \in Handles : HandleStep(x)
        BY <2>1
      <3>2. CASE x = h
        <4>1. FlushRefused(h)
          BY <1>3, <3>1, <3>2 DEF HandleStep, Enqueue, Skip, Wholesale, Enter, Ask, ReadDone, Load, Operate,
             Register, Query, Settle
        <4> QED BY <4>1 DEF FlushRefused, Reject, Invariant, Types
      <3>3. CASE x # h
        <4>1. pc' = pc \/ \E p : pc' = [pc EXCEPT ![x] = p]
          BY <3>1 DEF HandleStep, Enqueue, Skip, Wholesale, Enter, Ask, FlushRefused, ReadDone, Load, Operate,
             Register, EnsureOpen, Query, Settle,
                      Reject, Finish
        <4> QED BY <1>3, <3>3, <4>1 DEF Invariant, Types
      <3> QED BY <3>2, <3>3
    <2>2. CASE ServeEmit \/ ServeRead
      <3> DEFINE b == Head(calls)
      <3>1. calls # <<>>
        BY <2>2 DEF ServeEmit, ServeRead
      <3>2. b = calls[1] /\ Len(calls) \in Nat /\ Len(calls) > 0
        BY <3>1, TailOfSequence DEF Invariant, Types
      <3>3. WaitsFor(b, phase, pc)
        BY <3>2 DEF Invariant, Calling
      <3>4. b.by # h
        BY <1>3, <3>3, HandleAssumption DEF WaitsFor
      <3>5. pc' = pc \/ \E p : pc' = [pc EXCEPT ![b.by] = p]
        BY <2>2 DEF ServeEmit, ServeRead
      <3> HIDE DEF b
      <3> QED BY <1>3, <3>4, <3>5 DEF Invariant, Types
    <2>3. CASE Measure \/ Return \/ Throw \/ Drained \/ CommitRun
      BY <1>3, <2>3 DEF Measure, Return, Throw, Drained, CommitRun
    <2> QED BY <2>1, <2>2, <2>3 DEF Next
  <1> QED BY <1>1, <1>2, <1>3 DEF Doomed

(* Directives stay directives when some are printed.                        *)
LEMMA StillDirectives ==
  ASSUME Shapes, NEW f, f = [i \in DOMAIN journal |-> f[i]],
         \A k \in 1 .. Len(journal) : f[k] = journal[k] \/ f[k] = Memoized(journal[k])
  PROVE  f \in Seq(Directives) /\ Len(f) = Len(journal)
  <1>1. Len(journal) \in Nat /\ DOMAIN journal = 1 .. Len(journal) /\ \A k \in 1 .. Len(journal) : journal[k] \in Directives
    BY DEF Shapes
  <1>2. ASSUME NEW k \in 1 .. Len(journal) PROVE Memoized(journal[k]) \in Directives
    <2>1. journal[k] \in Directives /\ live[journal[k].by] \in Contents \cup {None}
      BY <1>1 DEF Shapes, Directives
    <2> QED BY <2>1 DEF Memoized, Directives
  <1>3. \A k \in 1 .. Len(journal) : f[k] \in Directives
    BY <1>1, <1>2
  <1>4. f \in [1 .. Len(journal) -> Directives]
    BY <1>1, <1>3
  <1> QED BY <1>1, <1>4, SeqDef, LenProperties

(* No handle takes part.                                                    *)
LEMMA Elsewhere ==
  ASSUME Hopeful, Shapes', Kept, Len(journal') = Len(journal), spliced <= spliced', \A x \in Handles : Same(x),
         \A x \in Handles : pc[x] # "idle" => \A k \in spliced' + 1 .. Len(journal) : journal[k].by = x =>
              journal'[k].content = journal[k].content
  PROVE  \A x \in Handles : Passed(x)
  <1>1. Len(journal) \in Nat
    BY DEF Hopeful, Shapes
  <1>2. \A k \in Len(journal) + 1 .. Len(journal') : FALSE
    BY <1>1
  <1>3. \A x \in Handles : OnlyPrints(x)
    BY KeptPrints DEF Hopeful
  <1>4. \A x \in Handles : live'[x] = live[x]
    BY DEF Same
  <1>5. Sound(journal, live, file, applied)'
    BY <1>2, <1>3, <1>4, PrintingSounds DEF Hopeful, Kept
  <1>6. Shapes /\ \A x \in Handles : Opened(x) /\ Standing(x) /\ Live(x) /\ Told(x)
    BY DEF Hopeful
  <1> SUFFICES ASSUME NEW x \in Handles PROVE Passed(x)
    OBVIOUS
  <1>7. \A k \in Len(journal) + 1 .. Len(journal') : journal'[k].by # x
    BY <1>2
  <1> QED BY <1>5, <1>6, <1>7, Onlooker

(* What a step has to leave as it is, for what the handles have been told.  *)
LEMMA StillAnswered ==
  ASSUME Hopeful, UNCHANGED <<chain, answers>>
  PROVE  Answered'
  <1>1. \A x \in Handles : Now(x) \in Nat /\ Now(x)' = Now(x)
    BY DEF Hopeful, Shapes, Now
  <1> QED BY <1>1, AnsweredKept DEF Hopeful

(* The return of the factory function.                                      *)
LEMMA ReturnHopes ==
  ASSUME Hopeful, Return
  PROVE  Hopeful' /\ Progress
  <1>1. /\ phase' = "drain"
        /\ UNCHANGED <<journal, spliced, failure, chain, pc, live, emitted, open, rejected, settled, got, answers,
             applied, calls, file, kept>>
    BY DEF Return, handleVars, engineVars
  <1>2. Shapes' /\ Ranges' /\ Finale'
    BY <1>1 DEF Hopeful, Shapes, Ranges, Finale, Now, Carries
  <1>3. Kept /\ Len(journal') = Len(journal) /\ spliced <= spliced' /\ \A x \in Handles : Same(x)
    BY <1>1 DEF Kept, Same, Hopeful, Shapes
  <1>4. \A x \in Handles : Passed(x)
    BY <1>1, <1>2, <1>3, Elsewhere
  <1> QED BY <1>1, <1>2, <1>4, StillAnswered DEF Hopeful, Passed, Progress

(* The commit, which keeps the staged files.                                *)
LEMMA CommitHopes ==
  ASSUME Hopeful, CommitRun
  PROVE  Hopeful' /\ Progress
  <1>1. /\ phase = "flushed" /\ phase' = "committed" /\ kept' = file
        /\ UNCHANGED <<journal, spliced, failure, chain, pc, live, emitted, open, rejected, settled, got, answers,
             applied, calls, file>>
    BY DEF CommitRun, handleVars
  <1>2. Shapes' /\ Ranges' /\ Finale'
    BY <1>1 DEF Hopeful, Shapes, Ranges, Finale, Now, Carries
  <1>3. Kept /\ Len(journal') = Len(journal) /\ spliced <= spliced' /\ \A x \in Handles : Same(x)
    BY <1>1 DEF Kept, Same, Hopeful, Shapes
  <1>4. \A x \in Handles : Passed(x)
    BY <1>1, <1>2, <1>3, Elsewhere
  <1> QED BY <1>1, <1>2, <1>4, StillAnswered DEF Hopeful, Passed, Progress

(* scaffold() prints what nobody is editing.                                *)
LEMMA MeasureHopes ==
  ASSUME Hopeful, ~EditAfterMeasure, Measure, ~Doomed'
  PROVE  Hopeful' /\ Progress
  <1>1. /\ phase = "fn" /\ phase' = "fn" /\ \A h \in Handles : OpenIsPending(h) => pc[h] = "idle"
        /\ journal' = [i \in DOMAIN journal |-> IF i > spliced THEN Memoized(journal[i]) ELSE journal[i]]
        /\ UNCHANGED <<spliced, failure, chain, pc, live, emitted, open, rejected, settled, got, answers, applied,
             calls, file, kept>>
    BY DEF Measure, handleVars, engineVars, Doomed
  <1>2. Shapes /\ Len(journal) \in Nat /\ spliced \in Nat /\ DOMAIN journal = 1 .. Len(journal)
    BY DEF Hopeful, Shapes
  <1>3. \A k \in 1 .. Len(journal) : journal'[k] = journal[k] \/ journal'[k] = Memoized(journal[k])
    BY <1>1, <1>2
  <1>4. journal' \in Seq(Directives) /\ Len(journal') = Len(journal)
    BY <1>1, <1>2, <1>3, StillDirectives
  <1>5. Shapes' /\ Finale'
    BY <1>1, <1>4 DEF Hopeful, Shapes, Finale, Now
  <1>6. Kept /\ spliced <= spliced' /\ \A x \in Handles : Same(x)
    BY <1>1, <1>2, <1>3, <1>4 DEF Kept, Same
  <1>7. Ranges'
    <2>1. \A k \in 1 .. Len(journal) : journal'[k].by = journal[k].by
      BY <1>2, <1>3, PrintedOnce
    <2>2. \A k \in Len(journal) + 1 .. Len(journal') : FALSE
      BY <1>2, <1>4
    <2> QED BY <1>1, <1>2, <1>4, <1>5, <2>1, <2>2, RangesKept DEF Hopeful
  <1>8. ASSUME NEW x \in Handles, pc[x] # "idle", NEW k \in spliced' + 1 .. Len(journal), journal[k].by = x
        PROVE  journal'[k].content = journal[k].content
    <2>1. k \in 1 .. Len(journal) /\ k > spliced
      BY <1>1, <1>2
    <2>2. k # open[x]
      BY <1>1, <1>8, <2>1 DEF OpenIsPending
    <2>3. journal[k].content # None
      BY <1>8, <2>1, <2>2 DEF Hopeful, Opened
    <2> QED BY <1>2, <1>3, <2>1, <2>3, PrintedOnce
  <1>9. \A x \in Handles : Passed(x)
    BY <1>4, <1>5, <1>6, <1>8, Elsewhere
  <1> QED BY <1>1, <1>5, <1>7, <1>9, StillAnswered DEF Hopeful, Passed, Progress

(* The flush at the end of the run, or none if nothing is pending.          *)
LEMMA DrainedHopes ==
  ASSUME Invariant, Hopeful, Drained, ~Doomed'
  PROVE  Hopeful' /\ Progress
  <1>1. /\ phase = "drain" /\ \A h \in Handles : settled[h]
        /\ UNCHANGED <<journal, failure, chain, pc, live, emitted, open, rejected, settled, got, answers, applied,
             file, kept>>
        /\ \/ HasPending /\ phase' = "flushing" /\ Flush(Main)
           \/ ~HasPending /\ phase' = "flushed" /\ UNCHANGED <<calls, spliced>>
    BY DEF Drained, handleVars, Doomed
  <1>2. Shapes /\ Len(journal) \in Nat /\ spliced \in Nat /\ applied \in Nat /\ spliced <= Len(journal) /\
       applied <= spliced /\ IsSequence(calls)
    BY DEF Hopeful, Shapes, Invariant, Types
  <1>3. spliced' = Len(journal) /\ spliced <= spliced'
    BY <1>1, <1>2 DEF HasPending, Flush
  <1>4. Shapes'
    <2>1. spliced' \in 0 .. Len(journal) /\ applied \in 0 .. spliced'
      BY <1>2, <1>3
    <2> QED BY <1>1, <2>1 DEF Hopeful, Shapes, Now
  <1>5. Ranges'
    <2>1. CASE HasPending
      BY <1>1, <1>2, <1>4, <2>1, RangesFlush DEF Hopeful
    <2>2. CASE ~HasPending
      BY <1>1, <2>2 DEF Hopeful, Ranges, Carries
    <2> QED BY <2>1, <2>2
  <1>6. Finale'
    <2>1. Len(calls) = 0
      <3>1. Len(calls) \in Nat
        BY LenProperties DEF Invariant, Types, IsSequence
      <3>2. ASSUME NEW i \in 1 .. Len(calls) PROVE FALSE
        <4>1. WaitsFor(calls[i], phase, pc)
          BY DEF Invariant, Calling
        <4> QED BY <1>1, <4>1 DEF WaitsFor, Invariant, Ended
      <3> QED BY <3>1, <3>2
    <2>2. applied = spliced
      <3>1. \A k \in applied + 1 .. spliced : \E i \in 1 .. 0 : Carries(calls[i], k)
        BY <2>1 DEF Hopeful, Ranges
      <3>2. ~(applied < spliced)
        <4>1. applied < spliced => applied + 1 \in applied + 1 .. spliced
          BY <1>2
        <4> QED BY <3>1, <4>1
      <3> QED BY <1>2, <3>2
    <2> QED BY <1>1, <1>3, <2>2 DEF Finale, HasPending
  <1>7. Kept /\ \A x \in Handles : Same(x)
    BY <1>1, <1>2 DEF Kept, Same
  <1>8. \A x \in Handles : Passed(x)
    BY <1>1, <1>3, <1>4, <1>7, Elsewhere
  <1> QED BY <1>1, <1>4, <1>5, <1>6, <1>8, StillAnswered DEF Hopeful, Passed, Progress

-----------------------------------------------------------------------------
(* The steps of a handle that leave the engine and the journal alone.       *)

(* settle() prints the open directive, if it can be printed.                *)
LEMMA SettleHopes ==
  ASSUME Invariant, Hopeful, NEW h \in Handles, Settle(h), ~Doomed, ~Doomed'
  PROVE  Hopeful' /\ Progress
  <1> DEFINE d == Memoized(journal[open[h]])
  <1>1. /\ UNCHANGED <<phase, spliced, failure, chain, pc, live, emitted, open, got, answers, applied, calls, file, kept>>
        /\ pc[h] = "idle" /\ phase = "drain"
        /\ journal' = journal \/ (open[h] # 0 /\ journal' = [journal EXCEPT ![open[h]] = d])
    <2>1. ~rejected'[h]
      BY DEF Doomed
    <2>2. settled' = [settled EXCEPT ![h] = TRUE] /\ (rejected' = [rejected EXCEPT ![h] = TRUE] => rejected'[h])
      BY DEF Settle, Invariant, Types
    <2> QED BY <2>1, <2>2 DEF Settle, engineVars
  <1>2. Shapes /\ Len(journal) \in Nat /\ spliced \in Nat /\ DOMAIN journal = 1 .. Len(journal) /\ open[h] \in Nat
    BY DEF Hopeful, Shapes
  <1>3. open[h] # 0 => open[h] \in 1 .. Len(journal) /\ journal[open[h]].by = h
    BY <1>2 DEF Hopeful, Opened
  <1> HIDE DEF d
  <1>4. \A k \in 1 .. Len(journal) : journal'[k] = journal[k] \/ (k = open[h] /\ journal'[k] = Memoized(journal[k]))
    BY <1>1, <1>2, <1>3 DEF d
  <1>5. journal' = [i \in DOMAIN journal |-> journal'[i]]
    <2>1. journal = [i \in DOMAIN journal |-> journal[i]]
      BY <1>2 DEF Shapes
    <2> QED BY <1>1, <2>1
  <1>6. journal' \in Seq(Directives) /\ Len(journal') = Len(journal)
    <2>1. \A k \in 1 .. Len(journal) : journal'[k] = journal[k] \/ journal'[k] = Memoized(journal[k])
      BY <1>4
    <2> HIDE DEF Memoized
    <2>2. PICK f : f = journal'
      OBVIOUS
    <2>3. f \in Seq(Directives) /\ Len(f) = Len(journal)
      BY <1>2, <1>5, <2>1, <2>2, StillDirectives
    <2> QED BY <2>2, <2>3
  <1>7. Shapes' /\ Finale'
    BY <1>1, <1>6 DEF Hopeful, Shapes, Finale, Now
  <1>8. Kept /\ spliced <= spliced' /\ \A x \in Handles : Same(x)
    BY <1>1, <1>2, <1>4, <1>6 DEF Kept, Same
  <1>9. Ranges'
    <2>1. \A k \in 1 .. Len(journal) : journal'[k].by = journal[k].by
      BY <1>2, <1>4, PrintedOnce
    <2>2. \A k \in Len(journal) + 1 .. Len(journal') : FALSE
      BY <1>2, <1>6
    <2> QED BY <1>1, <1>2, <1>6, <1>7, <2>1, <2>2, RangesKept DEF Hopeful
  <1>10. ASSUME NEW x \in Handles, pc[x] # "idle", NEW k \in spliced' + 1 .. Len(journal), journal[k].by = x
        PROVE  journal'[k].content = journal[k].content
    <2>1. k \in 1 .. Len(journal) /\ x # h
      BY <1>1, <1>2, <1>10
    <2>2. k # open[h]
      BY <1>3, <1>10, <2>1
    <2> QED BY <1>4, <2>1, <2>2
  <1>11. \A x \in Handles : Passed(x)
    BY <1>6, <1>7, <1>8, <1>10, Elsewhere
  <1> QED BY <1>1, <1>7, <1>9, <1>11, StillAnswered DEF Hopeful, Passed, Progress

(* A step within one handle: what it leaves alone, and what it may change.  *)
Within(h) ==
  /\ phase \in {"fn", "drain"} /\ UNCHANGED <<phase, journal, spliced, open, applied, calls, file>>
  /\ \A x \in Handles \ {h} : Same(x)
  /\ live[h] # None => live'[h] # None

(* A step within one handle needs to be looked at in that handle only.      *)
LEMMA WithinHopes ==
  ASSUME Hopeful, NEW h \in Handles, Shapes', Within(h), Answered', Opened(h)' /\ Standing(h)' /\ Live(h)' /\ Told(h)'
  PROVE  Hopeful' /\ \A x \in Handles \ {h} : Still(x)
  <1>1. /\ Shapes /\ \A x \in Handles : Opened(x) /\ Standing(x) /\ Live(x) /\ Told(x)
        /\ Len(journal) \in Nat /\ spliced \in Nat /\ journal' = journal /\ spliced' = spliced
    BY DEF Hopeful, Shapes, Within
  <1>2. \A k \in Len(journal) + 1 .. Len(journal') : FALSE
    BY <1>1
  <1>3. Kept /\ spliced <= spliced'
    BY <1>1 DEF Kept, Within
  <1>4. \A x \in Handles : live[x] # None => live'[x] # None
    BY DEF Within, Same
  <1>5. Sound(journal, live, file, applied)'
    BY <1>1, <1>2, <1>3, <1>4, KeptPrints, PrintingSounds DEF Kept
  <1>6. \A x \in Handles \ {h} : Passed(x)
    BY <1>1, <1>2, <1>3, <1>5, Others DEF Within
  <1>7. Ranges' /\ Finale'
    BY DEF Hopeful, Ranges, Carries, Finale, Within
  <1> QED BY <1>6, <1>7 DEF Hopeful, Passed

(* The document is then the same, for a handle with no text to print.       *)
LEMMA WithinDocument ==
  ASSUME Hopeful, NEW h \in Handles, Shapes', Within(h),
         live'[h] = live[h] \/ \A k \in 1 .. Len(journal) : journal[k].by = h => journal[k].content # None
  PROVE  Document'[h] = Document[h] /\ (Stuck(h) => Stuck(h)')
  <1>1. /\ Shapes /\ \A x \in Handles : Opened(x)
        /\ Len(journal) \in Nat /\ journal' = journal
    BY DEF Hopeful, Shapes, Within
  <1>2. \A k \in Len(journal) + 1 .. Len(journal') : FALSE
    BY <1>1
  <1>3. Kept
    BY <1>1 DEF Kept, Within
  <1>4. \A x \in Handles : live[x] # None => live'[x] # None
    BY DEF Within, Same
  <1>5. Sound(journal, live, file, applied)'
    BY <1>1, <1>2, <1>3, <1>4, KeptPrints, PrintingSounds DEF Kept
  <1>6. \A k \in Len(journal) + 1 .. Len(journal') : journal'[k].by # h
    BY <1>2
  <1> QED BY <1>1, <1>3, <1>5, <1>6, KeptDocument

(* The document of a path of which nothing is on its way.                   *)
LEMMA LoadedIsDocument ==
  ASSUME Hopeful, NEW h \in Handles, pc[h] = "loaded"
  PROVE  got[h] = Document[h] /\ ~Stuck(h) /\ Document[h] = Replay(h, Now(h) - 1) /\ file[h] = Document[h]
  <1>1. Sound(journal, live, file, applied)
    BY Sounds DEF Hopeful
  <1>2. got[h] = file[h] /\ \A k \in applied + 1 .. Len(journal) : journal[k].by # h
    BY DEF Hopeful, Standing
  <1>3. Document[h] = file[h] /\ ~Stuck(h)
    BY <1>1, <1>2, NothingUnderWay
  <1>4. Document[h] = Replay(h, Done(h))
    BY <1>3 DEF Hopeful, Told
  <1> QED BY <1>2, <1>3, <1>4 DEF Done

(* What a step of each kind adds to the replay.                             *)
LEMMA ReplayStep ==
  ASSUME NEW h, Now(h) \in Nat, Now(h) > 0
  PROVE  Replay(h, Now(h)) = IF Doing(h) = "replace" THEN <<Now(h)>>
                             ELSE IF Doing(h) = "remove" THEN Gone
                             ELSE IF Doing(h) \in Edits THEN Append(Replay(h, Now(h) - 1), Now(h))
                             ELSE Replay(h, Now(h) - 1)
  <1> DEFINE n == Now(h) - 1
             e == [does |-> chain[h][n + 1], number |-> n + 1]
  <1>1. n \in Nat /\ n + 1 = Now(h)
    OBVIOUS
  <1>2. Replayed(chain[h], n + 1) = Edited(Replayed(chain[h], n), e)
    <2> HIDE DEF n
    <2> QED BY <1>1, ReplayOn
  <1>3. e.does = Doing(h) /\ e.number = Now(h)
    BY <1>1 DEF Doing
  <1> HIDE DEF n, e
  <1> QED BY <1>1, <1>2, <1>3, ReplayIs DEF Edited, n

(* A step is chosen: the effects of the earlier ones stay what they are.    *)
LEMMA EnqueueHopes ==
  ASSUME Invariant, Hopeful, ~EditAfterReplace, ~EditAfterMeasure, NEW h \in Handles, NEW s \in Kinds, Enqueue(h, s)
  PROVE  Hopeful' /\ Progress
  <1>1. /\ phase \in {"fn", "drain"} /\ pc[h] = "idle" /\ Now(h) < MaxSteps
        /\ Outdated(h) => s \in {"read", "replace", "remove"}
        /\ Measured(h) => s \notin Edits
        /\ chain' = [chain EXCEPT ![h] = Append(@, s)] /\ pc' = [pc EXCEPT ![h] = "queued"]
        /\ UNCHANGED <<phase, journal, spliced, live, emitted, open, got, answers, applied, calls, file>>
    BY DEF Enqueue, engineVars
  <1>2. /\ chain \in [Handles -> Seq(Kinds)] /\ chain[h] \in Seq(Kinds) /\ Now(h) \in Nat /\ MaxSteps \in Nat
        /\ \A x \in Handles : Now(x) \in Nat /\ Now(x) <= MaxSteps
    BY HandleAssumption DEF Hopeful, Shapes, Now
  <1>3. /\ chain'[h] \in Seq(Kinds) /\ Now(h)' = Now(h) + 1 /\ chain'[h][Now(h) + 1] = s
        /\ \A k \in 1 .. Now(h) : chain'[h][k] = chain[h][k]
        /\ \A x \in Handles \ {h} : chain'[x] = chain[x]
    <2>1. chain'[h] = Append(chain[h], s) /\ \A x \in Handles \ {h} : chain'[x] = chain[x]
      BY <1>1, <1>2
    <2>2. \A c \in Seq(Kinds) : /\ Append(c, s) \in Seq(Kinds) /\ Len(Append(c, s)) = Len(c) + 1 /\
                                     Append(c, s)[Len(c) + 1] = s
                                /\ \A k \in 1 .. Len(c) : Append(c, s)[k] = c[k]
      BY AppendProperties
    <2> QED BY <1>2, <2>1, <2>2 DEF Now
  <1>4. Shapes'
    <2>1. chain' \in [Handles -> Seq(Kinds)]
      BY <1>1, <1>2, <1>3
    <2>2. \A x \in Handles : Now(x)' <= MaxSteps
      BY <1>1, <1>2, <1>3 DEF Now
    <2> QED BY <1>1, <2>1, <2>2 DEF Hopeful, Shapes
  <1>5. Within(h)
    BY <1>1, <1>3 DEF Within, Same, Hopeful, Shapes, Invariant, Types
  <1>6. pc'[h] = "queued" /\ live'[h] = live[h] /\ open'[h] = open[h] /\ emitted'[h] = emitted[h]
    BY <1>1 DEF Invariant, Types
  <1>7. Done(h) = Now(h) /\ Done(h)' = Now(h) /\ Doing(h)' = s
    <2>1. Done(h) = Now(h)
      BY <1>1 DEF Done
    <2>2. Done(h)' = Now(h)' - 1
      BY <1>6 DEF Done
    <2>3. Doing(h)' = chain'[h][Now(h)']
      BY DEF Doing
    <2> QED BY <1>2, <1>3, <2>1, <2>2, <2>3
  <1>8. \A n \in 0 .. Now(h) : Replay(h, n)' = Replay(h, n)
    <2> SUFFICES ASSUME NEW n \in 0 .. Now(h) PROVE Replay(h, n)' = Replay(h, n)
      OBVIOUS
    <2>1. Replay(h, n) = Replayed(chain[h], n) /\ Replay(h, n)' = Replayed(chain'[h], n)
      BY DEF Replay, Replayed
    <2>2. \A k \in 1 .. n : k \in 1 .. Now(h)
      BY <1>2
    <2>3. \A k \in 1 .. n : chain'[h][k] = chain[h][k]
      BY <1>3, <2>2
    <2> QED BY <2>1, <2>3, ReplaySame
  <1>9. Document'[h] = Document[h] /\ (Stuck(h) => Stuck(h)')
    BY <1>4, <1>5, <1>6, WithinDocument
  <1>10. Opened(h)'
    <2>1. ~(Doing(h)' \in Edits /\ Measured(h)')
      BY <1>1, <1>6, <1>7 DEF Measured, OpenIsPending
    <2> QED BY <1>1, <1>6, <2>1 DEF Hopeful, Opened
  <1>11. Standing(h)'
    BY <1>2, <1>3, <1>6 DEF Standing
  <1>12. Live(h)'
    <2>1. Baseline(h)' = Baseline(h)
      BY <1>1 DEF Baseline, Memoized
    <2>2. InStep(h) => InStep(h)'
      <3>1. Now(h) \in 0 .. Now(h)
        BY <1>2
      <3> QED BY <1>1, <1>6, <1>7, <1>8, <1>9, <2>1, <3>1 DEF InStep
    <2>3. Outdated(h) => Outdated(h)'
      <3>1. DOMAIN chain[h] = 1 .. Now(h) /\ DOMAIN chain'[h] = 1 .. Now(h) + 1
        BY <1>2, <1>3 DEF Now
      <3>2. \A i \in 1 .. Now(h) : i \in 1 .. Now(h) + 1
        BY <1>2
      <3> QED BY <1>3, <1>6, <3>1, <3>2 DEF Outdated
    <2> QED BY <1>1, <1>6, <1>7, <2>2, <2>3 DEF Hopeful, Live
  <1>13. Told(h)'
    <2>1. Stuck(h) \/ Document[h] = Replay(h, Now(h))
      BY <1>1, <1>7 DEF Hopeful, Told
    <2>2. Now(h) \in 0 .. Now(h)
      BY <1>2
    <2> QED BY <1>7, <1>8, <1>9, <2>1, <2>2 DEF Told
  <1>14. Answered'
    <2>1. \A x \in Handles : Now(x) \in Nat /\ Now(x)' \in Nat /\ Now(x) <= Now(x)'
      BY <1>2, <1>3 DEF Now
    <2>2. \A x \in Handles : \A k \in 1 .. Now(x) : chain'[x][k] = chain[x][k]
      BY <1>3
    <2> QED BY <1>1, <2>1, <2>2, AnsweredKept DEF Hopeful
  <1>15. Hopeful' /\ \A x \in Handles \ {h} : Still(x)
    BY <1>4, <1>5, <1>10, <1>11, <1>12, <1>13, <1>14, WithinHopes
  <1> QED BY <1>9, <1>15 DEF Progress, Still

(* What is read off a chain stays while the chain does.                     *)
LEMMA SameChain ==
  ASSUME chain' = chain, NEW h
  PROVE  /\ Now(h)' = Now(h) /\ Doing(h)' = Doing(h) /\ \A n : Replay(h, n)' = Replay(h, n)
         /\ live'[h] = live[h] => (Outdated(h)' <=> Outdated(h))
  BY DEF Now, Doing, Replay, Outdated

(* What the next directive is compared with stays while its parts do.       *)
LEMMA SameBaseline ==
  ASSUME UNCHANGED <<journal, live>>, NEW h, open'[h] = open[h], emitted'[h] = emitted[h]
  PROVE  Baseline(h)' = Baseline(h)
  BY DEF Baseline, Memoized

(* A step that works on the live document, or reads with nothing pending.   *)
LEMMA EnterHopes ==
  ASSUME Invariant, Hopeful, NEW h \in Handles, phase \in {"fn", "drain"}, Enter(h)
  PROVE  Hopeful' /\ Progress
  <1>1. /\ pc[h] = "queued" /\ Doing(h) \notin {"replace", "remove"}
        /\ UNCHANGED <<phase, journal, chain, live, emitted, open, got, answers, applied, file>>
        /\ \/ Doing(h) # "read" /\ live[h] # None /\ pc' = [pc EXCEPT ![h] = "ready"] /\ UNCHANGED <<calls, spliced>>
           \/ ~(Doing(h) # "read" /\ live[h] # None) /\ HasPending /\ pc' = [pc EXCEPT ![h] = "flushing"] /\ Flush(h)
           \/ ~(Doing(h) # "read" /\ live[h] # None) /\ ~HasPending /\ pc' = [pc EXCEPT ![h] = "flushed"] /\
                UNCHANGED <<calls, spliced>>
    BY DEF Enter
  <1>2. /\ Len(journal) \in Nat /\ spliced \in Nat /\ applied \in Nat /\ spliced <= Len(journal) /\
             applied <= spliced /\ IsSequence(calls)
        /\ open[h] \in Nat /\ Now(h) \in Nat /\ Now(h) > 0
    BY <1>1 DEF Hopeful, Shapes, Invariant, Types, Standing, Now
  <1>3. spliced <= spliced' /\ spliced' \in 0 .. Len(journal) /\ (pc'[h] # "ready" => spliced' = Len(journal))
    BY <1>1, <1>2 DEF HasPending, Flush, Invariant, Types
  <1>4. Shapes'
    <2>1. applied \in 0 .. spliced'
      BY <1>2, <1>3
    <2> QED BY <1>1, <1>3, <2>1 DEF Hopeful, Shapes, Now
  <1>5. Kept /\ Len(journal') = Len(journal)
    BY <1>1, <1>2 DEF Kept
  <1>6. \A x \in Handles \ {h} : Same(x)
    BY <1>1 DEF Same, Invariant, Types
  <1>7. \A k \in Len(journal) + 1 .. Len(journal') : FALSE
    BY <1>2, <1>5
  <1>8. Sound(journal, live, file, applied)'
    BY <1>1, <1>4, <1>5, <1>7, KeptPrints, PrintingSounds DEF Hopeful, Kept
  <1>9. \A x \in Handles \ {h} : Passed(x)
    <2>1. \A k \in 1 .. Len(journal) : journal[k].by # h => journal'[k] = journal[k]
      BY <1>1
    <2> QED BY <1>3, <1>4, <1>5, <1>6, <1>7, <1>8, <2>1, Others DEF Hopeful
  <1>10. Document'[h] = Document[h] /\ (Stuck(h) => Stuck(h)')
    <2>1. \A k \in Len(journal) + 1 .. Len(journal') : journal'[k].by # h
      BY <1>7
    <2> QED BY <1>1, <1>5, <1>8, <2>1, KeptDocument DEF Hopeful
  <1>11. /\ Now(h)' = Now(h) /\ Doing(h)' = Doing(h) /\ \A n : Replay(h, n)' = Replay(h, n)
         /\ (Outdated(h)' <=> Outdated(h)) /\ Baseline(h)' = Baseline(h)
    BY <1>1, SameChain, SameBaseline
  <1>12. pc'[h] \in {"ready", "flushing", "flushed"} /\ (pc'[h] = "ready" <=> Doing(h) # "read" /\ live[h] # None)
    BY <1>1 DEF Invariant, Types
  <1>13. Done(h)' = Done(h) /\ Done(h) = Now(h) - 1
    BY <1>1, <1>11, <1>12 DEF Done
  <1>14. Opened(h)'
    <2>1. Measured(h)' => Measured(h)
      <3>1. open[h] > spliced' => open[h] > spliced
        BY <1>2, <1>3
      <3> QED BY <1>1, <3>1 DEF Measured, OpenIsPending
    <2> QED BY <1>1, <1>11, <2>1 DEF Hopeful, Opened, Edits
  <1>15. Standing(h)'
    <2>1. \A k \in spliced' + 1 .. Len(journal') : pc'[h] = "ready"
      <3>1. \A k \in Len(journal) + 1 .. Len(journal) : FALSE
        BY <1>2
      <3>2. pc'[h] # "ready" => spliced' = Len(journal)
        BY <1>3
      <3> QED BY <1>5, <3>1, <3>2, Zenon
    <2> QED BY <1>1, <1>2, <1>11, <1>12, <2>1 DEF Standing
  <1>16. Live(h)'
    <2>1. InStep(h) => InStep(h)'
      BY <1>1, <1>10, <1>11, <1>13 DEF InStep
    <2>2. live[h] # None => InStep(h) \/ (Outdated(h) /\ Doing(h) \in {"read", "replace", "remove"})
      BY <1>1 DEF Hopeful, Live
    <2> QED BY <1>1, <1>11, <2>1, <2>2 DEF Live
  <1>17. Told(h)'
    BY <1>1, <1>10, <1>11, <1>13 DEF Hopeful, Told
  <1>18. Ranges'
    <2>1. CASE HasPending /\ Flush(h)
      BY <1>1, <1>2, <1>4, <2>1, RangesFlush DEF Hopeful
    <2>2. CASE UNCHANGED <<calls, spliced>>
      BY <1>1, <2>2 DEF Hopeful, Ranges, Carries
    <2> QED BY <1>1, <2>1, <2>2
  <1>19. Finale'
    BY <1>1 DEF Hopeful, Finale
  <1>20. Progress
    BY <1>9, <1>10 DEF Progress, Passed, Still
  <1> QED BY <1>1, <1>4, <1>9, <1>14, <1>15, <1>16, <1>17, <1>18, <1>19, <1>20, StillAnswered DEF Hopeful, Passed

(* The read is asked for: it travels behind what the flush has sent.        *)
LEMMA AskHopes ==
  ASSUME Invariant, Hopeful, NEW h \in Handles, phase \in {"fn", "drain"}, Ask(h)
  PROVE  Hopeful' /\ Progress
  <1>1. /\ pc[h] = "flushed" /\ pc' = [pc EXCEPT ![h] = "reading"]
        /\ calls' = Append(calls, [kind |-> "read", by |-> h, lo |-> 1, hi |-> 0])
        /\ UNCHANGED <<phase, journal, spliced, chain, live, emitted, open, got, answers, applied, file>>
    BY DEF Ask
  <1>2. /\ Len(journal) \in Nat /\ spliced \in Nat /\ applied \in Nat /\ IsSequence(calls)
        /\ Now(h) \in Nat /\ Now(h) > 0 /\ pc'[h] = "reading"
    BY <1>1 DEF Hopeful, Shapes, Invariant, Types, Standing, Now
  <1>3. Shapes' /\ Finale'
    BY <1>1 DEF Hopeful, Shapes, Now, Finale
  <1>4. Kept /\ Len(journal') = Len(journal) /\ spliced <= spliced'
    BY <1>1, <1>2 DEF Kept
  <1>5. \A x \in Handles \ {h} : Same(x)
    BY <1>1 DEF Same, Invariant, Types
  <1>6. \A k \in Len(journal) + 1 .. Len(journal') : FALSE
    BY <1>2, <1>4
  <1>7. Sound(journal, live, file, applied)'
    BY <1>1, <1>3, <1>4, <1>6, KeptPrints, PrintingSounds DEF Hopeful, Kept
  <1>8. \A x \in Handles \ {h} : Passed(x)
    <2>1. \A k \in 1 .. Len(journal) : journal[k].by # h => journal'[k] = journal[k]
      BY <1>1
    <2> QED BY <1>3, <1>4, <1>5, <1>6, <1>7, <2>1, Others DEF Hopeful
  <1>9. Document'[h] = Document[h] /\ (Stuck(h) => Stuck(h)')
    <2>1. \A k \in Len(journal) + 1 .. Len(journal') : journal'[k].by # h
      BY <1>6
    <2> QED BY <1>1, <1>4, <1>7, <2>1, KeptDocument DEF Hopeful
  <1>10. /\ Now(h)' = Now(h) /\ Doing(h)' = Doing(h) /\ \A n : Replay(h, n)' = Replay(h, n)
         /\ (Outdated(h)' <=> Outdated(h)) /\ Baseline(h)' = Baseline(h)
    BY <1>1, SameChain, SameBaseline
  <1>11. Done(h)' = Done(h)
    BY <1>1, <1>2, <1>10 DEF Done
  <1>12. Opened(h)'
    <2>1. Measured(h)' => Measured(h)
      BY <1>1 DEF Measured, OpenIsPending
    <2> QED BY <1>1, <1>10, <2>1 DEF Hopeful, Opened, Edits
  <1>13. Standing(h)'
    BY <1>1, <1>2, <1>10 DEF Hopeful, Standing
  <1>14. Live(h)'
    <2>1. InStep(h) => InStep(h)'
      BY <1>1, <1>9, <1>10, <1>11 DEF InStep
    <2> QED BY <1>1, <1>10, <2>1 DEF Hopeful, Live
  <1>15. Told(h)'
    BY <1>1, <1>9, <1>10, <1>11 DEF Hopeful, Told
  <1>16. Ranges'
    <2>1. \A k \in spliced + 1 .. Len(journal) : journal[k].by # h
      BY <1>1 DEF Hopeful, Standing
    <2> QED BY <1>1, <1>2, <1>3, <2>1, RangesAsk DEF Hopeful
  <1>17. Progress
    BY <1>8, <1>9 DEF Progress, Passed, Still
  <1> QED BY <1>1, <1>3, <1>8, <1>12, <1>13, <1>14, <1>15, <1>16, <1>17, StillAnswered DEF Hopeful, Passed

(* read() answers with the document.                                        *)
LEMMA ReadDoneHopes ==
  ASSUME Invariant, Hopeful, NEW h \in Handles, phase \in {"fn", "drain"}, ReadDone(h)
  PROVE  Hopeful' /\ Progress
  <1>1. /\ pc[h] = "loaded" /\ Doing(h) = "read" /\ Answer(h, got[h]) /\ pc' = [pc EXCEPT ![h] = "idle"]
        /\ UNCHANGED <<phase, journal, spliced, chain, live, emitted, open, got, applied, calls, file>>
    BY DEF ReadDone, Finish, engineVars
  <1>2. Now(h) \in Nat /\ Now(h) > 0 /\ pc'[h] = "idle" /\ Shapes'
    BY <1>1 DEF Hopeful, Shapes, Invariant, Types, Standing, Now
  <1>3. Within(h)
    BY <1>1 DEF Within, Same, Invariant, Types
  <1>4. Document'[h] = Document[h] /\ (Stuck(h) => Stuck(h)')
    BY <1>1, <1>2, <1>3, WithinDocument
  <1>5. /\ Now(h)' = Now(h) /\ Doing(h)' = Doing(h) /\ \A n : Replay(h, n)' = Replay(h, n)
        /\ (Outdated(h)' <=> Outdated(h)) /\ Baseline(h)' = Baseline(h)
    BY <1>1, SameChain, SameBaseline
  <1>6. Done(h) = Now(h) - 1 /\ Done(h)' = Now(h) /\ Replay(h, Now(h)) = Replay(h, Now(h) - 1)
    BY <1>1, <1>2, <1>5, ReplayStep DEF Done, Edits
  <1>7. Opened(h)'
    BY <1>1, <1>2 DEF Hopeful, Opened
  <1>8. Standing(h)'
    BY <1>2 DEF Standing
  <1>9. Live(h)'
    <2>1. InStep(h) => InStep(h)'
      BY <1>1, <1>4, <1>5, <1>6 DEF InStep
    <2> QED BY <1>1, <1>2, <1>5, <2>1 DEF Hopeful, Live
  <1>10. Told(h)'
    BY <1>1, <1>4, <1>5, <1>6 DEF Hopeful, Told
  <1>11. Answered'
    <2>1. got[h] = Replay(h, Now(h) - 1)
      BY <1>1, LoadedIsDocument
    <2> QED BY <1>1, <1>2, <2>1, AnsweredMore DEF Hopeful
  <1> QED BY <1>2, <1>3, <1>7, <1>8, <1>9, <1>10, <1>11, <1>4, WithinHopes DEF Progress, Still

(* A query answers with the live document.                                  *)
LEMMA QueryHopes ==
  ASSUME Invariant, Hopeful, NEW h \in Handles, phase \in {"fn", "drain"}, Query(h), ~Doomed'
  PROVE  Hopeful' /\ Progress
  <1>1. /\ pc[h] = "ready" /\ Doing(h) = "query" /\ Answer(h, live[h]) /\ pc' = [pc EXCEPT ![h] = "idle"]
        /\ UNCHANGED <<phase, journal, spliced, chain, live, emitted, open, got, applied, calls, file>>
    <2>1. ~rejected'[h]
      BY DEF Doomed
    <2>2. ~Reject(h)
      BY <2>1 DEF Reject, Invariant, Types
    <2> QED BY <2>2 DEF Query, Finish, engineVars
  <1>2. Now(h) \in Nat /\ Now(h) > 0 /\ pc'[h] = "idle" /\ Shapes'
    BY <1>1 DEF Hopeful, Shapes, Invariant, Types, Standing, Now
  <1>3. Within(h)
    BY <1>1 DEF Within, Same, Invariant, Types
  <1>4. Document'[h] = Document[h] /\ (Stuck(h) => Stuck(h)')
    BY <1>1, <1>2, <1>3, WithinDocument
  <1>5. /\ Now(h)' = Now(h) /\ Doing(h)' = Doing(h) /\ \A n : Replay(h, n)' = Replay(h, n)
        /\ (Outdated(h)' <=> Outdated(h)) /\ Baseline(h)' = Baseline(h)
    BY <1>1, SameChain, SameBaseline
  <1>6. Done(h) = Now(h) - 1 /\ Done(h)' = Now(h) /\ Replay(h, Now(h)) = Replay(h, Now(h) - 1)
    BY <1>1, <1>2, <1>5, ReplayStep DEF Done, Edits
  <1>7. Opened(h)'
    BY <1>1, <1>2 DEF Hopeful, Opened
  <1>8. Standing(h)'
    BY <1>2 DEF Standing
  <1>9. InStep(h) /\ InStep(h)'
    <2>1. InStep(h)
      BY <1>1 DEF Hopeful, Live, Standing
    <2> QED BY <1>1, <1>4, <1>5, <1>6, <2>1 DEF InStep
  <1>10. Told(h)'
    BY <1>1, <1>4, <1>5, <1>6 DEF Hopeful, Told
  <1>11. Answered'
    <2>1. live[h] = Replay(h, Now(h) - 1)
      BY <1>6, <1>9 DEF InStep
    <2> QED BY <1>1, <1>2, <2>1, AnsweredMore DEF Hopeful
  <1> QED BY <1>2, <1>3, <1>7, <1>8, <1>9, <1>10, <1>11, <1>4, WithinHopes DEF Live, Progress, Still

(* #ensureLive parses what the read returned.                               *)
LEMMA LoadHopes ==
  ASSUME Invariant, Hopeful, NEW h \in Handles, phase \in {"fn", "drain"}, Load(h), ~Doomed'
  PROVE  Hopeful' /\ Progress
  <1>1. /\ pc[h] = "loaded" /\ Doing(h) # "read" /\ got[h] # Gone
        /\ live' = [live EXCEPT ![h] = got[h]] /\ emitted' = [emitted EXCEPT ![h] = got[h]]
        /\ pc' = [pc EXCEPT ![h] = "ready"]
        /\ UNCHANGED <<phase, journal, spliced, chain, open, got, answers, applied, calls, file>>
    <2>1. ~rejected'[h]
      BY DEF Doomed
    <2>2. ~Reject(h)
      BY <2>1 DEF Reject, Invariant, Types
    <2> QED BY <2>2 DEF Load, engineVars
  <1>2. /\ got[h] = Document[h] /\ ~Stuck(h) /\ Document[h] = Replay(h, Now(h) - 1)
        /\ got[h] \in Contents /\ got[h] # None
    <2>1. got[h] = Document[h] /\ ~Stuck(h) /\ Document[h] = Replay(h, Now(h) - 1) /\ file[h] = Document[h]
      BY <1>1, LoadedIsDocument
    <2>2. file[h] \in Contents \cup {Gone}
      BY DEF Hopeful, Shapes
    <2> QED BY <1>1, <2>1, <2>2, HandleAssumption DEF Contents
  <1>3. /\ Now(h) \in Nat /\ Now(h) > 0 /\ Doing(h) \notin {"read", "replace", "remove"} /\ live[h] = None /\ open[h] = 0
        /\ pc'[h] = "ready" /\ live'[h] = got[h] /\ emitted'[h] = got[h]
    <2>1. live[h] = None /\ Now(h) > 0 /\ Doing(h) \notin {"read", "replace", "remove"}
      BY <1>1 DEF Hopeful, Standing
    <2>2. open[h] = 0
      BY <2>1 DEF Hopeful, Opened
    <2> QED BY <1>1, <2>1, <2>2 DEF Hopeful, Shapes, Invariant, Types, Now
  <1>4. Shapes'
    BY <1>1, <1>2 DEF Hopeful, Shapes, Now
  <1>5. Within(h)
    BY <1>1, <1>3 DEF Within, Same, Invariant, Types, Hopeful, Shapes
  <1>6. Document'[h] = Document[h]
    <2>1. \A k \in 1 .. Len(journal) : journal[k].by = h => journal[k].content # None
      BY <1>3 DEF Hopeful, Opened
    <2> QED BY <1>4, <1>5, <2>1, WithinDocument
  <1>7. Now(h)' = Now(h) /\ Doing(h)' = Doing(h) /\ \A n : Replay(h, n)' = Replay(h, n)
    BY <1>1, SameChain
  <1>8. Done(h)' = Now(h) - 1
    BY <1>3, <1>7 DEF Done
  <1>9. Opened(h)'
    <2>1. open'[h] = 0
      BY <1>1, <1>3
    <2>2. ~Measured(h)'
      <3>1. spliced' \in Nat
        BY <1>4 DEF Shapes
      <3> QED BY <2>1, <3>1 DEF Measured, OpenIsPending
    <2> QED BY <1>1, <1>3, <2>1, <2>2 DEF Hopeful, Opened
  <1>10. Standing(h)'
    BY <1>2, <1>3, <1>7 DEF Standing
  <1>11. Live(h)'
    <2>1. Baseline(h)' = got[h]
      BY <1>1, <1>3 DEF Baseline
    <2> QED BY <1>1, <1>2, <1>3, <1>6, <1>7, <1>8, <2>1 DEF Live, InStep
  <1>12. Told(h)'
    BY <1>2, <1>6, <1>7, <1>8 DEF Told
  <1> QED BY <1>1, <1>4, <1>5, <1>9, <1>10, <1>11, <1>12, <1>6, StillAnswered, WithinHopes DEF Progress, Still

-----------------------------------------------------------------------------
(* The steps of a handle that edit, and those that add a directive.         *)

(* A step that adds a directive of the handle it is a step of.              *)
Adds(h, d) ==
  /\ phase \in {"fn", "drain"} /\ UNCHANGED <<phase, spliced, chain, live, got, answers, applied, calls, file>>
  /\ \A x \in Handles \ {h} : Same(x)
  /\ d \in Directives /\ d.by = h /\ (d.content = None => live[h] # None)
  /\ journal' \in Seq(Directives) /\ Len(journal') = Len(journal) + 1 /\ journal'[Len(journal) + 1] = d
  /\ \A k \in 1 .. Len(journal) : journal'[k] = journal[k] \/ (journal[k].by = h /\ journal'[k] = Memoized(journal[k]))

(* A new directive, behind all others: the document becomes its content, or *)
(* the handle is stuck.                                                     *)
LEMMA AddsDirective ==
  ASSUME Invariant, Hopeful, NEW h \in Handles, NEW d, Adds(h, d), pc[h] \notin {"flushing", "reading"},
         emitted' \in [Handles -> Contents \cup {None}], open' \in [Handles -> Nat]
  PROVE  /\ Shapes' /\ Ranges' /\ Finale' /\ Answered'
         /\ \A x \in Handles \ {h} : Passed(x)
         /\ Document[h] # Gone => Document'[h] = ContentOf(d, live)
         /\ Document[h] = Gone => Stuck(h)' /\ Document'[h] = Gone
  <1>1. /\ Shapes /\ Len(journal) \in Nat /\ spliced \in 0 .. Len(journal) /\ applied \in 0 .. spliced
        /\ \A x \in Handles : Opened(x) /\ Standing(x) /\ Live(x) /\ Told(x)
    BY DEF Hopeful, Shapes
  <1>2. /\ live' = live /\ spliced' = spliced /\ applied' = applied /\ Len(journal') = Len(journal) + 1
        /\ journal'[Len(journal) + 1] = d /\ d.by = h
    BY DEF Adds
  <1>3. Kept /\ spliced <= spliced'
    BY <1>1, <1>2 DEF Adds, Kept
  <1>4. \A k \in Len(journal) + 1 .. Len(journal') : k = Len(journal) + 1
    BY <1>1, <1>2
  <1>5. Shapes'
    <2>1. spliced' \in 0 .. Len(journal')
      BY <1>1, <1>2
    <2> QED BY <1>1, <1>2, <2>1 DEF Adds, Shapes, Now
  <1>6. Sound(journal, live, file, applied)'
    <2>1. \A k \in Len(journal) + 1 .. Len(journal') : journal'[k].content = None => live'[journal'[k].by] # None
      BY <1>2, <1>4 DEF Adds
    <2>2. \A x \in Handles : OnlyPrints(x)
      BY <1>1, <1>3, KeptPrints
    <2>3. Len(journal) <= Len(journal') /\ \A x \in Handles : live[x] # None => live'[x] # None
      BY <1>2, <1>3 DEF Kept
    <2> QED BY <1>1, <1>5, <2>1, <2>2, <2>3, PrintingSounds
  <1>7. \A x \in Handles \ {h} : Passed(x)
    <2>1. \A k \in Len(journal) + 1 .. Len(journal') : journal'[k].by = h
      BY <1>2, <1>4
    <2>2. \A k \in 1 .. Len(journal) : journal[k].by # h => journal'[k] = journal[k]
      BY DEF Adds
    <2> QED BY <1>1, <1>3, <1>5, <1>6, <2>1, <2>2, Others DEF Adds
  <1>8. /\ Document[h] # Gone => Document'[h] = ContentOf(d, live)
        /\ Document[h] = Gone => Stuck(h)' /\ Document'[h] = Gone
    <2>1. /\ Document[h] # Gone => Document'[h] = ContentOf(journal'[Len(journal) + 1], live')
          /\ Document[h] = Gone => Stuck(h)' /\ Document'[h] = Gone
      BY <1>1, <1>2, <1>3, <1>6, AppendedDocument
    <2> QED BY <1>2, <2>1
  <1>9. Ranges'
    <2>1. \A i \in 1 .. Len(calls) : calls[i].by # h
      BY NoCall, HandleAssumption
    <2>2. \A k \in Len(journal) + 1 .. Len(journal') : \A i \in 1 .. Len(calls) : calls[i].by # journal'[k].by
      BY <1>2, <1>4, <2>1
    <2>3. \A k \in 1 .. Len(journal) : journal'[k].by = journal[k].by
      BY <1>1, PrintedOnce DEF Adds
    <2>4. Len(journal) <= Len(journal') /\ UNCHANGED <<calls, spliced, applied>>
      BY <1>3 DEF Kept, Adds
    <2> QED BY <1>1, <1>5, <2>2, <2>3, <2>4, RangesKept DEF Hopeful
  <1>10. Finale' /\ Answered'
    BY StillAnswered DEF Hopeful, Adds, Finale
  <1> QED BY <1>5, <1>7, <1>8, <1>9, <1>10

(* What appending one directive does to the journal.                        *)
LEMMA Appended ==
  ASSUME NEW s \in Seq(Directives), NEW d \in Directives
  PROVE  /\ Append(s, d) \in Seq(Directives) /\ Len(s) \in Nat /\ Len(Append(s, d)) = Len(s) + 1
         /\ Append(s, d)[Len(s) + 1] = d /\ \A k \in 1 .. Len(s) : Append(s, d)[k] = s[k]
  BY AppendProperties, LenProperties

(* replaceContent, remove: the file, if it is there, is as they say.        *)
LEMMA WholesaleHopes ==
  ASSUME Invariant, Hopeful, NEW h \in Handles, phase \in {"fn", "drain"}, Wholesale(h), ~Doomed'
  PROVE  Hopeful' /\ Progress
  <1> DEFINE d == IF Doing(h) = "replace" THEN Modify(h, <<Now(h)>>) ELSE Removal(h)
  <1>1. /\ pc[h] = "queued" /\ Doing(h) \in {"replace", "remove"} /\ pc' = [pc EXCEPT ![h] = "idle"] /\
             journal' = Append(journal, d)
        /\ UNCHANGED <<phase, spliced, chain, live, emitted, open, got, answers, applied, calls, file>>
    <2>1. ~rejected'[h]
      BY DEF Doomed
    <2>2. ~Reject(h)
      BY <2>1 DEF Reject, Invariant, Types
    <2> QED BY <2>2 DEF Wholesale, Finish, engineVars
  <1>2. Now(h) \in Nat /\ Now(h) > 0 /\ pc'[h] = "idle" /\ journal \in Seq(Directives) /\ Len(journal) \in Nat
    BY <1>1 DEF Hopeful, Shapes, Invariant, Types, Standing, Now
  <1>3. d \in Directives /\ d.by = h /\ d.content # None /\ d.content = (IF Doing(h) = "replace" THEN <<Now(h)>> ELSE Gone)
    <2>1. <<Now(h)>> \in Contents /\ <<Now(h)>> # None
      <3>1. \A n \in Nat : <<n>> \in Seq(Nat)
        OBVIOUS
      <3> QED BY <1>2, <3>1, HandleAssumption, Zenon DEF Contents
    <2>2. Modify(h, <<Now(h)>>) \in Directives /\ Modify(h, <<Now(h)>>).by = h /\ Modify(h, <<Now(h)>>).content = <<Now(h)>>
      BY <2>1 DEF Modify, Directives
    <2>3. Removal(h) \in Directives /\ Removal(h).by = h /\ Removal(h).content = Gone
      BY DEF Removal, Directives
    <2> QED BY <2>1, <2>2, <2>3, HandleAssumption
  <1> HIDE DEF d
  <1>4. /\ journal' \in Seq(Directives) /\ Len(journal') = Len(journal) + 1 /\ journal'[Len(journal) + 1] = d
        /\ \A k \in 1 .. Len(journal) : journal'[k] = journal[k]
    BY <1>1, <1>2, <1>3, Appended
  <1>5. Adds(h, d)
    BY <1>1, <1>3, <1>4 DEF Adds, Same, Invariant, Types
  <1>6. emitted' \in [Handles -> Contents \cup {None}] /\ open' \in [Handles -> Nat]
    BY <1>1 DEF Hopeful, Shapes
  <1>7. /\ Shapes' /\ Ranges' /\ Finale' /\ Answered'
        /\ \A x \in Handles \ {h} : Passed(x)
        /\ Document[h] # Gone => Document'[h] = ContentOf(d, live)
        /\ Document[h] = Gone => Stuck(h)' /\ Document'[h] = Gone
    BY <1>1, <1>5, <1>6, AddsDirective
  <1>8. Now(h)' = Now(h) /\ \A n : Replay(h, n)' = Replay(h, n)
    BY <1>1, SameChain
  <1>9. Done(h)' = Now(h)
    BY <1>2, <1>8 DEF Done
  <1>10. Told(h)'
    <2>1. Document[h] # Gone => Document'[h] = Replay(h, Now(h))
      BY <1>1, <1>2, <1>3, <1>7, ReplayStep DEF ContentOf
    <2> QED BY <1>7, <1>8, <1>9, <2>1 DEF Told
  <1>11. Opened(h)'
    <2>1. ASSUME NEW k \in 1 .. Len(journal'), journal'[k].by = h, journal'[k].content = None PROVE k = open'[h] /\
         k > applied'
      <3>1. k # Len(journal) + 1
        BY <1>3, <1>4, <2>1
      <3>2. k \in 1 .. Len(journal)
        BY <1>2, <1>4, <3>1
      <3>3. journal[k].by = h /\ journal[k].content = None
        BY <1>4, <2>1, <3>2
      <3> QED BY <1>1, <3>2, <3>3 DEF Hopeful, Opened
    <2>2. open'[h] # 0 => open'[h] <= Len(journal') /\ live'[h] # None /\ journal'[open'[h]].by = h /\
         journal'[open'[h]].content # Gone
      <3> SUFFICES ASSUME open[h] # 0 PROVE open[h] <= Len(journal') /\ live[h] # None /\
           journal'[open[h]].by = h /\ journal'[open[h]].content # Gone
        BY <1>1
      <3>1. open[h] \in Nat /\ open[h] <= Len(journal) /\ live[h] # None /\ journal[open[h]].by = h /\
           journal[open[h]].content # Gone
        BY DEF Hopeful, Opened, Shapes
      <3>2. open[h] \in 1 .. Len(journal) /\ open[h] <= Len(journal')
        BY <1>2, <1>4, <3>1
      <3> QED BY <1>4, <3>1, <3>2
    <2> QED BY <1>2, <2>1, <2>2 DEF Opened
  <1>12. Standing(h)'
    BY <1>2 DEF Standing
  <1>13. Live(h)'
    <2>1. Now(h) \in DOMAIN chain[h] /\ chain[h][Now(h)] \in {"replace", "remove"}
      BY <1>1, <1>2 DEF Doing, Now, Hopeful, Shapes
    <2>2. live'[h] # None => Outdated(h)'
      BY <1>1, <2>1 DEF Outdated
    <2> QED BY <1>2, <2>2 DEF Live
  <1>14. Progress
    <2>1. Now(h) \in 1 .. MaxSteps
      BY <1>2, HandleAssumption DEF Hopeful, Shapes
    <2>2. Document[h] # Gone => Document'[h] = <<Now(h)>> \/ Document'[h] = Gone
      BY <1>1, <1>3, <1>7 DEF ContentOf
    <2>3. Moves(h) \/ Still(h)
      BY <1>7, <2>1, <2>2 DEF Moves, Still
    <2> QED BY <1>7, <2>3 DEF Progress, Passed
  <1> QED BY <1>7, <1>10, <1>11, <1>12, <1>13, <1>14 DEF Hopeful, Passed

(* The live document is what its path holds, and is there.                  *)
LEMMA InStepHolds ==
  ASSUME Hopeful, NEW h \in Handles, live[h] # None, InStep(h)
  PROVE  Document[h] # Gone /\ ~Stuck(h)
  <1>1. journal \in Seq(Directives) /\ open[h] \in Nat /\ live[h] # Gone /\ emitted[h] # Gone
    BY HandleAssumption DEF Hopeful, Shapes, Contents
  <1>2. Baseline(h) # Gone
    <2>1. CASE open[h] = 0
      BY <1>1, <2>1 DEF Baseline
    <2>2. CASE open[h] # 0
      <3>1. open[h] \in 1 .. Len(journal) /\ journal[open[h]].by = h /\ journal[open[h]].content # Gone
        <4>1. open[h] <= Len(journal) /\ Len(journal) \in Nat
          BY <1>1, <2>2 DEF Hopeful, Opened
        <4> QED BY <1>1, <2>2, <4>1 DEF Hopeful, Opened
      <3>2. PICK d : d = Memoized(journal[open[h]])
        OBVIOUS
      <3>3. d.content = journal[open[h]].content \/ d.content = live[h]
        BY <3>1, <3>2, PrintedOnce DEF Hopeful
      <3> QED BY <1>1, <2>2, <3>1, <3>2, <3>3 DEF Baseline
    <2> QED BY <2>1, <2>2
  <1>3. Document[h] # Gone
    BY <1>2 DEF InStep
  <1>4. Sound(journal, live, file, applied)
    BY Sounds DEF Hopeful
  <1> QED BY <1>3, <1>4, StuckIsGone

(* An edit shows in the open directive, if that is still to be printed.     *)
LEMMA EditedDocument ==
  ASSUME Hopeful, NEW h \in Handles, live[h] # None, InStep(h), Shapes', Within(h),
         live'[h] # None, live'[h] # Gone, open[h] # 0, journal[open[h]].content = None
  PROVE  Document'[h] = live'[h]
  <1>0. PICK n, m : n = Len(journal) /\ m = open[h]
    OBVIOUS
  <1>1. /\ Sound(journal, live, file, applied) /\ n \in Nat /\ applied \in Nat /\ applied <= n /\ Len(journal') = n
        /\ applied' = applied /\ journal' = journal /\ file' = file
        /\ Shapes /\ \A x \in Handles : Opened(x)
    BY <1>0, Sounds DEF Sound, Within, Hopeful
  <1>2. m \in applied + 1 .. n /\ journal[m].by = h /\ journal[m].content = None
    <2>1. m \in Nat /\ m # 0 /\ m <= n
      BY <1>0, <1>1 DEF Shapes, Opened
    <2>2. m \in 1 .. Len(journal) /\ journal[m].by = h
      BY <1>0, <1>1, <2>1 DEF Opened
    <2>3. m > applied
      BY <1>0, <1>1, <2>2 DEF Opened
    <2> QED BY <1>0, <1>1, <2>1, <2>2, <2>3
  <1>3. Sound(journal', live', file', applied')
    <2>1. \A k \in Len(journal) + 1 .. Len(journal') : FALSE
      BY <1>0, <1>1
    <2>2. Kept
      BY <1>0, <1>1 DEF Kept
    <2>3. \A x \in Handles : live[x] # None => live'[x] # None
      BY DEF Within, Same
    <2>4. \A x \in Handles : OnlyPrints(x)
      BY <1>1, <2>2, KeptPrints
    <2> QED BY <1>0, <1>1, <2>1, <2>3, <2>4, PrintingSounds DEF Kept
  <1>4. Sound(journal, live', file, applied)
    BY <1>1, <1>3
  <1>5. Walk(journal, live', file, applied, m - 1)[h] = Walk(journal, live, file, applied, m - 1)[h]
    <2>1. m - 1 \in Nat /\ applied <= m - 1 /\ m - 1 <= Len(journal) /\ applied <= applied
      BY <1>0, <1>1, <1>2
    <2>2. Walk(journal, live', file, applied, applied)[h] = Walk(journal, live, file, applied, applied)[h]
      BY <1>1, <1>4, WalkStarts
    <2>3. ASSUME NEW k \in applied + 1 .. m - 1,
         journal[k].by = h PROVE ContentOf(journal[k], live') = ContentOf(journal[k], live)
      <3>1. k \in 1 .. Len(journal) /\ k # m
        BY <1>0, <1>1, <1>2
      <3>2. journal[k].content # None
        BY <1>0, <1>1, <2>3, <3>1 DEF Opened
      <3> QED BY <3>2 DEF ContentOf
    <2>4. \A k \in applied + 1 .. m - 1 : journal[k].by = journal[k].by /\
         (journal[k].by = h => ContentOf(journal[k], live') = ContentOf(journal[k], live))
      BY <2>3
    <2>5. PICK a : a = m - 1
      OBVIOUS
    <2>6. /\ a \in Nat /\ applied \in Nat /\ applied <= applied /\ applied <= a /\ a <= Len(journal)
          /\ \A k \in applied + 1 .. a : journal[k].by = journal[k].by /\
                (journal[k].by = h => ContentOf(journal[k], live') = ContentOf(journal[k], live))
      BY <1>1, <2>1, <2>4, <2>5
    <2>7. Walk(journal, live', file, applied, a)[h] = Walk(journal, live, file, applied, a)[h]
      BY <1>1, <1>4, <2>2, <2>6, WalksAgree
    <2> QED BY <2>5, <2>7
  <1>6. /\ Walk(journal, live, file, applied, m)[h] = IF Walk(journal, live, file, applied, m - 1)[h] = Gone THEN Gone ELSE live[h]
        /\ Walk(journal, live', file, applied, m)[h] = IF Walk(journal, live', file, applied, m - 1)[h] = Gone THEN Gone ELSE live'[h]
    <2>1. m \in applied + 1 .. Len(journal)
      BY <1>0, <1>2
    <2> QED BY <1>1, <1>2, <1>4, <2>1, WalkAt DEF ContentOf
  <1>7. /\ Walk(journal, live, file, applied, n)[h] = Walk(journal, live, file, applied, m)[h]
        /\ Walk(journal, live', file, applied, n)[h] = Walk(journal, live', file, applied, m)[h]
    <2>1. \A k \in m + 1 .. n : journal[k].by # h
      BY <1>0 DEF InStep
    <2>2. m \in Nat /\ applied <= m /\ m <= n /\ n <= Len(journal)
      BY <1>0, <1>1, <1>2
    <2> QED BY <1>1, <1>4, <2>1, <2>2, WalkPasses
  <1>8. Document[h] = Walk(journal, live, file, applied, n)[h] /\ Document'[h] = Walk(journal, live', file, applied, n)[h]
    BY <1>0, <1>1, Reaching, ReachingNext DEF Reached
  <1>9. Document[h] # Gone
    BY InStepHolds
  <1> QED BY <1>5, <1>6, <1>7, <1>8, <1>9

(* An operation, or modify(fn): the live document has one step more.        *)
LEMMA OperateHopes ==
  ASSUME Invariant, Hopeful, NEW h \in Handles, phase \in {"fn", "drain"}, Operate(h), ~Doomed'
  PROVE  Hopeful' /\ Progress
  <1>1. /\ pc[h] = "ready" /\ Doing(h) \in Edits
        /\ live' = [live EXCEPT ![h] = Append(@, Now(h))] /\ pc' = [pc EXCEPT ![h] = "edited"]
        /\ UNCHANGED <<phase, journal, spliced, chain, emitted, open, got, answers, applied, calls, file>>
    <2>1. ~rejected'[h]
      BY DEF Doomed
    <2>2. ~Reject(h)
      BY <2>1 DEF Reject, Invariant, Types
    <2> QED BY <2>2 DEF Operate, engineVars
  <1>2. /\ live[h] # None /\ Now(h) \in Nat /\ Now(h) > 0 /\ Doing(h) \notin {"read", "replace", "remove"}
        /\ pc'[h] = "edited" /\ live'[h] = Append(live[h], Now(h)) /\ live[h] \in Contents
    BY <1>1 DEF Hopeful, Shapes, Invariant, Types, Standing, Now
  <1>3. live'[h] \in Contents /\ live'[h] # None /\ live'[h] # Gone
    <2>1. live'[h] \in Contents
      BY <1>2 DEF Contents
    <2> QED BY <2>1, HandleAssumption DEF Contents
  <1>4. Shapes'
    <2>1. live' \in [Handles -> Contents \cup {None}]
      BY <1>1, <1>2, <1>3 DEF Hopeful, Shapes
    <2> QED BY <1>1, <2>1 DEF Hopeful, Shapes, Now
  <1>5. Within(h)
    BY <1>1, <1>3 DEF Within, Same, Invariant, Types, Hopeful, Shapes
  <1>6. InStep(h)
    BY <1>1, <1>2 DEF Hopeful, Live
  <1>7. Now(h)' = Now(h) /\ Doing(h)' = Doing(h) /\ \A n : Replay(h, n)' = Replay(h, n)
    BY <1>1, SameChain
  <1>8. Done(h) = Now(h) - 1 /\ Done(h)' = Now(h)
    BY <1>1, <1>2, <1>7 DEF Done
  <1>9. live'[h] = Replay(h, Now(h)) /\ live[h] = Replay(h, Now(h) - 1)
    BY <1>1, <1>2, <1>6, <1>8, ReplayStep DEF InStep
  <1>10. Document[h] = Replay(h, Now(h) - 1)
    <2>1. ~Stuck(h) /\ Document[h] # Gone
      BY <1>2, <1>6, InStepHolds
    <2> QED BY <1>1, <1>8, <2>1 DEF Hopeful, Told
  <1>11. open[h] # 0 => open[h] \in 1 .. Len(journal) /\ journal[open[h]] \in Directives /\ journal[open[h]].by = h
    <2>1. open[h] \in Nat /\ Len(journal) \in Nat /\ \A k \in 1 .. Len(journal) : journal[k] \in Directives
      BY DEF Hopeful, Shapes
    <2> QED BY <2>1 DEF Hopeful, Opened
  <1>12. \/ open[h] # 0 /\ journal[open[h]].content = None /\ Document'[h] = live'[h] /\ Baseline(h)' = live'[h]
         \/ Document'[h] = Document[h] /\ Baseline(h)' = Baseline(h)
    <2>1. CASE open[h] # 0 /\ journal[open[h]].content = None
      <3>1. Document'[h] = live'[h]
        BY <1>2, <1>3, <1>4, <1>5, <1>6, <2>1, EditedDocument
      <3>2. Baseline(h)' = live'[h]
        BY <1>1, <1>11, <2>1 DEF Baseline, Memoized, Directives
      <3> QED BY <2>1, <3>1, <3>2
    <2>2. CASE ~(open[h] # 0 /\ journal[open[h]].content = None)
      <3>1. \A k \in 1 .. Len(journal) : journal[k].by = h => journal[k].content # None
        <4> SUFFICES ASSUME NEW k \in 1 .. Len(journal), journal[k].by = h, journal[k].content = None PROVE FALSE
          OBVIOUS
        <4>1. k = open[h]
          BY DEF Hopeful, Opened
        <4>2. Len(journal) \in Nat
          BY DEF Hopeful, Shapes
        <4> QED BY <2>2, <4>1, <4>2
      <3>2. Document'[h] = Document[h]
        BY <1>4, <1>5, <3>1, WithinDocument
      <3>3. Baseline(h)' = Baseline(h)
        BY <1>1, <1>11, <2>2 DEF Baseline, Memoized, Directives
      <3> QED BY <3>2, <3>3
    <2> QED BY <2>1, <2>2
  <1>13. Opened(h)'
    <2>1. ~Measured(h)
      BY <1>1 DEF Hopeful, Opened
    <2>2. ~Measured(h)'
      BY <1>1, <2>1 DEF Measured, OpenIsPending
    <2> QED BY <1>1, <1>3, <2>2 DEF Hopeful, Opened
  <1>14. Standing(h)'
    BY <1>1, <1>2, <1>3, <1>7 DEF Standing, Edits
  <1>15. Live(h)'
    BY <1>1, <1>6, <1>7, <1>8, <1>9, <1>12 DEF Live, InStep
  <1>16. Told(h)'
    BY <1>2, <1>7, <1>8, <1>9, <1>10, <1>12 DEF Told
  <1>17. Hopeful' /\ \A x \in Handles \ {h} : Still(x)
    BY <1>1, <1>4, <1>5, <1>13, <1>14, <1>15, <1>16, StillAnswered, WithinHopes
  <1>18. Moves(h) \/ Still(h)
    <2>1. Now(h) \in 1 .. MaxSteps /\ Document[h] # Gone
      BY <1>2, <1>6, InStepHolds, HandleAssumption DEF Hopeful, Shapes
    <2>2. live'[h] = Append(Document[h], Now(h))
      BY <1>2, <1>9, <1>10
    <2> QED BY <1>12, <2>1, <2>2 DEF Moves, Still
  <1> QED BY <1>17, <1>18 DEF Progress

(* The drained directive, or the text it started from.                      *)
Known(h) == IF open[h] = 0 THEN journal ELSE [journal EXCEPT ![open[h]] = Memoized(journal[open[h]])]

(* The journal with the open directive of a handle printed.                 *)
LEMMA KnownJournal ==
  ASSUME Hopeful, NEW h \in Handles, NEW f, f = Known(h)
  PROVE  /\ f \in Seq(Directives) /\ Len(f) = Len(journal)
         /\ \A k \in 1 .. Len(journal) : f[k] = journal[k] \/ (journal[k].by = h /\ f[k] = Memoized(journal[k]))
         /\ \A k \in 1 .. Len(journal) : f[k].by = h => f[k].content # None \/ live[h] = None
  <1>1. Shapes /\ Len(journal) \in Nat /\ DOMAIN journal = 1 .. Len(journal) /\
       journal = [i \in DOMAIN journal |-> journal[i]]
    BY DEF Hopeful, Shapes
  <1>2. open[h] # 0 => open[h] \in 1 .. Len(journal) /\ journal[open[h]].by = h
    <2>1. open[h] \in Nat
      BY DEF Hopeful, Shapes
    <2> QED BY <1>1, <2>1 DEF Hopeful, Opened
  <1>3. f = [i \in DOMAIN journal |-> f[i]]
    BY <1>1 DEF Known
  <1>4. \A k \in 1 .. Len(journal) : f[k] = IF k = open[h] THEN Memoized(journal[k]) ELSE journal[k]
    BY <1>1, <1>2 DEF Known
  <1>5. \A k \in 1 .. Len(journal) : f[k] = journal[k] \/ f[k] = Memoized(journal[k])
    BY <1>4
  <1>6. f \in Seq(Directives) /\ Len(f) = Len(journal)
    BY <1>1, <1>3, <1>5, StillDirectives
  <1>7. \A k \in 1 .. Len(journal) : f[k] = journal[k] \/ (journal[k].by = h /\ f[k] = Memoized(journal[k]))
    BY <1>2, <1>4
  <1>8. ASSUME NEW k \in 1 .. Len(journal), f[k].by = h, live[h] # None PROVE f[k].content # None
    <2>1. journal[k].by = h
      BY <1>1, <1>5, <1>8, PrintedOnce
    <2>2. CASE k = open[h]
      <3>1. f[k] = Memoized(journal[k]) /\ journal[k] \in Directives
        BY <1>1, <1>4, <2>2 DEF Shapes
      <3> QED BY <1>8, <2>1, <3>1 DEF Memoized, Directives
    <2>3. CASE k # open[h]
      <3>1. f[k] = journal[k] /\ journal[k].content # None
        BY <1>4, <2>1, <2>3 DEF Hopeful, Opened
      <3> QED BY <3>1
    <2> QED BY <2>2, <2>3
  <1> QED BY <1>6, <1>7, <1>8

(* #ensureOpen, after the step has edited or has not.                       *)
LEMMA RegisterHopes ==
  ASSUME Invariant, Hopeful, NEW h \in Handles, phase \in {"fn", "drain"}, Register(h), ~Doomed'
  PROVE  Hopeful' /\ Progress
  <1>1. /\ pc[h] = "edited" \/ (pc[h] = "ready" /\ Doing(h) = "noop")
        /\ UNCHANGED <<phase, spliced, chain, live, got, answers, applied, calls, file>>
    BY DEF Register, engineVars
  <1>2. /\ pc' = [pc EXCEPT ![h] = "idle"]
        /\ \/ OpenIsPending(h) /\ UNCHANGED <<open, emitted, journal>>
           \/ /\ ~OpenIsPending(h) /\ emitted' = [emitted EXCEPT ![h] = Baseline(h)] /\ live[h] = Baseline(h)
              /\ open' = [open EXCEPT ![h] = 0] /\ journal' = Known(h)
           \/ /\ ~OpenIsPending(h) /\ emitted' = [emitted EXCEPT ![h] = Baseline(h)] /\ live[h] # Baseline(h)
              /\ open' = [open EXCEPT ![h] = Len(journal) + 1] /\ journal' = Append(Known(h), Lazy(h))
    <2>1. ~rejected'[h]
      BY DEF Doomed
    <2>2. ~Reject(h)
      BY <2>1 DEF Reject, Invariant, Types
    <2> QED BY <2>2 DEF Register, EnsureOpen, Finish, Baseline, Known
  <1>3. /\ live[h] # None /\ live[h] \in Contents /\ Now(h) \in Nat /\ Now(h) > 0 /\
             Doing(h) \notin {"read", "replace", "remove"}
        /\ pc'[h] = "idle" /\ (pc[h] = "edited" => Doing(h) \in Edits)
    BY <1>1, <1>2 DEF Hopeful, Shapes, Invariant, Types, Standing, Now
  <1>4. InStep(h) /\ Document[h] # Gone /\ ~Stuck(h) /\ Document[h] = Baseline(h)
    <2>1. InStep(h)
      BY <1>1, <1>3 DEF Hopeful, Live
    <2> QED BY <1>3, <2>1, InStepHolds DEF InStep
  <1>5. Now(h)' = Now(h) /\ Doing(h)' = Doing(h) /\ \A n : Replay(h, n)' = Replay(h, n)
    BY <1>1, SameChain
  <1>6. Done(h)' = Now(h) /\ Replay(h, Done(h)) = Replay(h, Now(h)) /\ live[h] = Replay(h, Now(h))
    <2>1. Done(h)' = Now(h)
      BY <1>3, <1>5 DEF Done
    <2>2. pc[h] = "edited" => Done(h) = Now(h)
      BY DEF Done
    <2>3. pc[h] # "edited" => Done(h) = Now(h) - 1 /\ Replay(h, Now(h)) = Replay(h, Now(h) - 1)
      BY <1>1, <1>3, ReplayStep DEF Done, Edits
    <2>4. Replay(h, Done(h)) = Replay(h, Now(h))
      BY <2>2, <2>3
    <2> QED BY <1>4, <2>1, <2>4 DEF InStep
  <1>7. Standing(h)'
    BY <1>3 DEF Standing
  <1>8. /\ journal \in Seq(Directives) /\ Len(journal) \in Nat /\ applied \in Nat /\ applied <= spliced /\
             spliced \in Nat /\ spliced <= Len(journal)
        /\ open[h] \in Nat /\ open[h] <= Len(journal) /\ emitted \in [Handles -> Contents \cup {None}] /\
             open \in [Handles -> Nat]
    <2>1. /\ journal \in Seq(Directives) /\ Len(journal) \in Nat /\ applied \in Nat /\ applied <= spliced /\
               spliced \in Nat /\ spliced <= Len(journal)
          /\ open[h] \in Nat /\ emitted \in [Handles -> Contents \cup {None}] /\ open \in [Handles -> Nat]
      BY DEF Hopeful, Shapes
    <2> QED BY <2>1 DEF Hopeful, Opened
  <1>9. CASE OpenIsPending(h)
    <2>1. UNCHANGED <<phase, journal, spliced, chain, live, emitted, open, got, answers, applied, calls, file>>
      BY <1>1, <1>2, <1>9
    <2>2. Shapes'
      BY <2>1 DEF Hopeful, Shapes, Now
    <2>3. Within(h)
      BY <1>2, <2>1 DEF Within, Same, Invariant, Types
    <2>4. Document'[h] = Document[h] /\ Baseline(h)' = Baseline(h)
      BY <2>1, <2>2, <2>3, WithinDocument, SameBaseline
    <2>5. Opened(h)'
      BY <1>3, <2>1 DEF Hopeful, Opened
    <2>6. InStep(h)'
      BY <1>4, <1>5, <1>6, <2>1, <2>4 DEF InStep
    <2>7. Told(h)'
      <3>1. Document[h] = Replay(h, Now(h))
        <4>1. CASE pc[h] = "edited"
          <5>1. ~Measured(h)
            BY <1>3, <4>1 DEF Hopeful, Opened
          <5>2. open[h] \in 1 .. Len(journal) /\ journal[open[h]].content = None /\ journal[open[h]].by = h
            <6>1. open[h] # 0 /\ open[h] \in 1 .. Len(journal)
              BY <1>8, <1>9 DEF OpenIsPending
            <6> QED BY <1>9, <5>1, <6>1 DEF Measured, Hopeful, Opened
          <5>3. Baseline(h) = live[h]
            <6>1. journal[open[h]] \in Directives
              BY <1>8, <5>2
            <6> QED BY <1>8, <5>2, <6>1 DEF Baseline, Memoized, Directives
          <5> QED BY <1>4, <1>6, <5>3
        <4>2. CASE pc[h] # "edited"
          BY <1>4, <1>6, <4>2 DEF Hopeful, Told
        <4> QED BY <4>1, <4>2
      <3> QED BY <1>5, <1>6, <2>4, <3>1 DEF Told
    <2>8. Answered'
      BY <2>1, StillAnswered
    <2> QED BY <1>7, <2>2, <2>3, <2>4, <2>5, <2>6, <2>7, <2>8, WithinHopes DEF Live, Progress, Still
  <1>10. CASE ~OpenIsPending(h) /\ live[h] = Baseline(h)
    <2>1. /\ emitted' = [emitted EXCEPT ![h] = live[h]] /\ open' = [open EXCEPT ![h] = 0] /\ journal' = Known(h)
      BY <1>2, <1>10
    <2>2. /\ journal' \in Seq(Directives) /\ Len(journal') = Len(journal)
          /\ \A k \in 1 .. Len(journal) : journal'[k] = journal[k] \/ (journal[k].by = h /\
               journal'[k] = Memoized(journal[k]))
          /\ \A k \in 1 .. Len(journal) : journal'[k].by = h => journal'[k].content # None
      <3>1. PICK f : f = journal'
        OBVIOUS
      <3>2. /\ f \in Seq(Directives) /\ Len(f) = Len(journal)
            /\ \A k \in 1 .. Len(journal) : f[k] = journal[k] \/ (journal[k].by = h /\ f[k] = Memoized(journal[k]))
            /\ \A k \in 1 .. Len(journal) : f[k].by = h => f[k].content # None \/ live[h] = None
        BY <2>1, <3>1, KnownJournal
      <3> QED BY <1>3, <3>1, <3>2
    <2>3. emitted' \in [Handles -> Contents \cup {None}] /\ open' \in [Handles -> Nat] /\ emitted'[h] = live[h] /\
         open'[h] = 0
      BY <1>3, <1>8, <2>1
    <2>4. Shapes' /\ Finale' /\ Answered'
      BY <1>1, <1>8, <2>2, <2>3, StillAnswered DEF Hopeful, Shapes, Now, Finale
    <2>5. Kept /\ spliced <= spliced' /\ \A x \in Handles \ {h} : Same(x)
      BY <1>1, <1>2, <1>8, <2>1, <2>2 DEF Kept, Same, Hopeful, Shapes, Invariant, Types
    <2>6. \A k \in Len(journal) + 1 .. Len(journal') : FALSE
      BY <1>8, <2>2
    <2>7. Sound(journal, live, file, applied)'
      <3>1. \A x \in Handles : OnlyPrints(x)
        BY <2>5, KeptPrints DEF Hopeful
      <3> QED BY <1>1, <2>4, <2>5, <2>6, <3>1, PrintingSounds DEF Hopeful, Kept
    <2>8. \A x \in Handles \ {h} : Passed(x)
      <3>1. \A k \in 1 .. Len(journal) : journal[k].by # h => journal'[k] = journal[k]
        BY <2>2
      <3> QED BY <2>4, <2>5, <2>6, <2>7, <3>1, Others DEF Hopeful
    <2>9. Document'[h] = Document[h]
      <3>1. \A k \in Len(journal) + 1 .. Len(journal') : journal'[k].by # h
        BY <2>6
      <3> QED BY <1>1, <2>5, <2>7, <3>1, KeptDocument DEF Hopeful
    <2>10. Ranges'
      <3>1. \A k \in 1 .. Len(journal) : journal'[k].by = journal[k].by
        BY <2>2, PrintedOnce DEF Hopeful
      <3> QED BY <1>1, <2>4, <2>5, <2>6, <3>1, RangesKept DEF Hopeful, Kept
    <2>11. Opened(h)'
      BY <1>3, <2>2, <2>3 DEF Opened
    <2>12. Live(h)' /\ Told(h)'
      <3>1. Baseline(h)' = live[h]
        BY <2>3 DEF Baseline
      <3>2. Document'[h] = live[h] /\ live'[h] = live[h]
        BY <1>1, <1>4, <1>10, <2>9
      <3> QED BY <1>5, <1>6, <2>3, <3>1, <3>2 DEF Live, InStep, Told
    <2>13. Progress
      BY <2>8, <2>9 DEF Progress, Passed, Still
    <2> QED BY <1>7, <2>4, <2>8, <2>10, <2>11, <2>12, <2>13 DEF Hopeful, Passed
  <1>11. CASE ~OpenIsPending(h) /\ live[h] # Baseline(h)
    <2>1. /\ emitted' = [emitted EXCEPT ![h] = Baseline(h)] /\ open' = [open EXCEPT ![h] = Len(journal) + 1]
          /\ journal' = Append(Known(h), Lazy(h))
      BY <1>2, <1>11
    <2>2. Lazy(h) \in Directives /\ Lazy(h).by = h /\ Lazy(h).content = None
      BY DEF Lazy, Directives
    <2>3. PICK f : f = Known(h)
      OBVIOUS
    <2>4. /\ f \in Seq(Directives) /\ Len(f) = Len(journal)
          /\ \A k \in 1 .. Len(journal) : f[k] = journal[k] \/ (journal[k].by = h /\ f[k] = Memoized(journal[k]))
          /\ \A k \in 1 .. Len(journal) : f[k].by = h => f[k].content # None
      <3>1. /\ f \in Seq(Directives) /\ Len(f) = Len(journal)
            /\ \A k \in 1 .. Len(journal) : f[k] = journal[k] \/ (journal[k].by = h /\ f[k] = Memoized(journal[k]))
            /\ \A k \in 1 .. Len(journal) : f[k].by = h => f[k].content # None \/ live[h] = None
        BY <2>3, KnownJournal
      <3> QED BY <1>3, <3>1
    <2>5. /\ journal' \in Seq(Directives) /\ Len(journal') = Len(journal) + 1 /\ journal'[Len(journal) + 1] = Lazy(h)
          /\ \A k \in 1 .. Len(journal) : journal'[k] = f[k]
      BY <2>1, <2>2, <2>3, <2>4, Appended
    <2>6. /\ emitted' \in [Handles -> Contents \cup {None}] /\ open' \in [Handles -> Nat] /\ open'[h] = Len(journal) + 1
      <3>1. Baseline(h) \in Contents \cup {None}
        <4>1. CASE open[h] = 0
          BY <1>8, <4>1 DEF Baseline
        <4>2. CASE open[h] # 0
          <5>1. open[h] \in 1 .. Len(journal) /\ journal[open[h]].by = h /\ journal[open[h]].content # Gone /\
               journal[open[h]] \in Directives
            BY <1>8, <4>2 DEF Hopeful, Opened
          <5> QED BY <1>3, <4>2, <5>1 DEF Baseline, Memoized, Directives
        <4> QED BY <4>1, <4>2
      <3> QED BY <1>8, <2>1, <3>1
    <2>7. Adds(h, Lazy(h))
      <3>1. \A x \in Handles \ {h} : Same(x)
        BY <1>1, <1>2, <2>1 DEF Same, Hopeful, Shapes, Invariant, Types
      <3> QED BY <1>1, <1>3, <2>2, <2>4, <2>5, <3>1 DEF Adds
    <2>8. /\ Shapes' /\ Ranges' /\ Finale' /\ Answered'
          /\ \A x \in Handles \ {h} : Passed(x)
          /\ Document'[h] = ContentOf(Lazy(h), live)
      BY <1>1, <1>4, <2>6, <2>7, AddsDirective
    <2>9. Document'[h] = live[h]
      BY <2>2, <2>8 DEF ContentOf
    <2>10. Opened(h)'
      <3>1. ASSUME NEW k \in 1 .. Len(journal'), journal'[k].by = h,
           journal'[k].content = None PROVE k = open'[h] /\ k > applied'
        <4>1. k \notin 1 .. Len(journal)
          BY <2>4, <2>5, <3>1
        <4>2. k = Len(journal) + 1
          BY <1>8, <2>5, <4>1
        <4> QED BY <1>1, <1>8, <2>6, <4>2
      <3>2. open'[h] <= Len(journal') /\ live'[h] # None /\ journal'[open'[h]].by = h /\ journal'[open'[h]].content # Gone
        BY <1>1, <1>3, <1>8, <2>2, <2>5, <2>6, HandleAssumption
      <3> QED BY <1>3, <3>1, <3>2 DEF Opened
    <2>11. Live(h)' /\ Told(h)'
      <3>1. Baseline(h)' = live[h]
        <4>1. open'[h] # 0 /\ journal'[open'[h]] = Lazy(h)
          BY <1>8, <2>5, <2>6
        <4> QED BY <1>1, <4>1 DEF Baseline, Memoized, Lazy
      <3>2. \A k \in open'[h] + 1 .. Len(journal') : journal'[k].by # h
        <4>1. \A k \in open'[h] + 1 .. Len(journal') : FALSE
          BY <1>8, <2>5, <2>6
        <4> QED BY <4>1
      <3> QED BY <1>1, <1>5, <1>6, <2>9, <3>1, <3>2 DEF Live, InStep, Told
    <2>12. Moves(h)
      <3>1. Now(h) \in 1 .. MaxSteps
        BY <1>3, HandleAssumption DEF Hopeful, Shapes
      <3>2. pc[h] = "edited" /\ Document[h] = Replay(h, Now(h) - 1)
        BY <1>4, <1>6, <1>11 DEF Hopeful, Told
      <3>3. Replay(h, Now(h)) = Append(Replay(h, Now(h) - 1), Now(h))
        BY <1>3, <3>2, ReplayStep
      <3>4. Document'[h] = Append(Document[h], Now(h))
        BY <1>6, <2>9, <3>2, <3>3
      <3> QED BY <1>4, <3>1, <3>4 DEF Moves
    <2>13. Progress
      BY <2>8, <2>12 DEF Progress, Passed
    <2> QED BY <1>7, <2>8, <2>10, <2>11, <2>13 DEF Hopeful, Passed
  <1> QED BY <1>9, <1>10, <1>11

-----------------------------------------------------------------------------
(* The steps of the engine.                                                 *)

(* The calls left are in order still.                                       *)
LEMMA RangesServed ==
  ASSUME Hopeful, Shapes', IsSequence(calls), calls # <<>>, calls' = Tail(calls), spliced' = spliced,
       Len(journal') = Len(journal),
         \A k \in 1 .. Len(journal) : journal'[k].by = journal[k].by,
         applied' = IF Head(calls).kind = "emit" THEN Head(calls).hi ELSE applied
  PROVE  Ranges'
  <1> DEFINE n == Len(calls)
             b == calls[1]
  <1>1. /\ n \in Nat /\ n > 0 /\ Len(calls') = n - 1 /\ \A i \in 1 .. n - 1 : calls'[i] = calls[i + 1]
        /\ Head(calls) = b
    BY TailOfSequence
  <1>2. applied \in Nat /\ spliced \in Nat /\ Len(journal) \in Nat
    BY DEF Hopeful, Shapes
  <1>3. applied' \in Nat /\ applied <= applied' /\ (b.kind = "emit" => applied' = b.hi) /\
       (b.kind # "emit" => applied' = applied)
    <2>1. b.kind = "emit" => b.lo \in applied + 1 .. spliced /\ b.hi \in b.lo .. spliced
      BY <1>1 DEF Hopeful, Ranges
    <2> HIDE DEF b
    <2> QED BY <1>1, <1>2, <2>1
  <1> HIDE DEF n, b
  <1>4. ASSUME NEW i \in 1 .. n - 1, calls'[i].kind = "emit"
        PROVE  /\ calls'[i].lo \in applied' + 1 .. spliced /\ calls'[i].hi \in calls'[i].lo .. spliced
               /\ \A j \in 1 .. i - 1 : calls'[j].kind = "emit" => calls'[j].hi < calls'[i].lo
    <2>1. i + 1 \in 1 .. n /\ calls'[i] = calls[i + 1] /\ 1 \in 1 .. (i + 1) - 1
      BY <1>1
    <2>2. /\ calls[i + 1].lo \in applied + 1 .. spliced /\ calls[i + 1].hi \in calls[i + 1].lo .. spliced
          /\ \A j \in 1 .. (i + 1) - 1 : calls[j].kind = "emit" => calls[j].hi < calls[i + 1].lo
      BY <1>4, <2>1 DEF Hopeful, Ranges, n
    <2>3. b.kind = "emit" => b.hi < calls[i + 1].lo
      BY <2>1, <2>2 DEF b
    <2>4. calls[i + 1].lo \in applied' + 1 .. spliced
      BY <1>2, <1>3, <2>2, <2>3
    <2>5. \A j \in 1 .. i - 1 : j + 1 \in 1 .. (i + 1) - 1 /\ j \in 1 .. n - 1
      BY <1>1
    <2> QED BY <1>1, <2>1, <2>2, <2>4, <2>5
  <1>5. ASSUME NEW m \in 1 .. n + 1, NEW k \in applied' + 1 .. Len(journal), \E i \in 1 .. m - 1 : Carries(calls[i], k)
        PROVE  \E i \in 1 .. (m - 1) - 1 : Carries(calls'[i], k)
    <2>1. PICK i \in 1 .. m - 1 : Carries(calls[i], k)
      BY <1>5
    <2>2. i # 1
      <3>1. SUFFICES ASSUME i = 1 PROVE FALSE
        OBVIOUS
      <3>2. b.kind = "emit" /\ k <= b.hi
        BY <2>1, <3>1 DEF Carries, b
      <3>3. b.hi = applied' /\ k > applied'
        BY <1>2, <1>3, <3>2
      <3> QED BY <1>3, <3>2, <3>3
    <2>3. i - 1 \in 1 .. (m - 1) - 1 /\ i - 1 \in 1 .. n - 1 /\ (i - 1) + 1 = i
      BY <1>1, <2>2
    <2>4. calls'[i - 1] = calls[i]
      BY <1>1, <2>3
    <2> QED BY <2>1, <2>3, <2>4
  <1>6. ASSUME NEW k \in applied' + 1 .. spliced PROVE \E i \in 1 .. n - 1 : Carries(calls'[i], k)
    <2>1. k \in applied + 1 .. spliced /\ k \in applied' + 1 .. Len(journal) /\ n + 1 \in 1 .. n + 1 /\ (n + 1) - 1 = n
      <3>1. spliced <= Len(journal)
        BY DEF Hopeful, Shapes
      <3> QED BY <1>1, <1>2, <1>3, <3>1
    <2>2. \E i \in 1 .. n : Carries(calls[i], k)
      BY <2>1 DEF Hopeful, Ranges, n
    <2> QED BY <1>5, <2>1, <2>2
  <1>7. ASSUME NEW i \in 1 .. n - 1, calls'[i].kind = "read", NEW k \in applied' + 1 .. Len(journal),
       journal[k].by = calls'[i].by
        PROVE  \E j \in 1 .. i - 1 : Carries(calls'[j], k)
    <2>1. i + 1 \in 1 .. n /\ calls'[i] = calls[i + 1] /\ i + 1 \in 1 .. n + 1 /\ (i + 1) - 1 = i /\
         k \in applied + 1 .. Len(journal)
      BY <1>1, <1>2, <1>3
    <2>2. \E j \in 1 .. (i + 1) - 1 : Carries(calls[j], k)
      BY <1>7, <2>1 DEF Hopeful, Ranges, n
    <2> QED BY <1>5, <2>1, <2>2
  <1>8. \A k \in applied' + 1 .. Len(journal) : k \in 1 .. Len(journal) /\ journal'[k].by = journal[k].by
    BY <1>2, <1>3
  <1>9. \A i \in 1 .. n - 1 : calls'[i].kind = "read" =>
          \A k \in applied' + 1 .. Len(journal) : journal'[k].by = calls'[i].by => \E j \in 1 .. i - 1 : Carries(calls'[j], k)
    BY <1>7, <1>8
  <1>10. Len(calls') = n - 1 /\ spliced' = spliced /\ Len(journal') = Len(journal)
    BY <1>1
  <1>11. \A c, k : Carries(c, k)' <=> Carries(c, k)
    BY DEF Carries
  <1> QED BY <1>4, <1>6, <1>9, <1>10, <1>11, Zenon DEF Ranges

(* A read is served: it sees all that its handle has emitted.               *)
LEMMA ServeReadHopes ==
  ASSUME Invariant, Hopeful, ServeRead, phase' = phase
  PROVE  Hopeful' /\ Progress
  <1>0. PICK h : h = Head(calls).by
    OBVIOUS
  <1>1. /\ calls # <<>> /\ Head(calls).kind = "read" /\ calls' = Tail(calls) /\ IsSequence(calls)
        /\ got' = [got EXCEPT ![h] = file[h]] /\ pc' = [pc EXCEPT ![h] = "loaded"]
        /\ UNCHANGED <<phase, journal, spliced, chain, live, emitted, open, answers, applied, file, kept>>
    BY <1>0 DEF ServeRead, Invariant, Types
  <1>2. Head(calls) = calls[1] /\ 1 \in 1 .. Len(calls) /\ calls[1].by = h /\ calls[1].kind = "read"
    BY <1>0, <1>1, TailOfSequence
  <1>3. h \in Handles /\ pc[h] = "reading" /\ pc'[h] = "loaded"
    <2>1. WaitsFor(calls[1], phase, pc)
      BY <1>2 DEF Invariant, Calling
    <2> QED BY <1>1, <1>2, <2>1 DEF WaitsFor, Invariant, Types
  <1>4. /\ Len(journal) \in Nat /\ spliced \in Nat /\ Now(h) \in Nat /\ Now(h) > 0
        /\ Doing(h) \notin {"replace", "remove"} /\ (Doing(h) # "read" => live[h] = None)
    BY <1>3 DEF Hopeful, Shapes, Standing, Now
  <1>5. Shapes' /\ Finale' /\ Answered' /\ got'[h] = file[h]
    <2>1. file[h] \in Contents \cup {Gone}
      BY <1>3 DEF Hopeful, Shapes
    <2> QED BY <1>1, <1>3, <2>1, StillAnswered DEF Hopeful, Shapes, Now, Finale
  <1>6. Kept /\ Len(journal') = Len(journal) /\ spliced <= spliced'
    BY <1>1, <1>4 DEF Kept
  <1>7. \A x \in Handles \ {h} : Same(x)
    BY <1>1 DEF Same, Invariant, Types, Hopeful, Shapes
  <1>8. \A k \in Len(journal) + 1 .. Len(journal') : FALSE
    BY <1>4, <1>6
  <1>9. Sound(journal, live, file, applied)'
    BY <1>1, <1>5, <1>6, <1>8, KeptPrints, PrintingSounds DEF Hopeful, Kept
  <1>10. \A x \in Handles \ {h} : Passed(x)
    <2>1. \A k \in 1 .. Len(journal) : journal[k].by # h => journal'[k] = journal[k]
      BY <1>1
    <2> QED BY <1>5, <1>6, <1>7, <1>8, <1>9, <2>1, Others DEF Hopeful
  <1>11. Document'[h] = Document[h] /\ (Stuck(h) => Stuck(h)')
    <2>1. \A k \in Len(journal) + 1 .. Len(journal') : journal'[k].by # h
      BY <1>8
    <2> QED BY <1>1, <1>3, <1>6, <1>9, <2>1, KeptDocument DEF Hopeful
  <1>12. /\ Now(h)' = Now(h) /\ Doing(h)' = Doing(h) /\ \A n : Replay(h, n)' = Replay(h, n)
         /\ (Outdated(h)' <=> Outdated(h)) /\ Baseline(h)' = Baseline(h)
    BY <1>1, SameChain, SameBaseline
  <1>13. Done(h)' = Done(h)
    BY <1>3, <1>12 DEF Done
  <1>14. Opened(h)'
    <2>1. Measured(h)' => Measured(h)
      BY <1>1 DEF Measured, OpenIsPending
    <2> QED BY <1>1, <1>3, <1>12, <2>1 DEF Hopeful, Opened, Edits
  <1>15. Standing(h)'
    <2>1. \A k \in applied + 1 .. Len(journal) : journal[k].by # h
      <3>1. \A k \in applied + 1 .. Len(journal) : journal[k].by = h => \E j \in 1 .. 1 - 1 : Carries(calls[j], k)
        BY <1>2 DEF Hopeful, Ranges
      <3>2. \A j \in 1 .. 1 - 1 : FALSE
        OBVIOUS
      <3> QED BY <3>1, <3>2
    <2> QED BY <1>1, <1>3, <1>4, <1>5, <1>12, <2>1 DEF Standing
  <1>16. Live(h)'
    <2>1. InStep(h) => InStep(h)'
      BY <1>1, <1>11, <1>12, <1>13 DEF InStep
    <2> QED BY <1>1, <1>3, <1>12, <2>1 DEF Hopeful, Live
  <1>17. Told(h)'
    BY <1>1, <1>3, <1>11, <1>12, <1>13 DEF Hopeful, Told
  <1>18. Ranges'
    <2>1. \A k \in 1 .. Len(journal) : journal'[k].by = journal[k].by
      BY <1>1
    <2>2. applied' = IF Head(calls).kind = "emit" THEN Head(calls).hi ELSE applied
      BY <1>1
    <2> QED BY <1>1, <1>5, <1>6, <2>1, <2>2, RangesServed
  <1>19. Progress
    BY <1>10, <1>11 DEF Progress, Passed, Still
  <1> QED BY <1>5, <1>10, <1>14, <1>15, <1>16, <1>17, <1>18, <1>19 DEF Hopeful, Passed

(* A batch the engine accepts: what it held is staged, as it was to be.     *)
LEMMA ServeEmitHopes ==
  ASSUME Invariant, Hopeful, ServeEmit, ~Doomed'
  PROVE  Hopeful' /\ Progress
  <1>0. PICK b, lo, hi, n : b = Head(calls) /\ lo = b.lo /\ hi = b.hi /\ n = Len(journal)
    OBVIOUS
  <1>1. /\ calls # <<>> /\ b.kind = "emit" /\ calls' = Tail(calls) /\ IsSequence(calls)
        /\ applied' = hi /\ journal' = Serialized(b)
        /\ UNCHANGED <<spliced, chain, live, emitted, open, got, answers>>
    BY <1>0 DEF ServeEmit, Invariant, Types
  <1>2. b = calls[1] /\ 1 \in 1 .. Len(calls) /\ WaitsFor(b, phase, pc)
    <2>1. b = calls[1] /\ 1 \in 1 .. Len(calls)
      BY <1>0, <1>1, TailOfSequence
    <2> QED BY <2>1 DEF Invariant, Calling
  <1>3. /\ Acceptable(b) /\ file' = After(file, lo, hi)
        /\ \/ b.by = Main /\ phase = "flushing" /\ phase' = "flushed" /\ pc' = pc
           \/ b.by \in Handles /\ phase' = phase /\ pc[b.by] = "flushing" /\ pc' = [pc EXCEPT ![b.by] = "flushed"]
    <2>1. CASE b.by = Main
      <3>1. phase = "flushing"
        BY <1>2, <2>1, HandleAssumption DEF WaitsFor
      <3> QED BY <1>0, <2>1, <3>1 DEF ServeEmit, Doomed
    <2>2. CASE b.by # Main
      <3>1. b.by \in Handles /\ pc[b.by] = "flushing"
        BY <1>1, <1>2, <2>2 DEF WaitsFor
      <3>2. pc'[b.by] # "refused"
        BY <3>1 DEF Doomed
      <3>3. phase' = phase /\ pc' = [pc EXCEPT ![b.by] = IF Acceptable(b) THEN "flushed" ELSE "refused"]
        BY <1>0, <2>2 DEF ServeEmit
      <3>4. Acceptable(b)
        BY <3>1, <3>2, <3>3 DEF Invariant, Types
      <3> QED BY <1>0, <3>1, <3>3, <3>4 DEF ServeEmit
    <2> QED BY <2>1, <2>2
  <1>4. /\ n \in Nat /\ applied \in Nat /\ spliced \in Nat /\ applied <= spliced /\ spliced <= n
        /\ DOMAIN journal = 1 .. n /\ Shapes /\ \A x \in Handles : Opened(x) /\ Standing(x) /\ Live(x) /\ Told(x)
        /\ Sound(journal, live, file, applied)
    <2>1. Sound(journal, live, file, applied)
      BY Sounds DEF Hopeful
    <2> QED BY <1>0, <2>1 DEF Hopeful, Shapes
  <1>5. lo = applied + 1 /\ hi \in Nat /\ lo <= hi /\ hi <= spliced
    <2>1. lo \in applied + 1 .. spliced /\ hi \in lo .. spliced
      BY <1>0, <1>1, <1>2 DEF Hopeful, Ranges
    <2>2. applied + 1 \in applied + 1 .. spliced
      BY <1>4, <2>1
    <2>3. PICK i \in 1 .. Len(calls) : Carries(calls[i], applied + 1)
      BY <2>2 DEF Hopeful, Ranges
    <2>4. calls[i].kind = "emit" /\ calls[i].lo \in applied + 1 .. spliced /\ calls[i].lo <= applied + 1
      BY <2>3 DEF Carries, Hopeful, Ranges
    <2>5. i = 1
      <3>1. SUFFICES ASSUME i # 1 PROVE FALSE
        OBVIOUS
      <3>2. 1 \in 1 .. i - 1
        BY <3>1
      <3>3. hi < calls[i].lo
        BY <1>0, <1>1, <1>2, <2>4, <3>2 DEF Hopeful, Ranges
      <3> QED BY <1>4, <2>1, <2>4, <3>3
    <2>6. lo <= applied + 1
      BY <1>0, <1>2, <2>4, <2>5
    <2> QED BY <1>4, <2>1, <2>6
  <1>6. \A k \in lo .. hi : /\ k \in 1 .. n /\ k \in applied + 1 .. n /\
                                 Printable(journal[k].by, Memoized(journal[k]).content)
                            /\ Reached(k - 1)[journal[k].by] # Gone
    <2>1. \A k \in lo .. hi : k \in 1 .. n /\ k \in applied + 1 .. n
      BY <1>4, <1>5
    <2>2. \A k \in lo .. hi : Printable(journal[k].by, Memoized(journal[k]).content) /\
         After(file, applied + 1, k - 1)[journal[k].by] # Gone
      BY <1>0, <1>3, <1>5 DEF Acceptable
    <2> QED BY <2>1, <2>2, Reaching
  <1>7. \A k \in 1 .. n : journal'[k] = IF k \in lo .. hi THEN Memoized(journal[k]) ELSE journal[k]
    <2>1. \A k \in 1 .. n : journal'[k] = IF /\ k \in lo .. hi
                                             /\ \A j \in lo .. k : Printable(journal[j].by, Memoized(journal[j]).content)
                                          THEN Memoized(journal[k]) ELSE journal[k]
      BY <1>0, <1>1, <1>4 DEF Serialized
    <2>2. \A k \in lo .. hi : \A j \in lo .. k : j \in lo .. hi
      BY <1>4, <1>5
    <2>3. \A k \in lo .. hi : \A j \in lo .. k : Printable(journal[j].by, Memoized(journal[j]).content)
      BY <1>6, <2>2
    <2> QED BY <2>1, <2>3
  <1>8. journal' \in Seq(Directives) /\ Len(journal') = n
    <2>1. PICK f : f = journal'
      OBVIOUS
    <2>2. f = [i \in DOMAIN journal |-> f[i]]
      BY <1>1, <2>1 DEF Serialized
    <2>3. \A k \in 1 .. Len(journal) : f[k] = journal[k] \/ f[k] = Memoized(journal[k])
      BY <1>0, <1>7, <2>1
    <2> QED BY <1>0, <1>4, <2>1, <2>2, <2>3, StillDirectives
  <1>9. file' = Reached(hi) /\ file' \in Trees
    <2>1. file' = Reached(hi)
      BY <1>3, <1>5, Reaching
    <2>2. hi \in applied .. Len(journal)
      BY <1>0, <1>4, <1>5
    <2> QED BY <1>4, <2>1, <2>2, WalkTyped DEF Reached
  <1>10. Shapes' /\ Answered'
    <2>1. applied' \in 0 .. spliced /\ spliced' \in 0 .. Len(journal')
      BY <1>1, <1>4, <1>5, <1>8
    <2> QED BY <1>1, <1>4, <1>8, <1>9, <2>1, StillAnswered DEF Shapes, Trees, Now
  <1>11. \A k \in 1 .. n : journal'[k] = journal[k] \/ journal'[k] = Memoized(journal[k])
    BY <1>7
  <1>12. ASSUME NEW k \in 1 .. n
         PROVE  /\ journal'[k].by = journal[k].by
                /\ \/ journal'[k].content = journal[k].content
                   \/ journal[k].content = None /\ journal'[k].content = live[journal[k].by]
    BY <1>0, <1>4, <1>11, PrintedOnce
  <1>13. \A x : OnlyPrints(x)
    BY <1>0, <1>12 DEF OnlyPrints
  <1>14. Sound(journal', live', file', applied')
    <2>1. \A k \in Len(journal) + 1 .. Len(journal') : FALSE
      BY <1>0, <1>4, <1>8
    <2>2. Len(journal) <= Len(journal')
      BY <1>0, <1>4, <1>8
    <2> QED BY <1>1, <1>4, <1>10, <1>13, <2>1, <2>2, PrintingSounds
  <1>15. ASSUME NEW x \in Handles, NEW i \in hi .. n
         PROVE  Walk(journal', live', file', applied', i)[x] = Reached(i)[x]
    <2>1. Walk(journal', live', file', applied', hi) = file'
      BY <1>1, <1>14, WalkStarts
    <2>2. Walk(journal', live', file', applied', hi)[x] = Walk(journal, live, file, applied, hi)[x]
      BY <1>9, <2>1 DEF Reached
    <2>3. /\ i \in Nat /\ applied' <= hi /\ applied <= hi /\ hi <= i /\ i <= Len(journal) /\ i <= Len(journal')
          /\ \A k \in hi + 1 .. i : k \in 1 .. n
      BY <1>0, <1>1, <1>4, <1>5, <1>8
    <2>4. ASSUME NEW k \in 1 .. n PROVE journal'[k].by = journal[k].by /\
         ContentOf(journal'[k], live') = ContentOf(journal[k], live)
      <3>1. journal'[k].by = journal[k].by /\ (journal[k].content = None => live[journal[k].by] # None)
        BY <1>0, <1>4, <1>12 DEF Sound
      <3> QED BY <1>1, <1>12, <3>1 DEF ContentOf
    <2>5. \A k \in hi + 1 .. i : journal'[k].by = journal[k].by /\
         (journal'[k].by = x => ContentOf(journal'[k], live') = ContentOf(journal[k], live))
      BY <2>3, <2>4
    <2>6. Walk(journal', live', file', applied', i)[x] = Walk(journal, live, file, applied, i)[x]
      BY <1>4, <1>5, <1>14, <2>2, <2>3, <2>5, WalksAgree
    <2> QED BY <2>6 DEF Reached
  <1>16. ASSUME NEW x \in Handles PROVE Document'[x] = Document[x] /\ (Stuck(x) => Stuck(x)')
    <2>1. Document'[x] = Document[x]
      <3>1. n \in hi .. n
        BY <1>4, <1>5
      <3>2. Document' = Walk(journal', live', file', applied', n)
        BY <1>8, ReachingNext
      <3> QED BY <1>0, <1>15, <3>1, <3>2, Reaching
    <2>2. ASSUME Stuck(x) PROVE Stuck(x)'
      <3>1. PICK k \in applied + 1 .. n : journal[k].by = x /\ Reached(k - 1)[x] = Gone
        BY <1>0, <2>2, StuckIs DEF StuckThere, Reached
      <3>2. k \notin lo .. hi
        BY <1>6, <3>1
      <3>3. k \in hi + 1 .. n /\ k - 1 \in hi .. n /\ k \in 1 .. n /\ k \in applied' + 1 .. Len(journal')
        BY <1>1, <1>4, <1>5, <1>8, <3>2
      <3>4. journal'[k].by = x /\ Walk(journal', live', file', applied', k - 1)[x] = Gone
        BY <1>12, <1>15, <3>1, <3>3
      <3>5. StuckThere(journal', live', file', applied', x)
        BY <3>3, <3>4 DEF StuckThere
      <3> QED BY <3>5, StuckNext
    <2> QED BY <2>1, <2>2
  <1>17. ASSUME NEW x \in Handles PROVE Aside(x)
    <2>1. Same(x)
      BY <1>1, <1>3 DEF Same, Invariant, Types
    <2>2. ASSUME NEW k \in 1 .. n, journal[k].by = x, journal'[k].content = None PROVE k > applied'
      <3>1. journal[k].content = None /\ live[x] # None
        BY <1>0, <1>4, <1>12, <2>2 DEF Sound
      <3>2. k > applied
        BY <1>0, <1>4, <2>2, <3>1 DEF Opened
      <3>3. k \notin lo .. hi
        <4>1. SUFFICES ASSUME k \in lo .. hi PROVE FALSE
          OBVIOUS
        <4>2. journal'[k] = Memoized(journal[k]) /\ journal[k] \in Directives
          BY <1>0, <1>4, <1>7, <4>1 DEF Shapes
        <4> QED BY <2>2, <3>1, <4>2 DEF Memoized, Directives
      <3> QED BY <1>1, <1>4, <1>5, <3>2, <3>3
    <2>3. \A k \in spliced' + 1 .. n : journal'[k] = journal[k]
      <3>1. \A k \in spliced' + 1 .. n : k \in 1 .. n /\ k \notin lo .. hi
        BY <1>1, <1>4, <1>5
      <3> QED BY <1>7, <3>1
    <2>4. pc[x] = "loaded" => file'[x] = file[x]
      <3>1. ASSUME pc[x] = "loaded" PROVE \A k \in applied + 1 .. hi : journal[k].by # x
        <4>1. \A k \in applied + 1 .. n : journal[k].by # x
          BY <1>0, <1>4, <3>1 DEF Standing
        <4>2. \A k \in applied + 1 .. hi : k \in applied + 1 .. n
          BY <1>4, <1>5
        <4> QED BY <4>1, <4>2
      <3>2. pc[x] = "loaded" => Walk(journal, live, file, applied, hi)[x] = Walk(journal, live, file, applied, applied)[x]
        <4>1. applied <= applied /\ applied <= hi /\ hi <= Len(journal)
          BY <1>0, <1>4, <1>5
        <4> QED BY <1>4, <1>5, <3>1, <4>1, WalkPasses
      <3> QED BY <1>4, <1>9, <3>2, WalkStarts DEF Reached
    <2>5. \A k \in Len(journal) + 1 .. Len(journal') : FALSE
      BY <1>0, <1>4, <1>8
    <2>6. Len(journal) <= Len(journal') /\ spliced <= spliced' /\ applied <= applied'
      BY <1>0, <1>1, <1>4, <1>5, <1>8
    <2> QED BY <1>0, <1>13, <1>16, <2>1, <2>2, <2>3, <2>4, <2>5, <2>6 DEF Aside
  <1>18. \A x \in Handles : Passed(x)
    BY <1>4, <1>10, <1>17, PassedBy
  <1>19. Ranges'
    <2>1. \A k \in 1 .. Len(journal) : journal'[k].by = journal[k].by
      BY <1>0, <1>12
    <2>2. applied' = IF Head(calls).kind = "emit" THEN Head(calls).hi ELSE applied
      BY <1>0, <1>1
    <2> QED BY <1>0, <1>1, <1>8, <1>10, <2>1, <2>2, RangesServed
  <1>20. Finale'
    <2>1. CASE b.by \in Handles
      <3>1. phase' = phase /\ ~settled[b.by]
        BY <1>3, <2>1, HandleAssumption DEF Invariant, Ended
      <3>2. phase' \notin {"flushing", "flushed", "committed"}
        BY <2>1, <3>1 DEF Invariant, Ended
      <3> QED BY <3>2 DEF Finale
    <2>2. CASE b.by = Main
      <3>1. phase = "flushing" /\ phase' = "flushed" /\ spliced' = spliced /\ spliced = n
        BY <1>0, <1>1, <1>3, <2>2, HandleAssumption DEF Hopeful, Finale
      <3>2. \A i \in 1 .. Len(calls) : i = 1
        <4> SUFFICES ASSUME NEW i \in 1 .. Len(calls) PROVE i = 1
          OBVIOUS
        <4>1. WaitsFor(calls[i], phase, pc)
          BY DEF Invariant, Calling
        <4>2. calls[i].by = Main
          <5>1. \A x \in Handles : pc[x] = "idle"
            BY <3>1 DEF Invariant, Ended
          <5> QED BY <4>1, <5>1 DEF WaitsFor
        <4> QED BY <1>2, <2>2, <4>2 DEF Invariant, Calling
      <3>3. hi = spliced
        <4>1. SUFFICES ASSUME hi < spliced PROVE FALSE
          BY <1>4, <1>5
        <4>2. spliced \in applied + 1 .. spliced
          BY <1>4, <1>5
        <4>3. PICK i \in 1 .. Len(calls) : Carries(calls[i], spliced)
          BY <4>2 DEF Hopeful, Ranges
        <4>4. spliced <= hi
          BY <1>0, <1>2, <3>2, <4>3 DEF Carries
        <4> QED BY <1>4, <1>5, <4>1, <4>4
      <3> QED BY <1>1, <1>8, <3>1, <3>3 DEF Finale
    <2> QED BY <1>3, <2>1, <2>2
  <1> QED BY <1>10, <1>18, <1>19, <1>20 DEF Hopeful, Passed, Progress

-----------------------------------------------------------------------------
(* The theorems.                                                            *)

(* A run starts hopeful.                                                    *)
LEMMA HopefulInit == Init => Hopeful
  <1> SUFFICES ASSUME Init PROVE Hopeful
    OBVIOUS
  <1>1. /\ phase = "fn" /\ chain = [h \in Handles |-> <<>>] /\ pc = [h \in Handles |-> "idle"]
        /\ live = [h \in Handles |-> None] /\ emitted = [h \in Handles |-> None] /\ open = [h \in Handles |-> 0]
        /\ journal = <<>> /\ spliced = 0 /\ applied = 0 /\ calls = <<>>
        /\ file = [h \in Handles |-> <<>>] /\ got = [h \in Handles |-> None] /\ answers = {}
    BY DEF Init
  <1>2. Len(journal) = 0 /\ Len(calls) = 0
    BY <1>1
  <1>3. Shapes
    BY <1>1, <1>2, HandleAssumption DEF Shapes, Contents, Now
  <1>4. Ranges /\ Answered /\ Finale
    BY <1>1, <1>2 DEF Ranges, Answered, Finale
  <1>5. ASSUME NEW h \in Handles PROVE Opened(h) /\ Standing(h) /\ Live(h)
    BY <1>1, <1>2 DEF Opened, Standing, Live
  <1>6. ASSUME NEW h \in Handles PROVE Told(h)
    <2>1. Sound(journal, live, file, applied)
      BY <1>3, <1>5, Sounds
    <2>2. Document[h] = file[h]
      BY <1>1, <1>2, <2>1, NothingUnderWay
    <2>3. Done(h) = 0
      BY <1>1 DEF Done, Now
    <2>4. Replay(h, 0) = <<>>
      BY ReplayIs, ReplayNothing
    <2> QED BY <1>1, <2>2, <2>3, <2>4 DEF Told
  <1> QED BY <1>3, <1>4, <1>5, <1>6 DEF Hopeful

(* A step that does nothing.                                                *)
LEMMA HopefulStutter ==
  ASSUME Hopeful, UNCHANGED vars
  PROVE  Hopeful' /\ Progress
  <1>1. UNCHANGED <<phase, journal, spliced, failure, chain, pc, live, emitted, open, rejected, settled, got,
       answers, applied, calls, file, kept>>
    BY DEF vars, handleVars, engineVars
  <1>2. Shapes' /\ Ranges' /\ Finale'
    BY <1>1 DEF Hopeful, Shapes, Ranges, Finale, Now, Carries
  <1>3. Kept /\ Len(journal') = Len(journal) /\ spliced <= spliced' /\ \A x \in Handles : Same(x)
    BY <1>1 DEF Kept, Same, Hopeful, Shapes
  <1>4. \A x \in Handles : Passed(x)
    BY <1>1, <1>2, <1>3, Elsewhere
  <1> QED BY <1>1, <1>2, <1>4, StillAnswered DEF Hopeful, Passed, Progress

(* As long as the run may succeed, each step keeps all this, and is at most *)
(* one step of one document.                                                *)
LEMMA HopefulNext ==
  ASSUME ~EditAfterReplace, ~EditAfterMeasure, Invariant, Hopeful, ~Doomed, [Next]_vars, ~Doomed'
  PROVE  Hopeful' /\ Progress
  <1>1. ASSUME NEW h \in Handles, HandleStep(h) PROVE Hopeful' /\ Progress
    <2>1. phase \in {"fn", "drain"} /\ ~failure
      BY <1>1, Begun
    <2>2. ASSUME NEW s \in Kinds, Enqueue(h, s) PROVE Hopeful' /\ Progress
      BY <2>2, EnqueueHopes
    <2>3. ASSUME FlushRefused(h) PROVE FALSE
      BY <2>3 DEF FlushRefused, Doomed
    <2>4. ASSUME Skip(h) PROVE FALSE
      BY <2>1, <2>4 DEF Skip
    <2> QED BY <1>1, <2>1, <2>2, <2>3, <2>4, WholesaleHopes, EnterHopes, AskHopes, ReadDoneHopes, LoadHopes,
               OperateHopes,
               RegisterHopes, QueryHopes, SettleHopes DEF HandleStep
  <1>2. CASE ServeRead
    <2>1. phase' = phase
      BY <1>2 DEF ServeRead
    <2> QED BY <1>2, <2>1, ServeReadHopes
  <1>3. ASSUME Throw PROVE FALSE
    BY <1>3 DEF Throw, Doomed
  <1>4. CASE UNCHANGED vars
    BY <1>4, HopefulStutter
  <1> QED BY <1>1, <1>2, <1>3, <1>4, ServeEmitHopes, MeasureHopes, ReturnHopes, DrainedHopes, CommitHopes DEF Next

(* In every run of an author who edits neither a document that has been     *)
(* replaced nor one that scaffold() has measured.                           *)
THEOREM HopefulOrDoomed ==
  ASSUME ~EditAfterReplace, ~EditAfterMeasure
  PROVE  Spec => [](Doomed \/ Hopeful)
  <1>1. ASSUME Invariant, Doomed \/ Hopeful, [Next]_vars PROVE (Doomed \/ Hopeful)'
    <2>1. CASE Doomed
      <3>1. UNCHANGED vars => Doomed'
        BY <2>1 DEF Doomed, vars, handleVars
      <3> QED BY <1>1, <2>1, <3>1, DoomedStays
    <2> QED BY <1>1, <2>1, HopefulNext
  <1>2. Init => Hopeful
    BY HopefulInit
  <1> QED BY <1>1, <1>2, HandleInvariant, PTL DEF Spec

(* A read or a query answers with the effects of the earlier steps of its   *)
(* chain (src/core/dialect-handle.ts), whatever was flushed in between.     *)
THEOREM EditsAreSeen ==
  ASSUME ~EditAfterReplace, ~EditAfterMeasure
  PROVE  Spec => []ReadsSeeTheChain
  <1>1. Doomed \/ Hopeful => ReadsSeeTheChain
    BY DEF ReadsSeeTheChain, Hopeful, Answered
  <1> QED BY <1>1, HopefulOrDoomed, PTL

(* A run that succeeds writes what its chains amount to: no edit is lost or *)
(* written twice, however flushes split the directives.                     *)
THEOREM EditsAreWritten ==
  ASSUME ~EditAfterReplace, ~EditAfterMeasure
  PROVE  Spec => []CommitHoldsEveryEdit
  <1>1. ASSUME Invariant, Doomed \/ Hopeful PROVE CommitHoldsEveryEdit
    <2> SUFFICES ASSUME phase = "committed", NEW h \in Handles PROVE kept[h] = Replay(h, Now(h))
      BY DEF CommitHoldsEveryEdit
    <2>1. \A x \in Handles : ~rejected[x] /\ pc[x] = "idle"
      BY <1>1 DEF Invariant, Ended
    <2>2. Hopeful
      BY <1>1, <2>1 DEF Doomed
    <2>3. spliced = Len(journal) /\ applied = spliced /\ kept = file /\ Len(journal) \in Nat
      BY <2>2 DEF Hopeful, Finale, Shapes
    <2>4. \A k \in applied + 1 .. Len(journal) : FALSE
      BY <2>3
    <2>5. Document[h] = file[h] /\ ~Stuck(h)
      BY <2>2, <2>4, Sounds, NothingUnderWay DEF Hopeful
    <2>6. Document[h] = Replay(h, Now(h))
      BY <2>1, <2>2, <2>5 DEF Hopeful, Told, Done
    <2> QED BY <2>3, <2>5, <2>6
  <1> QED BY <1>1, HandleInvariant, HopefulOrDoomed, PTL

(* The document is a tree.                                                  *)
LEMMA DocumentTyped == Hopeful => Document \in Trees
  <1> SUFFICES ASSUME Hopeful PROVE Document \in Trees
    OBVIOUS
  <1>1. Sound(journal, live, file, applied)
    BY Sounds DEF Hopeful
  <1>2. Len(journal) \in applied .. Len(journal)
    BY <1>1 DEF Sound
  <1> QED BY <1>1, <1>2, WalkTyped, Reaching DEF Reached

(* What the refinement takes for the documents and the outcome.             *)
Doc == IF Doomed THEN [h \in Handles |-> <<>>] ELSE Document
Outcome == IF Doomed THEN "aborted" ELSE IF phase = "committed" THEN "committed" ELSE "running"

HopefulDocument == Doomed \/ (Hopeful /\ Document \in Trees)

(* Two trees that differ in one path.                                       *)
LEMMA OnePath ==
  ASSUME NEW t \in Trees, NEW u \in Trees, NEW h \in Handles, \A x \in Handles \ {h} : u[x] = t[x]
  PROVE  u = [t EXCEPT ![h] = u[h]]
  BY DEF Trees

(* Two trees with the same document at every path are the same.             *)
LEMMA SamePaths ==
  ASSUME NEW t \in Trees, NEW u \in Trees, \A x \in Handles : u[x] = t[x]
  PROVE  u = t
  BY DEF Trees

(* Each step of the run is a step of the sequential documents, or none of   *)
(* theirs.                                                                  *)
LEMMA EditStep ==
  ASSUME ~EditAfterReplace, ~EditAfterMeasure, Invariant, HopefulDocument, HopefulDocument', [Next]_vars
  PROVE  [Sequential!Next]_<<Doc, kept, Outcome>>
  <1>1. Running \/ UNCHANGED vars
    BY DEF Next
  <1>2. kept' = kept \/ CommitRun
    BY DEF Next, vars, handleVars, engineVars, HandleStep, Enqueue, Skip, Wholesale, Enter, Ask, FlushRefused,
       ReadDone, Load, Operate,
           Register, Query, Settle, ServeEmit, ServeRead, Measure, Return, Throw, Drained
  <1>3. CommitRun => ~Doomed
    BY DEF CommitRun, Doomed, Invariant, Ended
  <1>4. CASE Doomed
    <2>1. Doomed'
      <3>1. UNCHANGED vars => Doomed'
        BY <1>4 DEF Doomed, vars, handleVars
      <3> QED BY <1>4, <3>1, DoomedStays
    <2> QED BY <1>2, <1>3, <1>4, <2>1 DEF Doc, Outcome
  <1>5. CASE ~Doomed /\ Doomed'
    <2>1. phase # "committed" /\ ~CommitRun
      <3>1. ~UNCHANGED vars
        BY <1>5 DEF Doomed, vars, handleVars
      <3>2. phase # "committed"
        BY <1>1, <3>1 DEF Running
      <3>3. ASSUME CommitRun PROVE FALSE
        BY <1>5, <3>3 DEF CommitRun, Doomed, handleVars
      <3> QED BY <3>2, <3>3
    <2>2. Outcome = "running" /\ Outcome' = "aborted" /\ Doc' = [h \in Handles |-> <<>>] /\ kept' = kept
      BY <1>2, <1>5, <2>1 DEF Doc, Outcome
    <2>3. Sequential!Abort
      BY <2>2 DEF Sequential!Abort, Sequential!Untouched, Doc, Outcome
    <2> QED BY <2>3 DEF Sequential!Next
  <1>6. CASE ~Doomed /\ ~Doomed'
    <2>1. Hopeful /\ Hopeful' /\ Progress /\ Document \in Trees /\ Document' \in Trees
      BY <1>6, HopefulNext DEF HopefulDocument
    <2>2. Doc = Document /\ Doc' = Document'
      BY <1>6 DEF Doc
    <2>3. CASE CommitRun
      <3>1. /\ phase = "flushed" /\ phase' = "committed" /\ kept' = file
            /\ UNCHANGED <<journal, spliced, chain, pc, live, emitted, open, got, applied, file>>
        BY <2>3 DEF CommitRun, handleVars
      <3>2. Document' = Document
        BY <3>1 DEF Document, After, Printing, Memoized
      <3>3. spliced = Len(journal) /\ applied = spliced /\ Len(journal) \in Nat
        BY <2>1, <3>1 DEF Hopeful, Finale, Shapes
      <3>4. \A k \in applied + 1 .. Len(journal) : FALSE
        BY <3>3
      <3>5. \A h \in Handles : Document[h] = file[h]
        BY <2>1, <3>4, Sounds, NothingUnderWay DEF Hopeful
      <3>6. file \in Trees
        BY <2>1 DEF Hopeful, Shapes, Trees
      <3>7. Document = file
        BY <2>1, <3>5, <3>6, SamePaths
      <3>8. Outcome = "running" /\ Outcome' = "committed"
        BY <1>6, <3>1 DEF Outcome
      <3>9. Sequential!Commit
        BY <2>2, <3>1, <3>2, <3>7, <3>8 DEF Sequential!Commit, Doc, Outcome
      <3> QED BY <3>9 DEF Sequential!Next
    <2>4. CASE ~CommitRun
      <3>1. kept' = kept
        BY <1>2, <2>4
      <3>2. phase' = "committed" <=> phase = "committed"
        <4>1. UNCHANGED vars => phase' = phase
          BY DEF vars
        <4>2. ~UNCHANGED vars => phase # "committed"
          BY <1>1 DEF Running
        <4>3. ASSUME Next PROVE phase' # "committed"
          <5>1. phase # "committed"
            BY <4>3 DEF Next, Running
          <5> QED BY <2>4, <4>3, <5>1 DEF Next, HandleStep, Enqueue, Skip, Wholesale, Enter, Ask, FlushRefused,
                     ReadDone, Load, Operate,
                     Register, Query, Settle, ServeEmit, ServeRead, Measure, Return, Throw, Drained
        <4> QED BY <4>1, <4>2, <4>3
      <3>3. Outcome' = Outcome
        BY <1>6, <3>2 DEF Outcome
      <3>4. CASE \A x \in Handles : Still(x)
        <4>1. Document' = Document
          BY <2>1, <3>4, SamePaths DEF Still
        <4> QED BY <2>2, <3>1, <3>3, <4>1
      <3>5. ASSUME NEW h \in Handles, Moves(h), \A x \in Handles \ {h} : Still(x)
            PROVE  [Sequential!Next]_<<Doc, kept, Outcome>>
        <4>1. Document' = [Document EXCEPT ![h] = Document'[h]]
          BY <2>1, <3>5, OnePath DEF Still
        <4>2. CASE Outcome = "running"
          <5>1. Sequential!Step(h)
            BY <2>2, <3>1, <3>3, <3>5, <4>1, <4>2 DEF Sequential!Step, Moves, Doc, Outcome
          <5> QED BY <5>1 DEF Sequential!Next
        <4>3. CASE Outcome # "running"
          <5>1. phase = "committed"
            BY <1>6, <4>3 DEF Outcome
          <5>2. UNCHANGED vars
            BY <1>1, <5>1 DEF Running
          <5>3. Document' = Document
            BY <5>2 DEF Document, After, Printing, Memoized, vars, handleVars, engineVars
          <5> QED BY <2>2, <3>1, <3>3, <5>3
        <4> QED BY <4>2, <4>3
      <3> QED BY <2>1, <3>4, <3>5 DEF Progress
    <2> QED BY <2>3, <2>4
  <1> QED BY <1>4, <1>5, <1>6

(* The handles (src/core/dialect-handle.ts) implement the sequential         *)
(* documents: a step of the run is one step of one document at most, a      *)
(* flush changes none, and a run commits the documents as they are, or      *)
(* nothing.                                                                 *)
THEOREM ImplementsSequentially ==
  ASSUME ~EditAfterReplace, ~EditAfterMeasure
  PROVE  Spec => ImplementsSequentialEdits
  <1>1. Init => Sequential!Init
    <2> SUFFICES ASSUME Init PROVE Sequential!Init
      OBVIOUS
    <2>1. Hopeful
      BY HopefulInit
    <2>2. ~Doomed /\ Outcome = "running" /\ kept = [h \in Handles |-> <<>>] /\ journal = <<>> /\ applied = 0
      BY DEF Init, Doomed, Outcome
    <2>3. \A k \in applied + 1 .. Len(journal) : FALSE
      BY <2>2
    <2>4. \A h \in Handles : Document[h] = file[h]
      BY <2>1, <2>3, Sounds, NothingUnderWay DEF Hopeful
    <2>5. file \in Trees /\ Document \in Trees /\ file = [h \in Handles |-> <<>>]
      BY <2>1, DocumentTyped DEF Init, Hopeful, Shapes, Trees
    <2>6. Document = [h \in Handles |-> <<>>]
      BY <2>4, <2>5, SamePaths
    <2> QED BY <2>2, <2>6 DEF Sequential!Init, Sequential!Untouched, Outcome
  <1>2. Spec => []HopefulDocument
    <2>1. Doomed \/ Hopeful => HopefulDocument
      BY DocumentTyped DEF HopefulDocument
    <2> QED BY <2>1, HopefulOrDoomed, PTL
  <1>3. Invariant /\ HopefulDocument /\ HopefulDocument' /\ [Next]_vars => [Sequential!Next]_<<Doc, kept, Outcome>>
    BY EditStep
  <1> QED BY <1>1, <1>2, <1>3, HandleInvariant, PTL DEF Spec, ImplementsSequentialEdits, Sequential!Spec, Doc, Outcome

==============================================================================
