-------------------------- MODULE RunBoundary_proofs --------------------------
(***************************************************************************)
(* Proofs about RunBoundary for every instance of its constants: first its *)
(* types and what its queue of calls looks like, then its safety           *)
(* properties, which rest on them.  These are what a failing run may do;   *)
(* what becomes of the directives the author buffers: none is lost or      *)
(* counted twice, and the engine applies them in author order; that the    *)
(* run of an author who awaits his promises is complete when it succeeds;  *)
(* and, last, that a read returns a replay of the journal which holds all  *)
(* the author had buffered before it, and that a run is atomic.            *)
(***************************************************************************)
EXTENDS RunBoundary, TLAPS

-----------------------------------------------------------------------------
(* The inductive invariants.                                               *)

(* Batches in flight are disjoint ranges of positions already spliced,     *)
(* the oldest lowest.                                                      *)
QueueInv ==
  \A i \in DOMAIN calls :
    /\ calls[i].next >= 1 /\ calls[i].hi <= spliced
    /\ calls[i].kind # "emit" => calls[i].next = 1 /\ calls[i].hi = 0
    /\ \A j \in DOMAIN calls :
         i < j /\ calls[j].kind = "emit" => calls[i].hi < calls[j].next

(* A caller has one call outstanding at most, its late ones aside, and     *)
(* stands where it waits for the answer.  Only defineFactory commits and   *)
(* discards, only readers read.                                            *)
Blocked == {"flushing", "committing", "discarding"}
Busy == {"flushing", "reading"}

Waits(c) ==
  /\ c.kind = "read" => c.by \in Readers
  /\ ~c.late /\ c.by = Main =>
       \/ c.kind = "emit"    /\ pc = "flushing"
       \/ c.kind = "commit"  /\ pc = "committing"
       \/ c.kind = "discard" /\ pc = "discarding"
  /\ ~c.late /\ c.by \in Tasks =>
       \/ c.kind = "emit" /\ task[c.by] = "flushing"
       \/ c.kind = "read" /\ task[c.by] = "reading"

CallerInv ==
  \A i \in DOMAIN calls :
    /\ Waits(calls[i])
    /\ \A j \in DOMAIN calls :
         ~calls[i].late /\ ~calls[j].late /\ calls[j].by = calls[i].by => j = i

-----------------------------------------------------------------------------
(* Types.                                                                  *)

(* What read() serves is a file.                                           *)
LEMMA LookupType ==
  ASSUME NEW st \in Staging, NEW p \in Path
  PROVE  Lookup(st, p) \in File
BY StagingAssumption DEF Lookup, Staging, File

(* rename, move and the others write to a path.                            *)
LEMMA TargetType ==
  ASSUME NEW d \in Directive
  PROVE  Target(d) \in Path
BY DEF Target, Directive, Path

(* Applying a directive yields a staging record.                           *)
LEMMA EffectType ==
  ASSUME NEW st \in Staging, NEW d \in Directive
  PROVE  Effect(st, d) \in Staging
<1>1. ASSUME NEW s \in Staging, NEW p \in Path, NEW c \in File
      PROVE  Put(s, p, c) \in Staging
  BY <1>1 DEF Put, Staging
<1>2. ASSUME NEW s \in Staging, NEW p \in Path
      PROVE  Drop(s, p) \in Staging
  BY <1>2 DEF Drop, Staging, File
<1>3. CASE d.op \in {"create", "modify"}
  <2>1. d.path \in Path /\ d.content \in File
    BY <1>3 DEF Directive, File
  <2>2. Effect(st, d) = Put(st, d.path, d.content)
    BY <1>3 DEF Effect
  <2>3. QED BY <1>1, <2>1, <2>2
<1>4. CASE d.op = "delete"
  <2>1. d.path \in Path
    BY <1>4 DEF Directive
  <2>2. Effect(st, d) = Drop(st, d.path)
    BY <1>4 DEF Effect
  <2>3. QED BY <1>2, <2>1, <2>2
<1>5. CASE d.op \in {"rename", "move"}
  <2>1. d.path \in Path
    BY <1>5 DEF Directive
  <2>2. Effect(st, d) = Put(Drop(st, d.path), Target(d), Lookup(st, d.path))
    BY <1>5 DEF Effect
  <2>3. Drop(st, d.path) \in Staging
    BY <1>2, <2>1
  <2>4. QED BY <1>1, <2>1, <2>2, <2>3, TargetType, LookupType
<1>6. CASE d.op = "copy"
  <2>1. d.path \in Path /\ d.to \in Path
    BY <1>6 DEF Directive
  <2>2. Effect(st, d) = Put(st, d.to, Lookup(st, d.path))
    BY <1>6 DEF Effect
  <2>3. QED BY <1>1, <2>1, <2>2, LookupType
<1>7. CASE d.op = "copyIn"
  BY <1>7 DEF Effect
<1>8. QED
  BY <1>3, <1>4, <1>5, <1>6, <1>7 DEF Directive

(* A commit yields a tree.                                                 *)
LEMMA PromoteType ==
  ASSUME NEW st \in Staging, NEW c \in [Path -> File]
  PROVE  Promote(c, st) \in [Path -> File]
BY DEF Promote, Staging, File

LEMMA EmptyTypes == EmptyStaging \in Staging /\ NothingCommitted \in [Path -> File]
BY DEF EmptyStaging, Staging, NothingCommitted, File

LEMMA InitTypes == Init => TypeOK
<1> SUFFICES ASSUME Init PROVE TypeOK
  OBVIOUS
<1>1. (CHOOSE p \in Path : TRUE) \in Path
  BY RunAssumption
<1>2. file \in [Readers -> Path]
  BY <1>1 DEF Init
<1>3. /\ journal \in Seq(Verbs) /\ registry \in Seq(Chunks) /\ joined \in Seq(Chunks)
      /\ calls \in Seq(Call) /\ spliced \in 0 .. Len(journal)
  BY DEF Init
<1>4. staging \in Staging /\ committed \in [Path -> File]
  BY EmptyTypes DEF Init
<1>5. pc \in PC /\ error \in [by: Tasks \cup {Main},
                              class: {"none", "author", "rejected", "faulted"},
                              at: {"none"} \cup PC]
  BY DEF Init, PC, Over, NoError
<1>6. task \in [Tasks -> TaskState] /\ mark \in [Readers -> Nat] /\ seen \in [Tasks -> File]
  BY DEF Init, TaskState, File
<1>7. QED
  BY <1>2, <1>3, <1>4, <1>5, <1>6 DEF Init, TypeOK

(* An answer keeps the types of what the caller sees.                      *)
LEMMA TellTypes ==
  ASSUME TypeOK, NEW c \in Call, NEW outcome \in {"ok", "rejected", "faulted"},
         NEW value \in File, c.by = Main => pc \in {"flushing", "committing", "discarding"},
         Tell(c, outcome, value)
  PROVE  /\ pc' \in PC /\ cause' \in BOOLEAN
         /\ error' \in [by: Tasks \cup {Main}, class: {"none", "author", "rejected", "faulted"},
                         at: {"none"} \cup PC]
         /\ task' \in [Tasks -> TaskState] /\ seen' \in [Tasks -> File]
<1>1. CASE c.by = Main
  <2>1. MainReply(outcome)
    BY <1>1 DEF Tell
  <2>2. pc' \in PC /\ cause' \in BOOLEAN /\ UNCHANGED <<task, seen>>
    BY <2>1 DEF MainReply, Fail, TypeOK, PC, Over
  <2>3. error' \in [by: Tasks \cup {Main}, class: {"none", "author", "rejected", "faulted"},
                    at: {"none"} \cup PC]
    BY <1>1, <2>1 DEF MainReply, Fail, TypeOK
  <2>4. QED BY <2>2, <2>3 DEF TypeOK
<1>2. CASE c.by # Main
  <2>1. TaskReply(c.by, outcome, value) /\ c.by \in Tasks
    BY <1>2 DEF Tell, Call
  <2>2. task' \in [Tasks -> TaskState] /\ seen' \in [Tasks -> File]
    BY <2>1 DEF TaskReply, TypeOK, TaskState
  <2>3. UNCHANGED <<pc, error, cause>>
    BY <2>1 DEF TaskReply
  <2>4. QED BY <2>2, <2>3 DEF TypeOK
<1>3. QED BY <1>1, <1>2

(* Serving the oldest call leaves the types of everything but the engine's *)
(* own state.                                                              *)
LEMMA ReplyTypes ==
  ASSUME TypeOK, calls # <<>>, staging' \in Staging, committed' \in [Path -> File],
         applied' \subseteq Nat, dropped' \subseteq Nat, landed' \in BOOLEAN, faults' \in Nat,
         NEW outcome \in {"ok", "rejected", "faulted"}, NEW value \in File,
         ~Head1.late /\ Head1.by = Main => pc \in {"flushing", "committing", "discarding"},
         Reply(outcome, value)
  PROVE  TypeOK'
<1>1. calls' \in Seq(Call) /\ Head1 \in Call
  BY DEF Reply, TypeOK, Head1
<1>2. UNCHANGED <<spliced, joined, authorVars>>
  BY DEF Reply
<1>3. /\ pc' \in PC /\ cause' \in BOOLEAN
      /\ error' \in [by: Tasks \cup {Main}, class: {"none", "author", "rejected", "faulted"},
                      at: {"none"} \cup PC]
      /\ task' \in [Tasks -> TaskState] /\ seen' \in [Tasks -> File]
  <2>1. CASE Head1.late
    BY <2>1 DEF Reply, TypeOK
  <2>2. CASE ~Head1.late
    BY <1>1, <2>2, TellTypes DEF Reply
  <2>3. QED BY <2>1, <2>2
<1>4. QED BY <1>1, <1>2, <1>3 DEF TypeOK, authorVars

(* Splicing the pending buffer into a batch keeps the queue a queue.       *)
LEMMA SpliceTypes ==
  ASSUME TypeOK, NEW by \in Tasks \cup {Main}, Splice(by)
  PROVE  calls' \in Seq(Call) /\ spliced' \in 0 .. Len(journal)
BY DEF Splice, Batch, TypeOK, Call

LEMMA PlainTypes ==
  ASSUME TypeOK, NEW kind \in {"read", "commit", "discard"}, NEW by \in Tasks \cup {Main},
         calls' = Append(calls, PlainCall(kind, by))
  PROVE  calls' \in Seq(Call)
BY DEF PlainCall, TypeOK, Call

(* Steps of the author's code keep the types.                              *)
LEMMA AuthorTypes ==
  ASSUME TypeOK, Author
  PROVE  TypeOK'
<1> USE RunAssumption DEF authorVars, engineVars
<1>1. ASSUME NEW d \in Verbs, Buffer(d) PROVE TypeOK'
  BY <1>1 DEF Buffer, TypeOK
<1>2. ASSUME NEW r \in Readers, NEW p \in Path, StartRead(r, p) PROVE TypeOK'
  <2>1. calls' \in Seq(Call) /\ spliced' \in 0 .. Len(journal)
    BY <1>2, SpliceTypes DEF StartRead, TypeOK, Tasks
  <2>2. task' \in [Tasks -> TaskState]
    BY <1>2 DEF StartRead, TypeOK, TaskState, Tasks
  <2>3. file' \in [Readers -> Path]
    BY <1>2 DEF StartRead, TypeOK
  <2>4. mark' \in [Readers -> Nat]
    BY <1>2 DEF StartRead, TypeOK
  <2>5. QED BY <1>2, <2>1, <2>2, <2>3, <2>4 DEF StartRead, TypeOK
<1>3. ASSUME NEW c \in Chunks, StartChunk(c) PROVE TypeOK'
  <2>1. calls' \in Seq(Call) /\ spliced' \in 0 .. Len(journal)
    BY <1>3, SpliceTypes DEF StartChunk, Tasks
  <2>2. task' \in [Tasks -> TaskState] /\ registry' \in Seq(Chunks)
    BY <1>3 DEF StartChunk, TypeOK, TaskState, Tasks
  <2>3. QED BY <1>3, <2>1, <2>2 DEF StartChunk, TypeOK
<1>4. ASSUME NEW r \in Readers, CatchRejection(r) PROVE TypeOK'
  <2>1. task' \in [Tasks -> TaskState]
    BY <1>4 DEF CatchRejection, TypeOK, TaskState, Tasks
  <2>2. QED BY <1>4, <2>1 DEF CatchRejection, TypeOK
<1>5. ASSUME NEW r \in Readers, Propagate(r) PROVE TypeOK'
  <2>1. pc' \in PC /\ error' \in [by: Tasks \cup {Main},
                                   class: {"none", "author", "rejected", "faulted"},
                                   at: {"none"} \cup PC]
    BY <1>5 DEF Propagate, Fail, TypeOK, Broken, PC, Over, Tasks
  <2>2. QED BY <1>5, <2>1 DEF Propagate, TypeOK
<1>6. CASE Throw
  <2>1. pc' \in PC /\ error' \in [by: Tasks \cup {Main},
                                   class: {"none", "author", "rejected", "faulted"},
                                   at: {"none"} \cup PC]
    BY <1>6 DEF Throw, Fail, TypeOK, PC, Over, Tasks
  <2>2. QED BY <1>6, <2>1 DEF Throw, TypeOK
<1>7. CASE Return
  BY <1>7 DEF Return, TypeOK, PC, Over
<1>8. QED
  BY <1>1, <1>2, <1>3, <1>4, <1>5, <1>6, <1>7 DEF Author

(* Steps of defineFactory keep the types.                                  *)
LEMMA RunTypes ==
  ASSUME TypeOK, Run
  PROVE  TypeOK'
<1> USE RunAssumption DEF authorVars, engineVars
<1>1. CASE Gate
  BY <1>1 DEF Gate, TypeOK, PC, Over
<1>2. CASE Drain
  <2>1. pc' \in PC /\ error' \in [by: Tasks \cup {Main},
                                   class: {"none", "author", "rejected", "faulted"},
                                   at: {"none"} \cup PC]
    BY <1>2 DEF Drain, Fail, TypeOK, Broken, PC, Over, Tasks
  <2>2. QED BY <1>2, <2>1 DEF Drain, TypeOK
<1>3. CASE RunFlush
  <2>1. calls' \in Seq(Call) /\ spliced' \in 0 .. Len(journal)
    BY <1>3, SpliceTypes DEF RunFlush, TypeOK
  <2>2. pc' \in PC
    BY <1>3 DEF RunFlush, PC, Over
  <2>3. QED BY <1>3, <2>1, <2>2 DEF RunFlush, TypeOK
<1>4. CASE IssueCommit
  <2>1. calls' \in Seq(Call)
    BY <1>4, PlainTypes DEF IssueCommit
  <2>2. QED BY <1>4, <2>1 DEF IssueCommit, TypeOK, PC
<1>5. CASE IssueDiscard
  <2>1. calls' \in Seq(Call)
    BY <1>5, PlainTypes DEF IssueDiscard
  <2>2. QED BY <1>5, <2>1 DEF IssueDiscard, TypeOK, PC
<1>6. ASSUME NEW r \in Readers, IssueRead(r) PROVE TypeOK'
  <2>1. calls' \in Seq(Call)
    BY <1>6, PlainTypes DEF IssueRead, Tasks
  <2>2. task' \in [Tasks -> TaskState]
    BY <1>6 DEF IssueRead, TypeOK, TaskState, Tasks
  <2>3. QED BY <1>6, <2>1, <2>2 DEF IssueRead, TypeOK
<1>7. QED
  BY <1>1, <1>2, <1>3, <1>4, <1>5, <1>6 DEF Run

(* Whatever the engine does, it does to the oldest call.                   *)
LEMMA EngineServes ==
  ASSUME TypeOK, Engine
  PROVE  calls # <<>> /\ 1 \in DOMAIN calls /\ Head1 \in Call
<1>1. calls # <<>>
  <2>1. CASE LoseRequest BY <2>1 DEF LoseRequest
  <2>2. CASE Admit BY <2>2 DEF Admit, Serving
  <2>3. CASE Apply BY <2>3 DEF Apply, Serving
  <2>4. CASE FinishEmit BY <2>4 DEF FinishEmit, Serving
  <2>5. CASE ServeRead BY <2>5 DEF ServeRead, Serving
  <2>6. CASE ServeCommit BY <2>6 DEF ServeCommit, Serving
  <2>7. CASE ServeDiscard BY <2>7 DEF ServeDiscard, Serving
  <2>8. QED BY <2>1, <2>2, <2>3, <2>4, <2>5, <2>6, <2>7 DEF Engine
<1>2. calls \in Seq(Call)
  BY DEF TypeOK
<1>3. QED BY <1>1, <1>2 DEF Head1

(* Steps of the engine keep the types; a read is answered with a file and  *)
(* defineFactory gets an answer only where it waits for one.               *)
LEMMA EngineTypes ==
  ASSUME TypeOK, QueueInv, CallerInv, Engine
  PROVE  TypeOK'
<1> USE RunAssumption DEF engineVars
<1>1. calls # <<>> /\ 1 \in DOMAIN calls /\ Head1 \in Call
  BY EngineServes
<1>2. ~Head1.late /\ Head1.by = Main => pc \in {"flushing", "committing", "discarding"}
  BY <1>1 DEF CallerInv, Waits, Head1
<1>3. /\ staging \in Staging /\ committed \in [Path -> File] /\ faults \in Nat
      /\ applied \subseteq Nat /\ dropped \subseteq Nat /\ landed \in BOOLEAN
  BY DEF TypeOK
<1>4. Head1.next .. Head1.hi \subseteq Nat
  BY <1>1 DEF Call
<1>5. ASSUME NEW reply, NEW outcome, Delivered(reply, outcome)
      PROVE  faults' \in Nat
  BY <1>3, <1>5 DEF Delivered, Fault
<1>6. ASSUME RejectBatch PROVE TypeOK'
  <2>1. PICK outcome \in {"rejected", "faulted"} :
          Delivered("rejected", outcome) /\ Reply(outcome, None)
    BY <1>6 DEF RejectBatch
  <2>2. dropped' \subseteq Nat /\ UNCHANGED <<staging, committed, applied, landed>>
    BY <1>3, <1>4, <1>6 DEF RejectBatch
  <2>3. faults' \in Nat /\ None \in File
    BY <1>5, <2>1 DEF File
  <2>4. QED
    BY <1>1, <1>2, <1>3, <2>1, <2>2, <2>3, ReplyTypes
<1>7. CASE LoseRequest
  <2>1. /\ dropped' = dropped \cup Head1.next .. Head1.hi
        /\ UNCHANGED <<staging, committed, applied, landed>>
    BY <1>7 DEF LoseRequest
  <2>2. Reply("faulted", None) /\ None \in File
    BY <1>7 DEF LoseRequest, File
  <2>3. dropped' \subseteq Nat
    BY <1>3, <1>4, <2>1
  <2>4. faults' \in Nat
    BY <1>3, <1>7 DEF LoseRequest, Fault
  <2>5. QED BY <1>1, <1>2, <1>3, <2>1, <2>2, <2>3, <2>4, ReplyTypes
<1>8. CASE Admit
  <2>1. CASE ~RejectBatch
    <3>1. calls' = [calls EXCEPT ![1].admitted = TRUE]
      BY <1>8, <2>1 DEF Admit
    <3>2. [Head1 EXCEPT !.admitted = TRUE] \in Call
      BY <1>1 DEF Call
    <3>3. calls' \in Seq(Call)
      BY <1>1, <3>1, <3>2 DEF TypeOK, Head1
    <3>4. QED BY <1>8, <2>1, <3>3 DEF Admit, TypeOK, authorVars
  <2>2. QED BY <1>6, <2>1
<1>9. CASE Apply
  <2>1. CASE ~RejectBatch
    <3>1. /\ calls' = [calls EXCEPT ![1].next = @ + 1]
          /\ staging' = Effect(staging, journal[Head1.next])
          /\ applied' = applied \cup {Head1.next}
          /\ UNCHANGED <<pc, error, cause, spliced, task, seen, joined, faults, authorVars,
                         committed, dropped, landed>>
      BY <1>9, <2>1 DEF Apply
    <3>2. [Head1 EXCEPT !.next = @ + 1] \in Call /\ applied' \subseteq Nat
      BY <1>1, <1>3, <3>1 DEF Call
    <3>3. calls' \in Seq(Call)
      BY <1>1, <3>1, <3>2 DEF TypeOK, Head1
    <3>4. Head1.next \in 1 .. Len(journal)
      BY <1>1, <1>9 DEF Apply, QueueInv, Head1, TypeOK, Call
    <3>5. journal[Head1.next] \in Directive
      BY <3>4 DEF TypeOK
    <3>6. staging' \in Staging
      BY <1>3, <3>1, <3>5, EffectType
    <3>7. QED BY <3>1, <3>2, <3>3, <3>6 DEF TypeOK, authorVars
  <2>2. QED BY <1>6, <2>1
<1>10. CASE FinishEmit
  <2>1. PICK outcome \in {"ok", "faulted"} : Delivered("ok", outcome) /\ Reply(outcome, None)
    BY <1>10 DEF FinishEmit
  <2>2. faults' \in Nat /\ None \in File /\ UNCHANGED engineVars
    BY <1>5, <1>10, <2>1 DEF File, FinishEmit
  <2>3. QED BY <1>1, <1>2, <1>3, <2>1, <2>2, ReplyTypes
<1>11. CASE ServeRead
  <2>1. PICK outcome \in {"ok", "faulted"} :
          Delivered("ok", outcome) /\ Reply(outcome, Lookup(staging, file[Head1.by]))
    BY <1>11 DEF ServeRead
  <2>2. Head1.by \in Readers
    BY <1>1, <1>11 DEF ServeRead, Serving, CallerInv, Waits, Head1
  <2>3. Lookup(staging, file[Head1.by]) \in File
    BY <1>3, <2>2, LookupType DEF TypeOK
  <2>4. faults' \in Nat /\ UNCHANGED engineVars
    BY <1>5, <1>11, <2>1 DEF ServeRead
  <2>5. QED BY <1>1, <1>2, <1>3, <2>1, <2>3, <2>4, ReplyTypes
<1>12. CASE ServeCommit
  <2>1. PICK outcome \in {"ok", "faulted"} : Delivered("ok", outcome) /\ Reply(outcome, None)
    BY <1>12 DEF ServeCommit
  <2>2. /\ committed' \in [Path -> File] /\ staging' \in Staging /\ landed' \in BOOLEAN
        /\ UNCHANGED <<applied, dropped>>
    BY <1>3, <1>12, PromoteType, EmptyTypes DEF ServeCommit
  <2>3. faults' \in Nat /\ None \in File
    BY <1>5, <2>1 DEF File
  <2>4. QED BY <1>1, <1>2, <1>3, <2>1, <2>2, <2>3, ReplyTypes
<1>13. CASE ServeDiscard
  <2>1. PICK outcome \in {"ok", "faulted"} : Delivered("ok", outcome) /\ Reply(outcome, None)
    BY <1>13 DEF ServeDiscard
  <2>2. staging' \in Staging /\ UNCHANGED <<committed, applied, dropped, landed>>
    BY <1>13, EmptyTypes DEF ServeDiscard
  <2>3. faults' \in Nat /\ None \in File
    BY <1>5, <2>1 DEF File
  <2>4. QED BY <1>1, <1>2, <1>3, <2>1, <2>2, <2>3, ReplyTypes
<1>14. QED
  BY <1>7, <1>8, <1>9, <1>10, <1>11, <1>12, <1>13 DEF Engine

-----------------------------------------------------------------------------
(* The queue of calls.                                                     *)

(* What the queue invariant says of one call, and of two.                  *)
Sound(c, bound) ==
  /\ c.next >= 1 /\ c.hi <= bound
  /\ c.kind # "emit" => c.next = 1 /\ c.hi = 0

Before(c, d) == d.kind = "emit" => c.hi < d.next

LEMMA QueueInvByCalls ==
  ASSUME TypeOK, QueueInv
  PROVE  /\ \A i \in 1 .. Len(calls) : Sound(calls[i], spliced)
         /\ \A i, j \in 1 .. Len(calls) : i < j => Before(calls[i], calls[j])
<1>1. DOMAIN calls = 1 .. Len(calls)
  BY DEF TypeOK
<1>2. \A i \in 1 .. Len(calls) : Sound(calls[i], spliced)
  BY <1>1 DEF QueueInv, Sound
<1>3. \A i, j \in 1 .. Len(calls) : i < j => Before(calls[i], calls[j])
  BY <1>1 DEF QueueInv, Before
<1>4. QED BY <1>2, <1>3

LEMMA QueueInvByCallsNext ==
  ASSUME calls' \in Seq(Call),
         \A i \in 1 .. Len(calls') : Sound(calls'[i], spliced'),
         \A i, j \in 1 .. Len(calls') : i < j => Before(calls'[i], calls'[j])
  PROVE  QueueInv'
BY DEF QueueInv, Sound, Before

(* Appending the pending buffer as a batch.                                *)
LEMMA SpliceQueue ==
  ASSUME TypeOK, QueueInv, NEW by \in Tasks \cup {Main}, Splice(by)
  PROVE  QueueInv'
<1> DEFINE c == Batch(by)
<1>1. calls' = Append(calls, c) /\ spliced' = Len(journal)
  BY DEF Splice
<1>2. calls' \in Seq(Call) /\ calls \in Seq(Call)
  BY SpliceTypes DEF TypeOK
<1>3. spliced \in Nat /\ Len(journal) \in Nat /\ spliced <= Len(journal)
  BY DEF TypeOK
<1>4. c \in Call /\ c.next = spliced + 1
  BY <1>3 DEF Batch, Call
<1>5. \A i \in 1 .. Len(calls) : calls[i] \in Call
  BY <1>2
<1>6. \A i \in 1 .. Len(calls) : calls[i].hi \in Nat
  BY <1>5 DEF Call
<1>7. \A i \in 1 .. Len(calls) : Sound(calls[i], spliced)
  BY QueueInvByCalls
<1>8. \A i \in 1 .. Len(calls) : Before(calls[i], c)
  BY <1>3, <1>4, <1>7, <1>6 DEF Sound, Before
<1>9. \A i, j \in 1 .. Len(calls) : i < j => Before(calls[i], calls[j])
  BY QueueInvByCalls
<1>10. \A i \in 1 .. Len(calls) : Sound(calls[i], Len(journal))
  BY <1>3, <1>6, <1>7 DEF Sound
<1>11. Sound(c, Len(journal))
  BY <1>3 DEF Batch, Sound
<1> HIDE DEF c
<1>12. \A i \in 1 .. Len(calls') : calls'[i] = IF i <= Len(calls) THEN calls[i] ELSE c
  BY <1>1, <1>2, <1>4
<1>13. Len(calls') = Len(calls) + 1 /\ Len(calls) \in Nat
  BY <1>1, <1>2, <1>4
<1>14. \A i \in 1 .. Len(calls') : Sound(calls'[i], spliced')
  BY <1>1, <1>10, <1>11, <1>12, <1>13
<1>15. \A i, j \in 1 .. Len(calls') : i < j => Before(calls'[i], calls'[j])
  BY <1>8, <1>9, <1>12, <1>13
<1>16. QED BY <1>2, <1>14, <1>15, QueueInvByCallsNext

(* Appending a call that carries no batch.                                 *)
LEMMA PlainQueue ==
  ASSUME TypeOK, QueueInv, NEW kind \in {"read", "commit", "discard"},
         NEW by \in Tasks \cup {Main},
         calls' = Append(calls, PlainCall(kind, by)), UNCHANGED spliced
  PROVE  QueueInv'
<1>1. calls' \in Seq(Call) /\ calls \in Seq(Call) /\ spliced \in Nat
  BY PlainTypes DEF TypeOK
<1>2. /\ Sound(PlainCall(kind, by), spliced)
      /\ \A d \in Call : Before(d, PlainCall(kind, by))
  BY <1>1 DEF Sound, Before, PlainCall
<1>3. \A i \in 1 .. Len(calls) : Sound(calls[i], spliced)
  BY QueueInvByCalls
<1>4. \A i, j \in 1 .. Len(calls) : i < j => Before(calls[i], calls[j])
  BY QueueInvByCalls
<1>5. PlainCall(kind, by) \in Call
  BY DEF PlainCall, Call
<1>6. \A i \in 1 .. Len(calls') :
        calls'[i] = IF i <= Len(calls) THEN calls[i] ELSE PlainCall(kind, by)
  BY <1>1, <1>5
<1>7. Len(calls') = Len(calls) + 1 /\ Len(calls) \in Nat
  BY <1>1, <1>5
<1>8. \A i \in 1 .. Len(calls) : calls[i] \in Call
  BY <1>1
<1>9. \A i \in 1 .. Len(calls') : Sound(calls'[i], spliced')
  BY <1>2, <1>3, <1>6, <1>7
<1>10. \A i, j \in 1 .. Len(calls') : i < j => Before(calls'[i], calls'[j])
  BY <1>2, <1>4, <1>6, <1>7, <1>8
<1>11. QED BY <1>1, <1>9, <1>10, QueueInvByCallsNext

(* Answering the oldest call.                                              *)
LEMMA PopQueue ==
  ASSUME TypeOK, QueueInv, calls # <<>>, calls' = Tail(calls), UNCHANGED spliced
  PROVE  QueueInv'
<1>1. calls' \in Seq(Call) /\ calls \in Seq(Call)
  BY DEF TypeOK
<1>2. Len(calls') = Len(calls) - 1 /\ Len(calls) \in Nat
  BY <1>1
<1>3. \A i \in 1 .. Len(calls') : calls'[i] = calls[i + 1]
  BY <1>1
<1>4. \A i \in 1 .. Len(calls') : Sound(calls'[i], spliced')
  BY <1>2, <1>3, QueueInvByCalls
<1>5. \A i, j \in 1 .. Len(calls') : i < j => Before(calls'[i], calls'[j])
  BY <1>2, <1>3, QueueInvByCalls
<1>6. QED BY <1>1, <1>4, <1>5, QueueInvByCallsNext

(* Working on a call, whose batch can only get shorter.                    *)
LEMMA WorkQueue ==
  ASSUME TypeOK, QueueInv, UNCHANGED spliced,
         NEW n \in DOMAIN calls, NEW c \in Call, calls' = [calls EXCEPT ![n] = c],
         c.kind = calls[n].kind, c.hi = calls[n].hi, c.next >= calls[n].next,
         c.kind # "emit" => c.next = calls[n].next
  PROVE  QueueInv'
<1>1. calls \in Seq(Call) /\ Len(calls) \in Nat /\ n \in 1 .. Len(calls)
  BY DEF TypeOK
<1>2. calls' \in Seq(Call) /\ Len(calls') = Len(calls)
  BY <1>1
<1>3. \A i \in 1 .. Len(calls) : calls'[i] = IF i = n THEN c ELSE calls[i]
  BY <1>1
<1>4. \A i \in 1 .. Len(calls) : Sound(calls[i], spliced)
  BY QueueInvByCalls
<1>5. \A i, j \in 1 .. Len(calls) : i < j => Before(calls[i], calls[j])
  BY QueueInvByCalls
<1>6. \A i \in 1 .. Len(calls) : calls[i].hi \in Nat /\ calls[i].next \in Nat
  <2>1. \A i \in 1 .. Len(calls) : calls[i] \in Call
    BY <1>1
  <2>2. QED BY <2>1 DEF Call
<1>7. c.hi \in Nat /\ c.next \in Nat
  BY DEF Call
<1>8. Sound(c, spliced)
  BY <1>1, <1>4, <1>6, <1>7 DEF Sound
<1>9. /\ \A d : Before(calls[n], d) => Before(c, d)
      /\ \A i \in 1 .. Len(calls) : Before(calls[i], calls[n]) => Before(calls[i], c)
  BY <1>1, <1>6, <1>7 DEF Before
<1>10. \A i \in 1 .. Len(calls') : Sound(calls'[i], spliced')
  BY <1>2, <1>3, <1>4, <1>8
<1>11. \A i, j \in 1 .. Len(calls') : i < j => Before(calls'[i], calls'[j])
  BY <1>1, <1>2, <1>3, <1>5, <1>9
<1>12. QED BY <1>2, <1>10, <1>11, QueueInvByCallsNext

-----------------------------------------------------------------------------
(* The callers.                                                            *)

(* A step may move a caller that waits for nothing.                        *)
Undisturbing ==
  /\ pc' = pc \/ pc \notin Blocked
  /\ \A t \in Tasks : task'[t] = task[t] \/ task[t] \notin Busy

LEMMA CallerFrame ==
  ASSUME TypeOK, CallerInv, Undisturbing, UNCHANGED calls
  PROVE  CallerInv'
<1>1. ASSUME NEW i \in DOMAIN calls
      PROVE  Waits(calls[i])'
  BY <1>1 DEF CallerInv, Waits, Undisturbing, Blocked, Busy
<1>2. QED BY <1>1 DEF CallerInv

LEMMA CallerAppend ==
  ASSUME TypeOK, CallerInv, Undisturbing, NEW c \in Call, calls' = Append(calls, c),
         c.by = Main => pc \notin Blocked,
         c.by \in Tasks => task[c.by] \notin Busy,
         Waits(c)'
  PROVE  CallerInv'
<1>1. calls \in Seq(Call) /\ Len(calls) \in Nat
  BY DEF TypeOK
<1>2. /\ DOMAIN calls = 1 .. Len(calls) /\ DOMAIN calls' = 1 .. Len(calls) + 1
      /\ \A i \in 1 .. Len(calls) : calls'[i] = calls[i]
      /\ calls'[Len(calls) + 1] = c
  BY <1>1
<1>3. ASSUME NEW i \in 1 .. Len(calls)
      PROVE  (calls[i].late \/ calls[i].by # c.by) /\ Waits(calls[i])'
  <2>1. Waits(calls[i]) /\ calls[i] \in Call
    BY <1>1, <1>2 DEF CallerInv
  <2>2. calls[i].late \/ calls[i].by # c.by
    BY <2>1 DEF Waits, Call, Blocked, Busy
  <2>3. Waits(calls[i])'
    BY <1>2, <2>1 DEF Waits, Undisturbing, Blocked, Busy
  <2>4. QED BY <2>2, <2>3
<1>4. ASSUME NEW i \in 1 .. Len(calls) + 1
      PROVE  Waits(calls[i])'
  BY <1>1, <1>2, <1>3, <1>4 DEF Waits
<1>5. ASSUME NEW i \in 1 .. Len(calls) + 1, NEW j \in 1 .. Len(calls) + 1,
             ~calls'[i].late, ~calls'[j].late, calls'[j].by = calls'[i].by
      PROVE  j = i
  BY <1>1, <1>2, <1>3, <1>5 DEF CallerInv
<1>6. QED BY <1>2, <1>4, <1>5 DEF CallerInv

(* Telling a caller its outcome concerns nobody else.                      *)
LEMMA TellFrame ==
  ASSUME TypeOK, NEW c, NEW outcome, NEW value, Tell(c, outcome, value)
  PROVE  /\ c.by # Main => pc' = pc
         /\ \A t \in Tasks : t # c.by => task'[t] = task[t]
BY DEF Tell, MainReply, TaskReply, TypeOK

(* The answer to a call leaves no other call of the same caller behind.    *)
LEMMA ReplyCallers ==
  ASSUME TypeOK, CallerInv, calls # <<>>, NEW outcome, NEW value, Reply(outcome, value)
  PROVE  CallerInv'
<1>1. calls \in Seq(Call) /\ Len(calls) \in Nat /\ calls' = Tail(calls)
  BY DEF TypeOK, Reply
<1>2. /\ DOMAIN calls = 1 .. Len(calls) /\ DOMAIN calls' = 1 .. Len(calls) - 1
      /\ Len(calls) >= 1
      /\ \A i \in 1 .. Len(calls) - 1 : calls'[i] = calls[i + 1]
  BY <1>1
<1>3. /\ Head1.late => UNCHANGED <<pc, task>>
      /\ Head1.by # Main => pc' = pc
      /\ \A t \in Tasks : t # Head1.by => task'[t] = task[t]
  BY TellFrame DEF Reply
<1>4. ASSUME NEW i \in 1 .. Len(calls) - 1
      PROVE  Waits(calls[i])'
  <2>1. /\ Waits(calls[i + 1])
        /\ Head1.late \/ calls[i + 1].late \/ calls[i + 1].by # Head1.by
    BY <1>2 DEF CallerInv, Head1
  <2>2. QED BY <1>2, <1>3, <2>1 DEF Waits
<1>5. ASSUME NEW i \in 1 .. Len(calls) - 1, NEW j \in 1 .. Len(calls) - 1,
             ~calls'[i].late, ~calls'[j].late, calls'[j].by = calls'[i].by
      PROVE  j = i
  <2>1. /\ ~calls[i + 1].late /\ ~calls[j + 1].late /\ calls[j + 1].by = calls[i + 1].by
        /\ i + 1 \in DOMAIN calls /\ j + 1 \in DOMAIN calls
    BY <1>2, <1>5
  <2>2. j + 1 = i + 1
    BY <2>1 DEF CallerInv
  <2>3. QED BY <2>2
<1>6. QED BY <1>2, <1>4, <1>5 DEF CallerInv

LEMMA WorkCallers ==
  ASSUME TypeOK, CallerInv, UNCHANGED <<pc, task>>,
         NEW n \in DOMAIN calls, NEW c \in Call, calls' = [calls EXCEPT ![n] = c],
         c.kind = calls[n].kind, c.by = calls[n].by, c.late = calls[n].late
  PROVE  CallerInv'
<1>1. calls \in Seq(Call)
  BY DEF TypeOK
<1>2. /\ DOMAIN calls' = DOMAIN calls
      /\ \A i \in DOMAIN calls : calls'[i] = IF i = n THEN c ELSE calls[i]
  BY <1>1
<1>3. \A i \in DOMAIN calls : /\ calls'[i].kind = calls[i].kind
                              /\ calls'[i].by = calls[i].by /\ calls'[i].late = calls[i].late
  BY <1>2
<1>4. ASSUME NEW i \in DOMAIN calls
      PROVE  Waits(calls[i])'
  BY <1>3 DEF CallerInv, Waits
<1>5. QED BY <1>2, <1>3, <1>4 DEF CallerInv

(* A call its caller has given up is nobody's.                             *)
Forsake(n) ==
  /\ ~calls[n].late
  /\ calls' = [calls EXCEPT ![n].late = TRUE]
  /\ Tell(calls[n], "faulted", None)

LEMMA ForsakeCallers ==
  ASSUME TypeOK, CallerInv, NEW n \in DOMAIN calls, Forsake(n)
  PROVE  CallerInv'
<1>1. calls \in Seq(Call) /\ calls[n] \in Call
  BY DEF TypeOK
<1>2. /\ DOMAIN calls' = DOMAIN calls
      /\ \A i \in DOMAIN calls : i # n => calls'[i] = calls[i]
      /\ calls'[n].late /\ calls'[n].kind = calls[n].kind /\ calls'[n].by = calls[n].by
  BY <1>1 DEF Forsake, Call
<1>3. /\ calls[n].by # Main => pc' = pc
      /\ \A t \in Tasks : t # calls[n].by => task'[t] = task[t]
  BY TellFrame DEF Forsake
<1>4. ASSUME NEW i \in DOMAIN calls
      PROVE  Waits(calls[i])'
  <2>1. CASE i = n
    BY <1>2, <2>1 DEF CallerInv, Waits
  <2>2. CASE i # n
    <3>1. Waits(calls[i]) /\ (calls[i].late \/ calls[i].by # calls[n].by)
      BY <2>2 DEF CallerInv, Forsake
    <3>2. QED BY <1>2, <1>3, <2>2, <3>1 DEF Waits
  <2>3. QED BY <2>1, <2>2
<1>5. ASSUME NEW i \in DOMAIN calls, NEW j \in DOMAIN calls,
             ~calls'[i].late, ~calls'[j].late, calls'[j].by = calls'[i].by
      PROVE  j = i
  BY <1>2, <1>5 DEF CallerInv
<1>6. QED BY <1>2, <1>4, <1>5 DEF CallerInv

(* A caller that waits for nothing flushes, and then waits for its batch.  *)
LEMMA SpliceCallers ==
  ASSUME TypeOK, CallerInv, Undisturbing, NEW by \in Tasks \cup {Main}, Splice(by),
         by = Main => pc \notin Blocked /\ pc' = "flushing",
         by \in Tasks => task[by] \notin Busy /\ task'[by] = "flushing"
  PROVE  CallerInv'
<1>1. spliced \in Nat /\ Len(journal) \in Nat
  BY DEF TypeOK
<1>2. PICK c : c = Batch(by)
  OBVIOUS
<1>3. calls' = Append(calls, c)
  BY <1>2 DEF Splice
<1>4. c \in Call /\ c.by = by /\ c.kind = "emit"
  BY <1>1, <1>2 DEF Batch, Call
<1>5. Waits(c)'
  BY <1>4 DEF Waits
<1>6. c.by = Main => pc \notin Blocked
  BY <1>4
<1>7. c.by \in Tasks => task[c.by] \notin Busy
  BY <1>4
<1>8. QED BY <1>3, <1>4, <1>5, <1>6, <1>7, CallerAppend

-----------------------------------------------------------------------------
(* The queue invariant is inductive.                                       *)

QueueFacts == QueueInv /\ CallerInv

LEMMA AuthorQueue ==
  ASSUME TypeOK, QueueFacts, Author
  PROVE  QueueFacts'
<1> USE DEF QueueFacts
<1>1. ASSUME UNCHANGED <<calls, spliced>>, Undisturbing
      PROVE  QueueFacts'
  BY <1>1, CallerFrame DEF QueueInv
<1>2. ASSUME NEW d \in Verbs, Buffer(d) PROVE QueueFacts'
  BY <1>1, <1>2 DEF Buffer, Undisturbing
<1>3. ASSUME NEW r \in Readers, NEW p \in Path, StartRead(r, p) PROVE QueueFacts'
  <2>1. task[r] = "unused" /\ task' = [task EXCEPT ![r] = task'[r]] /\ pc' = pc
    BY <1>3 DEF StartRead, TypeOK
  <2>2. Undisturbing
    BY <2>1 DEF Undisturbing, Busy, TypeOK
  <2>3. CASE Splice(r)
    <3>1. QueueInv'
      BY <2>3, SpliceQueue DEF Tasks
    <3>2. task'[r] = "flushing"
      BY <1>3, <2>3 DEF StartRead, HasPending, Splice, TypeOK, Tasks
    <3>3. r \in Tasks /\ r # Main
      BY RunAssumption DEF Tasks
    <3>4. task[r] \notin Busy
      BY <2>1 DEF Busy
    <3>5. CallerInv'
      BY <2>2, <2>3, <3>2, <3>3, <3>4, SpliceCallers
    <3>6. QED BY <3>1, <3>5
  <2>4. CASE UNCHANGED <<calls, spliced>>
    BY <1>1, <2>2, <2>4
  <2>5. QED BY <1>3, <2>3, <2>4 DEF StartRead
<1>4. ASSUME NEW c \in Chunks, StartChunk(c) PROVE QueueFacts'
  <2>1. task[c] = "unused" /\ task' = [task EXCEPT ![c] = "flushing"] /\ pc' = pc /\ Splice(c)
    BY <1>4 DEF StartChunk
  <2>2. Undisturbing
    BY <2>1 DEF Undisturbing, Busy, TypeOK
  <2>3. QueueInv'
    BY <2>1, SpliceQueue DEF Tasks
  <2>4. task'[c] = "flushing"
    BY <2>1 DEF TypeOK, Tasks
  <2>5. c \in Tasks /\ c # Main
    BY RunAssumption DEF Tasks
  <2>6. task[c] \notin Busy
    BY <2>1 DEF Busy
  <2>7. CallerInv'
    BY <2>1, <2>2, <2>4, <2>5, <2>6, SpliceCallers
  <2>8. QED BY <2>3, <2>7
<1>5. ASSUME NEW r \in Readers, CatchRejection(r) PROVE QueueFacts'
  BY <1>1, <1>5 DEF CatchRejection, Undisturbing, Broken, Busy, TypeOK
<1>6. ASSUME NEW r \in Readers, Propagate(r) PROVE QueueFacts'
  BY <1>1, <1>6 DEF Propagate, Undisturbing, Blocked
<1>7. CASE Throw
  BY <1>1, <1>7 DEF Throw, Undisturbing, Blocked
<1>8. CASE Return
  BY <1>1, <1>8 DEF Return, Undisturbing, Blocked
<1>9. QED
  BY <1>2, <1>3, <1>4, <1>5, <1>6, <1>7, <1>8 DEF Author

LEMMA RunQueue ==
  ASSUME TypeOK, QueueFacts, Run
  PROVE  QueueFacts'
<1> USE DEF QueueFacts
<1>1. ASSUME UNCHANGED <<calls, spliced>>, Undisturbing
      PROVE  QueueFacts'
  BY <1>1, CallerFrame DEF QueueInv
<1>2. ASSUME NEW kind \in {"read", "commit", "discard"}, NEW by \in Tasks \cup {Main},
             calls' = Append(calls, PlainCall(kind, by)), UNCHANGED spliced, Undisturbing,
             by = Main => pc \notin Blocked,
             by \in Tasks => task[by] \notin Busy,
             Waits(PlainCall(kind, by))'
      PROVE  QueueFacts'
  <2>1. QueueInv'
    BY <1>2, PlainQueue
  <2>2. PlainCall(kind, by) \in Call /\ PlainCall(kind, by).by = by
    BY DEF PlainCall, Call
  <2>3. QED BY <1>2, <2>1, <2>2, CallerAppend
<1>3. CASE Gate
  BY <1>1, <1>3 DEF Gate, Undisturbing, Blocked
<1>4. CASE Drain
  BY <1>1, <1>4 DEF Drain, Undisturbing, Blocked
<1>5. CASE RunFlush
  <2>1. pc = "flush" /\ UNCHANGED task
    BY <1>5 DEF RunFlush
  <2>2. Undisturbing
    BY <2>1 DEF Undisturbing, Blocked
  <2>3. CASE Splice(Main) /\ pc' = "flushing"
    <3>1. QueueInv'
      BY <2>3, SpliceQueue
    <3>2. Main \notin Tasks /\ pc \notin Blocked
      BY <2>1, RunAssumption DEF Tasks, Blocked
    <3>3. CallerInv'
      BY <2>2, <2>3, <3>2, SpliceCallers
    <3>4. QED BY <3>1, <3>3
  <2>4. CASE UNCHANGED <<calls, spliced>>
    BY <1>1, <2>2, <2>4
  <2>5. QED BY <1>5, <2>3, <2>4 DEF RunFlush
<1>6. CASE IssueCommit
  <2>1. Waits(PlainCall("commit", Main))' /\ Undisturbing
    BY <1>6, RunAssumption DEF IssueCommit, Waits, PlainCall, Tasks, Undisturbing, Blocked
  <2>2. QED BY <1>2, <1>6, <2>1, RunAssumption DEF IssueCommit, Blocked, Tasks
<1>7. CASE IssueDiscard
  <2>1. Waits(PlainCall("discard", Main))' /\ Undisturbing
    BY <1>7, RunAssumption DEF IssueDiscard, Waits, PlainCall, Tasks, Undisturbing, Blocked
  <2>2. QED BY <1>2, <1>7, <2>1, RunAssumption DEF IssueDiscard, Blocked, Tasks
<1>8. ASSUME NEW r \in Readers, IssueRead(r) PROVE QueueFacts'
  <2>1. r \in Tasks /\ r # Main
    BY RunAssumption DEF Tasks
  <2>2. Undisturbing /\ task'[r] = "reading"
    BY <1>8, <2>1 DEF IssueRead, Undisturbing, Busy, TypeOK
  <2>3. Waits(PlainCall("read", r))'
    BY <2>1, <2>2 DEF Waits, PlainCall
  <2>4. QED BY <1>2, <1>8, <2>1, <2>2, <2>3 DEF IssueRead, Busy
<1>9. QED
  BY <1>3, <1>4, <1>5, <1>6, <1>7, <1>8 DEF Run

(* An engine step answers the oldest call or works on its batch.           *)
Working(c) ==
  /\ calls' = [calls EXCEPT ![1] = c]
  /\ c \in Call /\ c.kind = "emit" /\ Head1.kind = "emit"
  /\ c.by = Head1.by /\ c.late = Head1.late /\ c.hi = Head1.hi /\ c.next >= Head1.next
  /\ UNCHANGED <<pc, task, spliced>>

LEMMA EngineShape ==
  ASSUME TypeOK, Engine
  PROVE  \/ \E outcome, value : Reply(outcome, value)
         \/ \E c : Working(c)
<1>1. calls # <<>> /\ 1 \in DOMAIN calls /\ Head1 \in Call
  BY EngineServes
<1>2. ASSUME RejectBatch PROVE \E outcome, value : Reply(outcome, value)
  BY <1>2 DEF RejectBatch
<1>3. CASE LoseRequest
  BY <1>3 DEF LoseRequest
<1>4. CASE Admit
  <2>1. CASE ~RejectBatch
    <3>1. /\ calls' = [calls EXCEPT ![1].admitted = TRUE] /\ Head1.kind = "emit"
          /\ UNCHANGED <<pc, task, spliced>>
      BY <1>4, <2>1 DEF Admit, Serving
    <3>2. PICK c : c = [Head1 EXCEPT !.admitted = TRUE]
      OBVIOUS
    <3>3. /\ c \in Call /\ c.kind = Head1.kind /\ c.by = Head1.by /\ c.late = Head1.late
          /\ c.hi = Head1.hi /\ c.next = Head1.next /\ Head1.next \in Nat
      BY <1>1, <3>2 DEF Call
    <3>4. calls' = [calls EXCEPT ![1] = c]
      BY <3>1, <3>2 DEF Head1
    <3>5. c.kind = "emit" /\ c.next >= Head1.next
      BY <3>1, <3>3
    <3>6. Working(c)
      BY <3>1, <3>3, <3>4, <3>5, ZenonT(20) DEF Working
    <3>7. QED BY <3>6
  <2>2. QED BY <1>2, <2>1
<1>5. CASE Apply
  <2>1. CASE ~RejectBatch
    <3>1. /\ calls' = [calls EXCEPT ![1].next = @ + 1] /\ Head1.kind = "emit"
          /\ UNCHANGED <<pc, task, spliced>>
      BY <1>5, <2>1 DEF Apply, Serving
    <3>2. PICK c : c = [Head1 EXCEPT !.next = @ + 1]
      OBVIOUS
    <3>3. /\ c \in Call /\ c.kind = Head1.kind /\ c.by = Head1.by /\ c.late = Head1.late
          /\ c.hi = Head1.hi /\ c.next = Head1.next + 1 /\ Head1.next \in Nat
      BY <1>1, <3>2 DEF Call
    <3>4. calls' = [calls EXCEPT ![1] = c]
      BY <3>1, <3>2 DEF Head1
    <3>5. c.kind = "emit" /\ c.next >= Head1.next
      BY <3>1, <3>3
    <3>6. Working(c)
      BY <3>1, <3>3, <3>4, <3>5, ZenonT(20) DEF Working
    <3>7. QED BY <3>6
  <2>2. QED BY <1>2, <2>1
<1>6. CASE FinishEmit BY <1>6 DEF FinishEmit
<1>7. CASE ServeRead BY <1>7 DEF ServeRead
<1>8. CASE ServeCommit BY <1>8 DEF ServeCommit
<1>9. CASE ServeDiscard BY <1>9 DEF ServeDiscard
<1>10. QED
  BY <1>3, <1>4, <1>5, <1>6, <1>7, <1>8, <1>9 DEF Engine

LEMMA EngineQueue ==
  ASSUME TypeOK, QueueFacts, Engine
  PROVE  QueueFacts'
<1> USE DEF QueueFacts
<1>1. calls # <<>>
  BY EngineServes
<1>2. ASSUME NEW outcome, NEW value, Reply(outcome, value)
      PROVE  QueueFacts'
  <2>1. calls' = Tail(calls) /\ UNCHANGED spliced
    BY <1>2 DEF Reply
  <2>2. QED BY <1>1, <1>2, <2>1, PopQueue, ReplyCallers
<1>3. ASSUME NEW c, Working(c)
      PROVE  QueueFacts'
  <2>1. 1 \in DOMAIN calls
    BY EngineServes
  <2>2. QED BY <1>3, <2>1, WorkQueue, WorkCallers DEF Working, Head1
<1>4. QED BY <1>2, <1>3, EngineShape

(* A caller gives up its call.                                             *)
LEMMA GiveUpShape ==
  ASSUME TypeOK, GiveUp
  PROVE  /\ \E n \in DOMAIN calls : Forsake(n)
         /\ faults' \in Nat /\ UNCHANGED <<spliced, joined, authorVars, engineVars>>
<1>1. faults \in Nat
  BY DEF TypeOK
<1>2. PICK n \in DOMAIN calls :
        /\ ~calls[n].late /\ Fault
        /\ calls' = [calls EXCEPT ![n].late = TRUE]
        /\ Tell(calls[n], "faulted", None)
        /\ UNCHANGED <<spliced, joined, authorVars, engineVars>>
  BY DEF GiveUp
<1>3. Forsake(n)
  BY <1>2 DEF Forsake
<1>4. faults' \in Nat
  BY <1>1, <1>2 DEF Fault
<1>5. QED BY <1>2, <1>3, <1>4

LEMMA GiveUpTypes ==
  ASSUME TypeOK, QueueFacts, GiveUp
  PROVE  TypeOK' /\ QueueFacts'
<1>1. PICK n \in DOMAIN calls : Forsake(n)
  BY GiveUpShape
<1>2. /\ calls \in Seq(Call) /\ calls[n] \in Call
      /\ faults' \in Nat /\ UNCHANGED <<spliced, joined, authorVars, engineVars>>
  BY GiveUpShape DEF TypeOK
<1>3. PICK c : c = [calls[n] EXCEPT !.late = TRUE]
  OBVIOUS
<1>4. /\ c \in Call /\ calls' = [calls EXCEPT ![n] = c]
      /\ c.kind = calls[n].kind /\ c.hi = calls[n].hi /\ c.next = calls[n].next
      /\ calls[n].next \in Nat
  BY <1>1, <1>2, <1>3 DEF Forsake, Call
<1>5. calls' \in Seq(Call)
  BY <1>2, <1>4
<1>6. calls[n].by = Main => pc \in {"flushing", "committing", "discarding"}
  BY <1>1 DEF Forsake, QueueFacts, CallerInv, Waits
<1>7. /\ pc' \in PC /\ cause' \in BOOLEAN
      /\ error' \in [by: Tasks \cup {Main}, class: {"none", "author", "rejected", "faulted"},
                      at: {"none"} \cup PC]
      /\ task' \in [Tasks -> TaskState] /\ seen' \in [Tasks -> File]
  <2>1. None \in File
    BY DEF File
  <2>2. QED BY <1>1, <1>2, <1>6, <2>1, TellTypes DEF Forsake
<1>8. TypeOK'
  BY <1>2, <1>5, <1>7 DEF TypeOK, authorVars, engineVars
<1>9. QueueInv'
  <2>1. c.next >= calls[n].next
    BY <1>4
  <2>2. QED BY <1>2, <1>4, <2>1, WorkQueue DEF QueueFacts
<1>10. CallerInv'
  BY <1>1, ForsakeCallers DEF QueueFacts
<1>11. QED BY <1>8, <1>9, <1>10 DEF QueueFacts

LEMMA QueueStep ==
  ASSUME TypeOK, QueueFacts, [Next]_vars
  PROVE  TypeOK' /\ QueueFacts'
<1>1. CASE Author
  BY <1>1, AuthorTypes, AuthorQueue
<1>2. CASE Run
  BY <1>2, RunTypes, RunQueue
<1>3. CASE Engine
  BY <1>3, EngineTypes, EngineQueue DEF QueueFacts
<1>4. CASE GiveUp
  BY <1>4, GiveUpTypes
<1>5. CASE UNCHANGED vars
  <2>1. TypeOK'
    BY <1>5 DEF vars, TypeOK
  <2>2. QueueFacts'
    BY <1>5 DEF vars, QueueFacts, QueueInv, CallerInv, Waits
  <2>3. QED BY <2>1, <2>2
<1>6. QED BY <1>1, <1>2, <1>3, <1>4, <1>5 DEF Next, Finished

(* The types and the queue invariant hold together in every run.           *)
LEMMA TypesAndQueue == Spec => [](TypeOK /\ QueueFacts)
<1>1. Init => TypeOK /\ QueueFacts
  <2>1. Init => QueueFacts
    BY DEF Init, QueueFacts, QueueInv, CallerInv
  <2>2. QED BY <2>1, InitTypes
<1>2. (TypeOK /\ QueueFacts) /\ [Next]_vars => (TypeOK /\ QueueFacts)'
  BY QueueStep
<1>3. QED BY <1>1, <1>2, PTL DEF Spec

(* Only giving up a call makes one late.                                   *)
NoNewLate ==
  \A i \in DOMAIN calls' : calls'[i].late =>
    \E j \in DOMAIN calls : calls[j].late /\ calls[j].kind = calls'[i].kind

LEMMA LateCalls ==
  ASSUME TypeOK, Author \/ Run \/ Engine
  PROVE  NoNewLate
<1>1. CASE UNCHANGED calls
  BY <1>1 DEF NoNewLate
<1>2. ASSUME NEW c, c = Batch(c.by) \/ c = PlainCall(c.kind, c.by), calls' = Append(calls, c)
      PROVE  NoNewLate
  <2>1. calls \in Seq(Call) /\ Len(calls) \in Nat /\ ~c.late
    BY <1>2 DEF TypeOK, Batch, PlainCall
  <2>2. /\ DOMAIN calls' = 1 .. Len(calls) + 1 /\ DOMAIN calls = 1 .. Len(calls)
        /\ calls'[Len(calls) + 1] = c
        /\ \A i \in 1 .. Len(calls) : calls'[i] = calls[i]
    BY <1>2, <2>1
  <2>3. QED BY <2>1, <2>2 DEF NoNewLate
<1>3. ASSUME NEW by, Splice(by) PROVE NoNewLate
  <2>1. PICK c : c = Batch(by)
    OBVIOUS
  <2>2. c = Batch(c.by) /\ calls' = Append(calls, c)
    BY <1>3, <2>1 DEF Splice, Batch
  <2>3. QED BY <1>2, <2>2
<1>4. ASSUME NEW kind, NEW by, calls' = Append(calls, PlainCall(kind, by)) PROVE NoNewLate
  <2>1. PICK c : c = PlainCall(kind, by)
    OBVIOUS
  <2>2. c = PlainCall(c.kind, c.by) /\ calls' = Append(calls, c)
    BY <1>4, <2>1 DEF PlainCall
  <2>3. QED BY <1>2, <2>2
<1>5. CASE Author
  <2>1. UNCHANGED calls \/ \E by : Splice(by)
    BY <1>5 DEF Author, Buffer, StartRead, StartChunk, CatchRejection, Propagate, Throw, Return
  <2>2. QED BY <1>1, <1>3, <2>1
<1>6. CASE Run
  <2>1. \/ UNCHANGED calls
        \/ \E by : Splice(by)
        \/ \E kind, by : calls' = Append(calls, PlainCall(kind, by))
    BY <1>6 DEF Run, Gate, Drain, RunFlush, IssueCommit, IssueDiscard, IssueRead
  <2>2. QED BY <1>1, <1>3, <1>4, <2>1
<1>7. CASE Engine
  <2>1. calls \in Seq(Call) /\ Len(calls) \in Nat /\ 1 \in DOMAIN calls
    BY <1>7, EngineServes DEF TypeOK
  <2>2. CASE calls' = Tail(calls)
    <3>1. /\ DOMAIN calls' = 1 .. Len(calls) - 1 /\ DOMAIN calls = 1 .. Len(calls)
          /\ \A i \in 1 .. Len(calls) - 1 : calls'[i] = calls[i + 1]
      BY <2>1, <2>2
    <3>2. QED BY <2>1, <3>1 DEF NoNewLate
  <2>3. ASSUME NEW c, Working(c) PROVE NoNewLate
    <3>1. /\ DOMAIN calls' = DOMAIN calls
          /\ \A i \in DOMAIN calls : calls'[i] = IF i = 1 THEN c ELSE calls[i]
      BY <2>1, <2>3 DEF Working
    <3>2. c.late = calls[1].late /\ c.kind = calls[1].kind
      BY <2>3 DEF Working, Head1
    <3>3. QED BY <2>1, <3>1, <3>2 DEF NoNewLate
  <2>4. QED BY <1>7, <2>2, <2>3, EngineShape DEF Reply
<1>8. QED BY <1>5, <1>6, <1>7

(* A forsaken call is late, and the others are what they were.             *)
LEMMA ForsakeCalls ==
  ASSUME TypeOK, NEW n \in DOMAIN calls, Forsake(n)
  PROVE  /\ DOMAIN calls' = DOMAIN calls
         /\ \A i \in DOMAIN calls : i # n => calls'[i] = calls[i]
         /\ calls'[n] = [calls[n] EXCEPT !.late = TRUE]
         /\ calls[n] \in Call
<1>1. calls \in Seq(Call)
  BY DEF TypeOK
<1>2. QED BY <1>1 DEF Forsake

(* Every variable keeps its type in every run, whatever the constants.     *)
THEOREM TypeCorrect == Spec => []TypeOK
<1>1. TypeOK /\ QueueFacts => TypeOK
  OBVIOUS
<1>2. QED BY <1>1, TypesAndQueue, PTL

-----------------------------------------------------------------------------
(* The first error is kept.                                                *)

(* A run that has an error is on its way out.                              *)
Failing == {"failing", "discarding", "failed"}

ErrorInv == error # NoError => pc \in Failing \cup {"refused"}

(* What is settled stays settled.                                          *)
Steady ==
  /\ ErrorInv'
  /\ error # NoError => error' = error
  /\ pc \in Failing => pc' \in Failing
  /\ pc = "ok" => pc' = "ok"

LEMMA TellSteady ==
  ASSUME TypeOK, QueueFacts, ErrorInv, NEW n \in DOMAIN calls, ~calls[n].late,
         NEW outcome, NEW value, Tell(calls[n], outcome, value)
  PROVE  Steady
<1>1. CASE calls[n].by = Main
  <2>1. pc \in Blocked
    BY <1>1 DEF QueueFacts, CallerInv, Waits, Blocked
  <2>2. MainReply(outcome)
    BY <1>1 DEF Tell
  <2>3. QED BY <2>1, <2>2 DEF MainReply, Fail, Blocked, Steady, ErrorInv, Failing
<1>2. CASE calls[n].by # Main
  BY <1>2 DEF Tell, TaskReply, Steady, ErrorInv
<1>3. QED BY <1>1, <1>2

LEMMA ErrorStep ==
  ASSUME TypeOK, QueueFacts, ErrorInv, [Next]_vars
  PROVE  Steady
<1> USE DEF ErrorInv, Failing, Steady
<1>1. ASSUME UNCHANGED <<pc, error>> PROVE Steady
  BY <1>1
<1>2. ASSUME NEW outcome, NEW value, Reply(outcome, value), calls # <<>> PROVE Steady
  <2>1. CASE Head1.late
    BY <1>1, <1>2, <2>1 DEF Reply
  <2>2. CASE ~Head1.late
    <3>1. 1 \in DOMAIN calls
      BY <1>2 DEF TypeOK
    <3>2. QED BY <1>2, <2>2, <3>1, TellSteady DEF Reply, Head1
  <2>3. QED BY <2>1, <2>2
<1>3. CASE Author
  <2>1. CASE \E d \in Verbs : Buffer(d)
    BY <1>1, <2>1 DEF Buffer
  <2>2. CASE \E r \in Readers, p \in Path : StartRead(r, p)
    BY <1>1, <2>2 DEF StartRead
  <2>3. CASE \E c \in Chunks : StartChunk(c)
    BY <1>1, <2>3 DEF StartChunk
  <2>4. ASSUME NEW r \in Readers, CatchRejection(r) PROVE Steady
    BY <1>1, <2>4 DEF CatchRejection
  <2>5. ASSUME NEW r \in Readers, Propagate(r) PROVE Steady
    BY <2>5 DEF Propagate, Fail
  <2>6. CASE Throw
    BY <2>6 DEF Throw, Fail
  <2>7. CASE Return
    BY <2>7 DEF Return
  <2>8. QED BY <1>3, <2>1, <2>2, <2>3, <2>4, <2>5, <2>6, <2>7 DEF Author
<1>4. CASE Run
  <2>1. CASE Gate
    BY <2>1 DEF Gate
  <2>2. CASE Drain
    BY <2>2 DEF Drain, Fail
  <2>3. CASE RunFlush
    BY <2>3 DEF RunFlush
  <2>4. CASE IssueCommit
    BY <2>4 DEF IssueCommit
  <2>5. CASE IssueDiscard
    BY <2>5 DEF IssueDiscard
  <2>6. CASE \E r \in Readers : IssueRead(r)
    BY <1>1, <2>6 DEF IssueRead
  <2>7. QED BY <1>4, <2>1, <2>2, <2>3, <2>4, <2>5, <2>6 DEF Run
<1>5. CASE Engine
  <2>1. calls # <<>>
    BY <1>5, EngineServes
  <2>2. UNCHANGED <<pc, error>> \/ \E outcome, value : Reply(outcome, value)
    BY <1>5 DEF Engine, LoseRequest, Admit, Apply, RejectBatch, FinishEmit, ServeRead,
                ServeCommit, ServeDiscard
  <2>3. QED BY <1>1, <1>2, <2>1, <2>2
<1>6. CASE GiveUp
  <2>1. PICK n \in DOMAIN calls : Forsake(n)
    BY <1>6, GiveUpShape
  <2>2. QED BY <2>1, TellSteady DEF Forsake
<1>7. CASE UNCHANGED vars
  BY <1>1, <1>7 DEF vars
<1>8. QED BY <1>3, <1>4, <1>5, <1>6, <1>7 DEF Next, Finished

(* Neither a failing discard nor anything the author's code does after the *)
(* run has failed replaces the error defineFactory rejects with.           *)
THEOREM KeepsFirstError == Spec => FirstErrorKept
<1>1. Init => ErrorInv
  BY DEF Init, ErrorInv
<1>2. TypeOK /\ QueueFacts /\ ErrorInv /\ [Next]_vars => ErrorInv'
  BY ErrorStep DEF Steady
<1>3. TypeOK /\ QueueFacts /\ ErrorInv /\ [Next]_vars =>
        [error # NoError => error' = error]_vars
  BY ErrorStep DEF Steady
<1>4. QED BY <1>1, <1>2, <1>3, TypesAndQueue, PTL DEF Spec, FirstErrorKept

-----------------------------------------------------------------------------
(* A failed run writes nothing.                                            *)

CommitLost == error.at = "committing" /\ error.class = "faulted"

Doomed == pc \in Failing /\ CommitLost

(* The tree is written only by a commit that took effect.  Then the run    *)
(* has succeeded, or it fails because of that very commit; so does a run   *)
(* that has given up its commit.                                           *)
CommitInv ==
  /\ ~landed => committed = NothingCommitted
  /\ landed => pc = "ok" \/ Doomed
  /\ \A i \in DOMAIN calls : calls[i].late /\ calls[i].kind = "commit" => Doomed

LEMMA DoomedStep ==
  ASSUME TypeOK, QueueFacts, ErrorInv, Doomed, [Next]_vars
  PROVE  Doomed'
BY ErrorStep DEF Doomed, CommitLost, Steady, NoError

(* A fault at the commit dooms the run.                                    *)
LEMMA CommitFaulted ==
  ASSUME TypeOK, QueueFacts, NEW n \in DOMAIN calls, calls[n].kind = "commit", ~calls[n].late,
         NEW outcome, NEW value, Tell(calls[n], outcome, value)
  PROVE  /\ outcome = "ok" => pc' = "ok"
         /\ outcome = "faulted" => Doomed'
<1>1. calls[n] \in Call
  BY DEF TypeOK
<1>2. calls[n].by = Main /\ pc = "committing"
  BY <1>1 DEF QueueFacts, CallerInv, Waits, Call
<1>3. MainReply(outcome)
  BY <1>2 DEF Tell
<1>4. QED BY <1>2, <1>3 DEF MainReply, Fail, Doomed, CommitLost, Failing

(* A late commit belongs to a doomed run.                                  *)
LEMMA LateCommits ==
  ASSUME TypeOK, QueueFacts, ErrorInv, CommitInv, [Next]_vars,
         NEW i \in DOMAIN calls', calls'[i].late, calls'[i].kind = "commit"
  PROVE  Doomed'
<1>1. ASSUME NEW j \in DOMAIN calls, calls[j].late, calls[j].kind = "commit"
      PROVE  Doomed'
  BY <1>1, DoomedStep DEF CommitInv
<1>2. CASE NoNewLate
  BY <1>1, <1>2 DEF NoNewLate
<1>3. CASE UNCHANGED calls
  BY <1>1, <1>3
<1>4. CASE GiveUp
  <2>1. PICK n \in DOMAIN calls : Forsake(n)
    BY <1>4, GiveUpShape
  <2>2. CASE i = n
    <3>1. calls[n].kind = "commit"
      <4>1. calls'[n] = [calls[n] EXCEPT !.late = TRUE] /\ calls[n] \in Call
        BY <2>1, ForsakeCalls, Zenon
      <4>2. [calls[n] EXCEPT !.late = TRUE].kind = calls[n].kind
        BY <4>1 DEF Call
      <4> QED BY <2>2, <4>1, <4>2, Zenon
    <3>2. QED BY <2>1, <3>1, CommitFaulted DEF Forsake
  <2>3. CASE i # n
    BY <1>1, <2>1, <2>3, ForsakeCalls
  <2>4. QED BY <2>2, <2>3
<1>5. QED BY <1>2, <1>3, <1>4, LateCalls DEF Next, Finished, vars

LEMMA CommitStep ==
  ASSUME TypeOK, QueueFacts, ErrorInv, CommitInv, [Next]_vars
  PROVE  CommitInv'
<1>1. \A i \in DOMAIN calls' : calls'[i].late /\ calls'[i].kind = "commit" => Doomed'
  BY LateCommits
<1>2. CASE UNCHANGED <<committed, landed>>
  <2>1. Doomed => Doomed'
    BY DoomedStep
  <2>2. pc = "ok" => pc' = "ok"
    BY ErrorStep DEF Steady
  <2>3. QED BY <1>1, <1>2, <2>1, <2>2 DEF CommitInv
<1>3. CASE ServeCommit
  <2>1. PICK outcome \in {"ok", "faulted"} : Delivered("ok", outcome) /\ Reply(outcome, None)
    BY <1>3 DEF ServeCommit
  <2>2. 1 \in DOMAIN calls /\ Head1.kind = "commit"
    BY <1>3 DEF ServeCommit, Serving, TypeOK
  <2>3. landed'
    BY <1>3 DEF ServeCommit
  <2>4. CASE Head1.late
    <3>1. Doomed
      BY <2>2, <2>4 DEF CommitInv, Head1
    <3>2. QED BY <1>1, <2>3, <3>1, DoomedStep DEF CommitInv
  <2>5. CASE ~Head1.late
    <3>1. Tell(calls[1], outcome, None)
      BY <2>1, <2>5 DEF Reply, Head1
    <3>2. pc' = "ok" \/ Doomed'
      BY <2>1, <2>2, <2>5, <3>1, CommitFaulted DEF Head1
    <3>3. QED BY <1>1, <2>3, <3>2 DEF CommitInv
  <2>6. QED BY <2>4, <2>5
<1>4. Author => UNCHANGED <<committed, landed>>
  BY DEF Author, Buffer, StartRead, StartChunk, CatchRejection, Propagate, Throw, Return,
         engineVars
<1>5. Run => UNCHANGED <<committed, landed>>
  BY DEF Run, Gate, Drain, RunFlush, IssueCommit, IssueDiscard, IssueRead, engineVars
<1>6. Engine => ServeCommit \/ UNCHANGED <<committed, landed>>
  BY DEF Engine, LoseRequest, Admit, Apply, RejectBatch, FinishEmit, ServeRead, ServeDiscard,
         engineVars
<1>7. GiveUp => UNCHANGED <<committed, landed>>
  BY DEF GiveUp, engineVars
<1>8. QED BY <1>2, <1>3, <1>4, <1>5, <1>6, <1>7 DEF Next, Finished, vars

(* A run that fails leaves the committed tree empty, unless its commit was *)
(* carried out and only the answer was lost or late.                       *)
THEOREM FailureWritesNothing == Spec => []FailedRunWritesNothing
<1>1. Init => ErrorInv /\ CommitInv
  BY DEF Init, ErrorInv, CommitInv
<1>2. TypeOK /\ QueueFacts /\ ErrorInv /\ CommitInv /\ [Next]_vars => (ErrorInv /\ CommitInv)'
  BY CommitStep, ErrorStep DEF Steady
<1>3. CommitInv => FailedRunWritesNothing
  BY DEF CommitInv, Doomed, CommitLost, FailedRunWritesNothing
<1>4. QED BY <1>1, <1>2, <1>3, TypesAndQueue, PTL DEF Spec

-----------------------------------------------------------------------------
(* The accounts of the directives.                                         *)

Span(c) == c.next .. c.hi

(* What is queued behind the oldest call.                                  *)
Rest == UNION {Span(calls[i]) : i \in 2 .. Len(calls)}

(* Everything applied precedes everything still in flight.                 *)
OrderInv == \A j \in applied, k \in Queued : j < k

Accounts == EveryDirectiveAccountedFor /\ OrderInv

InOrder == \A i \in applied' \ applied : \A j \in applied : j < i

-----------------------------------------------------------------------------
(* How the queue changes.                                                  *)

LEMMA HeadBounds ==
  ASSUME TypeOK, calls # <<>>
  PROVE  Head1.next \in Nat /\ Head1.hi \in Nat
<1>1. calls \in Seq(Call)
  BY DEF TypeOK
<1>2. Head1 \in Call
  BY <1>1 DEF Head1
<1>3. QED BY <1>2 DEF Call

(* The oldest batch precedes the rest of the queue.                        *)
LEMMA QueuedSplit ==
  ASSUME TypeOK, QueueInv, calls # <<>>
  PROVE  /\ Queued = Span(Head1) \cup Rest
         /\ \A j \in Rest : j > Head1.hi /\ j <= spliced /\ j \in Nat
         /\ Span(Head1) \subseteq 1 .. spliced
         /\ Head1.kind # "emit" => Span(Head1) = {}
<1>1. /\ DOMAIN calls = 1 .. Len(calls) /\ Len(calls) \in Nat /\ Len(calls) >= 1
      /\ spliced \in Nat
      /\ \A i \in 1 .. Len(calls) : calls[i] \in Call
  BY DEF TypeOK
<1>2. \A i \in 1 .. Len(calls) : calls[i].next \in Nat /\ calls[i].hi \in Nat
  BY <1>1 DEF Call
<1>3. Queued = Span(Head1) \cup Rest
  <2>1. Queued = UNION {Span(calls[i]) : i \in 1 .. Len(calls)}
    BY <1>1 DEF Queued, Span
  <2>2. 1 .. Len(calls) = {1} \cup 2 .. Len(calls)
    BY <1>1
  <2>3. Span(Head1) = Span(calls[1])
    BY DEF Head1
  <2>4. QED BY <2>1, <2>2, <2>3 DEF Rest
<1>4. ASSUME NEW j \in Rest
      PROVE  j > Head1.hi /\ j <= spliced /\ j \in Nat
  <2>1. PICK i \in 2 .. Len(calls) : j \in calls[i].next .. calls[i].hi
    BY <1>4 DEF Rest, Span
  <2>2. i \in DOMAIN calls /\ 1 \in DOMAIN calls /\ 1 < i
    BY <1>1, <2>1
  <2>3. calls[i].kind # "emit" => calls[i].next = 1 /\ calls[i].hi = 0
    BY <2>2 DEF QueueInv
  <2>4. calls[i].kind = "emit"
    BY <1>2, <2>1, <2>3
  <2>5. calls[1].hi < calls[i].next /\ calls[i].hi <= spliced
    BY <2>2, <2>4 DEF QueueInv
  <2>6. calls[i].next \in Nat /\ calls[i].hi \in Nat /\ calls[1].hi \in Nat
    BY <1>1, <1>2, <2>2
  <2>7. j \in Nat /\ j >= calls[i].next /\ j <= calls[i].hi
    BY <2>1, <2>6
  <2>8. QED BY <1>1, <2>5, <2>6, <2>7 DEF Head1
<1>5. Span(Head1) \subseteq 1 .. spliced
  BY <1>1, <1>2 DEF Span, Head1, QueueInv
<1>6. Head1.kind # "emit" => Span(Head1) = {}
  BY <1>1 DEF Span, Head1, QueueInv
<1>7. QED BY <1>3, <1>4, <1>5, <1>6

LEMMA QueuedPop ==
  ASSUME TypeOK, calls # <<>>, calls' = Tail(calls)
  PROVE  Queued' = Rest
<1>1. calls \in Seq(Call) /\ Len(calls) \in Nat /\ Len(calls) >= 1
  BY DEF TypeOK
<1>2. /\ DOMAIN calls' = 1 .. Len(calls) - 1
      /\ \A i \in 1 .. Len(calls) - 1 : calls'[i] = calls[i + 1]
  BY <1>1
<1>3. Queued' = UNION {calls'[i].next .. calls'[i].hi : i \in 1 .. Len(calls) - 1}
  BY <1>2 DEF Queued
<1>4. ASSUME NEW n
      PROVE  n \in Queued' <=> n \in Rest
  <2>1. ASSUME n \in Queued' PROVE n \in Rest
    <3>1. PICK i \in 1 .. Len(calls) - 1 : n \in calls'[i].next .. calls'[i].hi
      BY <1>3, <2>1
    <3>2. i + 1 \in 2 .. Len(calls) /\ n \in Span(calls[i + 1])
      BY <1>1, <1>2, <3>1 DEF Span
    <3>3. QED BY <3>2 DEF Rest
  <2>2. ASSUME n \in Rest PROVE n \in Queued'
    <3>1. PICK i \in 2 .. Len(calls) : n \in Span(calls[i])
      BY <2>2 DEF Rest
    <3>2. PICK k \in 1 .. Len(calls) - 1 : k + 1 = i
      <4>1. i - 1 \in 1 .. Len(calls) - 1 /\ (i - 1) + 1 = i
        BY <1>1, <3>1
      <4>2. QED BY <4>1
    <3>3. n \in calls'[k].next .. calls'[k].hi
      BY <1>2, <3>1, <3>2 DEF Span
    <3>4. QED BY <1>3, <3>3
  <2>3. QED BY <2>1, <2>2
<1>5. QED BY <1>4

LEMMA QueuedWork ==
  ASSUME TypeOK, calls # <<>>, NEW c \in Call, calls' = [calls EXCEPT ![1] = c]
  PROVE  Queued' = Span(c) \cup Rest
<1>1. calls \in Seq(Call) /\ Len(calls) \in Nat /\ Len(calls) >= 1
  BY DEF TypeOK
<1>2. /\ DOMAIN calls' = 1 .. Len(calls)
      /\ \A i \in 1 .. Len(calls) : calls'[i] = IF i = 1 THEN c ELSE calls[i]
  BY <1>1
<1>3. Queued' = UNION {Span(calls'[i]) : i \in 1 .. Len(calls)}
  BY <1>2 DEF Queued, Span
<1>4. 1 .. Len(calls) = {1} \cup 2 .. Len(calls)
  BY <1>1
<1>5. \A i \in 2 .. Len(calls) : calls'[i] = calls[i]
  BY <1>1, <1>2
<1>6. calls'[1] = c
  BY <1>1, <1>2
<1>7. UNION {Span(calls'[i]) : i \in 2 .. Len(calls)} = Rest
  BY <1>5 DEF Rest
<1>8. QED BY <1>3, <1>4, <1>6, <1>7

LEMMA QueuedAppend ==
  ASSUME TypeOK, NEW c \in Call, calls' = Append(calls, c)
  PROVE  Queued' = Queued \cup Span(c)
<1>1. calls \in Seq(Call) /\ Len(calls) \in Nat
  BY DEF TypeOK
<1>2. /\ DOMAIN calls = 1 .. Len(calls) /\ DOMAIN calls' = 1 .. Len(calls) + 1
      /\ \A i \in 1 .. Len(calls) : calls'[i] = calls[i]
      /\ calls'[Len(calls) + 1] = c
  BY <1>1
<1>3. Queued' = UNION {Span(calls'[i]) : i \in 1 .. Len(calls) + 1}
  BY <1>2 DEF Queued, Span
<1>4. Queued = UNION {Span(calls[i]) : i \in 1 .. Len(calls)}
  BY <1>2 DEF Queued, Span
<1>5. 1 .. Len(calls) + 1 = 1 .. Len(calls) \cup {Len(calls) + 1}
  BY <1>1
<1>6. UNION {Span(calls'[i]) : i \in 1 .. Len(calls)} = Queued
  BY <1>2, <1>4
<1>7. QED BY <1>2, <1>3, <1>5, <1>6

-----------------------------------------------------------------------------
(* The accounts are kept by every step.                                    *)

LEMMA FrameAccounts ==
  ASSUME Accounts, UNCHANGED <<spliced, applied, dropped, calls>>
  PROVE  Accounts' /\ InOrder
BY DEF Accounts, EveryDirectiveAccountedFor, OrderInv, Queued, InOrder

(* A flush moves the pending positions into the queue.                     *)
LEMMA SpliceAccounts ==
  ASSUME TypeOK, Accounts, NEW by \in Tasks \cup {Main}, Splice(by),
         UNCHANGED <<applied, dropped>>
  PROVE  Accounts' /\ InOrder
<1>1. spliced \in Nat /\ Len(journal) \in Nat /\ spliced <= Len(journal)
  BY DEF TypeOK
<1>2. PICK c : c = Batch(by)
  OBVIOUS
<1>3. calls' = Append(calls, c) /\ spliced' = Len(journal)
  BY <1>2 DEF Splice
<1>4. c \in Call /\ Span(c) = spliced + 1 .. Len(journal)
  BY <1>1, <1>2 DEF Batch, Call, Span
<1>5. Queued' = Queued \cup (spliced + 1 .. Len(journal))
  BY <1>3, <1>4, QueuedAppend
<1>6. 1 .. Len(journal) = 1 .. spliced \cup (spliced + 1 .. Len(journal))
  BY <1>1
<1>7. applied \cup dropped \subseteq 1 .. spliced /\ UNCHANGED <<applied, dropped>>
  BY DEF Accounts, EveryDirectiveAccountedFor
<1>8. \A j \in 1 .. spliced, k \in spliced + 1 .. Len(journal) : j < k
  BY <1>1
<1>9. EveryDirectiveAccountedFor'
  <2>1. (1 .. spliced = applied \cup dropped \cup Queued)'
    <3>1. 1 .. spliced = applied \cup dropped \cup Queued
      BY DEF Accounts, EveryDirectiveAccountedFor
    <3>2. 1 .. spliced' = 1 .. spliced \cup (spliced + 1 .. Len(journal))
      BY <1>3, <1>6
    <3>3. QED BY <1>5, <1>7, <3>1, <3>2, Zenon
  <2>2. (Queued \cap (applied \cup dropped) = {})'
    <3>1. \A k \in spliced + 1 .. Len(journal) : k \notin 1 .. spliced
      BY <1>1
    <3>2. QED BY <1>5, <1>7, <3>1 DEF Accounts, EveryDirectiveAccountedFor
  <2>3. QED BY <1>7, <2>1, <2>2 DEF Accounts, EveryDirectiveAccountedFor
<1>10. OrderInv'
  BY <1>5, <1>7, <1>8 DEF Accounts, OrderInv
<1>11. QED BY <1>7, <1>9, <1>10 DEF Accounts, InOrder

LEMMA PlainAccounts ==
  ASSUME TypeOK, Accounts, NEW kind \in {"read", "commit", "discard"},
         NEW by \in Tasks \cup {Main}, calls' = Append(calls, PlainCall(kind, by)),
         UNCHANGED <<spliced, applied, dropped>>
  PROVE  Accounts' /\ InOrder
<1>1. PICK c : c = PlainCall(kind, by)
  OBVIOUS
<1>2. c \in Call /\ Span(c) = {} /\ calls' = Append(calls, c)
  BY <1>1 DEF PlainCall, Call, Span
<1>3. Queued' = Queued
  BY <1>2, QueuedAppend
<1>4. QED BY <1>3 DEF Accounts, EveryDirectiveAccountedFor, OrderInv, InOrder

(* The oldest call is answered: its batch is finished, or is dropped.      *)
LEMMA AnswerAccounts ==
  ASSUME TypeOK, QueueInv, Accounts, calls # <<>>, calls' = Tail(calls),
         UNCHANGED <<spliced, applied>>, dropped' = dropped \cup Span(Head1)
  PROVE  Accounts' /\ InOrder
<1>1. Queued' = Rest
  BY QueuedPop
<1>2. Queued = Span(Head1) \cup Rest /\ Span(Head1) \cap Rest = {}
  <2>1. Head1.hi \in Nat /\ Head1.next \in Nat
    BY HeadBounds
  <2>2. QED BY <2>1, QueuedSplit DEF Span
<1>3. EveryDirectiveAccountedFor'
  BY <1>1, <1>2 DEF Accounts, EveryDirectiveAccountedFor
<1>4. OrderInv'
  BY <1>1, <1>2 DEF Accounts, OrderInv
<1>5. QED BY <1>3, <1>4 DEF Accounts, InOrder

(* The next directive of the oldest batch is applied.                      *)
LEMMA ApplyAccounts ==
  ASSUME TypeOK, QueueInv, Accounts, calls # <<>>, Head1.next <= Head1.hi,
         NEW c \in Call, calls' = [calls EXCEPT ![1] = c],
         c.next = Head1.next + 1, c.hi = Head1.hi,
         applied' = applied \cup {Head1.next}, UNCHANGED <<spliced, dropped>>
  PROVE  Accounts' /\ InOrder
<1>1. Head1.hi \in Nat /\ Head1.next \in Nat
  BY HeadBounds
<1>2. Queued' = Span(c) \cup Rest
  BY QueuedWork
<1>3. /\ Queued = Span(Head1) \cup Rest
      /\ \A j \in Rest : j > Head1.hi /\ j \in Nat
  BY QueuedSplit
<1>4. /\ Span(Head1) = {Head1.next} \cup Span(c) /\ Head1.next \notin Span(c)
      /\ \A k \in Span(c) : Head1.next < k
  BY <1>1 DEF Span
<1>5. Head1.next \notin Rest /\ \A k \in Rest : Head1.next < k
  BY <1>1, <1>3
<1>6. EveryDirectiveAccountedFor'
  BY <1>2, <1>3, <1>4, <1>5 DEF Accounts, EveryDirectiveAccountedFor
<1>7. OrderInv'
  BY <1>2, <1>3, <1>4, <1>5 DEF Accounts, OrderInv
<1>8. InOrder
  BY <1>3, <1>4 DEF Accounts, OrderInv, InOrder
<1>9. QED BY <1>6, <1>7, <1>8 DEF Accounts

LEMMA AuthorAccounts ==
  ASSUME TypeOK, Accounts, Author
  PROVE  Accounts' /\ InOrder
<1> USE DEF engineVars
<1>1. CASE \E d \in Verbs : Buffer(d)
  BY <1>1, FrameAccounts DEF Buffer
<1>2. ASSUME NEW r \in Readers, NEW p \in Path, StartRead(r, p)
      PROVE  Accounts' /\ InOrder
  <2>1. UNCHANGED <<applied, dropped>> /\ (Splice(r) \/ UNCHANGED <<calls, spliced>>)
    BY <1>2 DEF StartRead
  <2>2. QED BY <2>1, FrameAccounts, SpliceAccounts DEF Tasks
<1>3. ASSUME NEW c \in Chunks, StartChunk(c)
      PROVE  Accounts' /\ InOrder
  BY <1>3, SpliceAccounts DEF StartChunk, Tasks
<1>4. CASE \E r \in Readers : CatchRejection(r)
  BY <1>4, FrameAccounts DEF CatchRejection
<1>5. CASE \E r \in Readers : Propagate(r)
  BY <1>5, FrameAccounts DEF Propagate
<1>6. CASE Throw
  BY <1>6, FrameAccounts DEF Throw
<1>7. CASE Return
  BY <1>7, FrameAccounts DEF Return
<1>8. QED BY <1>1, <1>2, <1>3, <1>4, <1>5, <1>6, <1>7 DEF Author

LEMMA RunAccounts ==
  ASSUME TypeOK, Accounts, Run
  PROVE  Accounts' /\ InOrder
<1> USE DEF engineVars
<1>1. CASE Gate
  BY <1>1, FrameAccounts DEF Gate
<1>2. CASE Drain
  BY <1>2, FrameAccounts DEF Drain
<1>3. CASE RunFlush
  <2>1. UNCHANGED <<applied, dropped>> /\ (Splice(Main) \/ UNCHANGED <<calls, spliced>>)
    BY <1>3 DEF RunFlush
  <2>2. QED BY <2>1, FrameAccounts, SpliceAccounts
<1>4. CASE IssueCommit
  BY <1>4, PlainAccounts DEF IssueCommit
<1>5. CASE IssueDiscard
  BY <1>5, PlainAccounts DEF IssueDiscard
<1>6. CASE \E r \in Readers : IssueRead(r)
  BY <1>6, PlainAccounts DEF IssueRead, Tasks
<1>7. QED BY <1>1, <1>2, <1>3, <1>4, <1>5, <1>6 DEF Run

LEMMA EngineAccounts ==
  ASSUME TypeOK, QueueInv, Accounts, Engine
  PROVE  Accounts' /\ InOrder
<1> USE DEF engineVars
<1>1. calls # <<>> /\ Head1 \in Call
  BY EngineServes
<1>2. ASSUME NEW outcome, NEW value, Reply(outcome, value), UNCHANGED applied,
             dropped' = dropped \cup Span(Head1)
      PROVE  Accounts' /\ InOrder
  <2>1. calls' = Tail(calls) /\ UNCHANGED spliced
    BY <1>2 DEF Reply
  <2>2. QED BY <1>1, <1>2, <2>1, AnswerAccounts
<1>3. ASSUME NEW outcome, NEW value, Reply(outcome, value), UNCHANGED <<applied, dropped>>,
             Span(Head1) = {}
      PROVE  Accounts' /\ InOrder
  BY <1>2, <1>3
<1>4. CASE LoseRequest
  BY <1>2, <1>4 DEF LoseRequest, Span
<1>5. CASE RejectBatch
  BY <1>2, <1>5 DEF RejectBatch, Span
<1>6. CASE Admit /\ ~RejectBatch
  <2>1. /\ calls' = [calls EXCEPT ![1].admitted = TRUE]
        /\ UNCHANGED <<spliced, applied, dropped>>
    BY <1>6 DEF Admit
  <2>2. PICK c : c = [Head1 EXCEPT !.admitted = TRUE]
    OBVIOUS
  <2>3. c \in Call /\ Span(c) = Span(Head1)
    BY <1>1, <2>2 DEF Call, Span
  <2>4. calls' = [calls EXCEPT ![1] = c]
    BY <2>1, <2>2 DEF Head1
  <2>5. Queued' = Queued
    BY <1>1, <2>3, <2>4, QueuedWork, QueuedSplit
  <2>6. QED BY <2>1, <2>5 DEF Accounts, EveryDirectiveAccountedFor, OrderInv, InOrder
<1>7. CASE Apply /\ ~RejectBatch
  <2>1. /\ calls' = [calls EXCEPT ![1].next = @ + 1] /\ Head1.next <= Head1.hi
        /\ applied' = applied \cup {Head1.next} /\ UNCHANGED <<spliced, dropped>>
    BY <1>7 DEF Apply
  <2>2. PICK c : c = [Head1 EXCEPT !.next = @ + 1]
    OBVIOUS
  <2>3. c \in Call /\ c.next = Head1.next + 1 /\ c.hi = Head1.hi
    BY <1>1, <2>2 DEF Call
  <2>4. calls' = [calls EXCEPT ![1] = c]
    BY <2>1, <2>2 DEF Head1
  <2>5. QED BY <1>1, <2>1, <2>3, <2>4, ApplyAccounts
<1>8. CASE FinishEmit
  <2>1. Span(Head1) = {}
    BY <1>1, <1>8 DEF FinishEmit, Span, Call
  <2>2. QED BY <1>3, <1>8, <2>1 DEF FinishEmit
<1>9. CASE ServeRead
  BY <1>1, <1>3, <1>9, QueuedSplit DEF ServeRead, Serving
<1>10. CASE ServeCommit
  BY <1>1, <1>3, <1>10, QueuedSplit DEF ServeCommit, Serving
<1>11. CASE ServeDiscard
  BY <1>1, <1>3, <1>11, QueuedSplit DEF ServeDiscard, Serving
<1>12. QED
  BY <1>4, <1>5, <1>6, <1>7, <1>8, <1>9, <1>10, <1>11 DEF Engine

(* Whether anybody still waits for a call makes no difference.             *)
LEMMA GiveUpAccounts ==
  ASSUME TypeOK, Accounts, GiveUp
  PROVE  Accounts' /\ InOrder
<1>1. UNCHANGED <<spliced, applied, dropped>>
  BY GiveUpShape DEF engineVars
<1>2. PICK n \in DOMAIN calls : Forsake(n)
  BY GiveUpShape
<1>3. /\ DOMAIN calls' = DOMAIN calls
      /\ \A i \in DOMAIN calls : calls'[i].next = calls[i].next /\ calls'[i].hi = calls[i].hi
  BY <1>2, ForsakeCalls DEF Call
<1>4. Queued' = Queued
  BY <1>3 DEF Queued
<1>5. QED BY <1>1, <1>4 DEF Accounts, EveryDirectiveAccountedFor, OrderInv, InOrder

LEMMA AccountsStep ==
  ASSUME TypeOK, QueueFacts, Accounts, [Next]_vars
  PROVE  Accounts' /\ InOrder
<1>1. CASE Author
  BY <1>1, AuthorAccounts
<1>2. CASE Run
  BY <1>2, RunAccounts
<1>3. CASE Engine
  BY <1>3, EngineAccounts DEF QueueFacts
<1>4. CASE GiveUp
  BY <1>4, GiveUpAccounts
<1>5. CASE UNCHANGED vars
  BY <1>5, FrameAccounts DEF vars
<1>6. QED BY <1>1, <1>2, <1>3, <1>4, <1>5 DEF Next, Finished

LEMMA InitAccounts == Init => Accounts
<1> SUFFICES ASSUME Init PROVE Accounts
  OBVIOUS
<1>1. calls = <<>> /\ applied = {} /\ dropped = {} /\ spliced = 0
  BY DEF Init
<1>2. Queued = {}
  BY <1>1 DEF Queued
<1>3. 1 .. spliced = {}
  BY <1>1
<1>4. QED BY <1>1, <1>2, <1>3 DEF Accounts, EveryDirectiveAccountedFor, OrderInv

-----------------------------------------------------------------------------
(* Session.flush takes each buffered directive exactly once: in every run, *)
(* whatever the author does and whatever is lost, a directive that left    *)
(* the buffer is applied, dropped or in flight, and never two of these.    *)
THEOREM NoDirectiveLost == Spec => []EveryDirectiveAccountedFor
<1>1. Init => Accounts
  BY InitAccounts
<1>2. TypeOK /\ QueueFacts /\ Accounts /\ [Next]_vars => Accounts'
  BY AccountsStep
<1>3. Accounts => EveryDirectiveAccountedFor
  BY DEF Accounts
<1>4. QED BY <1>1, <1>2, <1>3, TypesAndQueue, PTL DEF Spec

(* The engine applies directives in the order the author buffered them,    *)
(* whichever flushes carried them there.                                   *)
THEOREM AppliedInAuthorOrder == Spec => AuthorOrder
<1>1. Init => Accounts
  BY InitAccounts
<1>2. TypeOK /\ QueueFacts /\ Accounts /\ [Next]_vars => Accounts'
  BY AccountsStep
<1>3. TypeOK /\ QueueFacts /\ Accounts /\ [Next]_vars =>
        [\A i \in applied' \ applied : \A j \in applied : j < i]_vars
  BY AccountsStep DEF InOrder
<1>4. QED BY <1>1, <1>2, <1>3, TypesAndQueue, PTL DEF Spec, AuthorOrder

-----------------------------------------------------------------------------
(* Completion.                                                             *)

Settled == {"unused", "resolved", "caught"}
Returned == {"drain", "flush", "flushing", "flushed", "committing", "ok"}
Drained == Returned \ {"drain"}
Flushed == {"flushing", "flushed", "committing", "ok"}

(* The author's reads have settled once fn has returned.                   *)
ReadersJoined == pc \in Returned => \A r \in Readers : task[r] \in Settled

(* The chunk flushes have succeeded once the drain is over.                *)
ChunksJoined == pc \in Drained => \A c \in Chunks : task[c] \in {"unused", "resolved"}

(* The registry knows every chunk flush that was started, and the drain    *)
(* takes them all.                                                         *)
ChunksRegistered ==
  /\ pc \in {"gate", "fn"} =>
       \A c \in Chunks : task[c] # "unused" => \E i \in DOMAIN registry : registry[i] = c
  /\ pc = "drain" =>
       \A c \in Chunks : task[c] # "unused" => \E i \in DOMAIN joined : joined[i] = c

(* The run-end flush leaves nothing pending.                               *)
AllSpliced == pc \in Flushed => spliced = Len(journal)

ChunkStates == \A c \in Chunks : task[c] \in {"unused", "flushing", "resolved",
                                              "rejected", "faulted"}

(* A dropped directive, and one whose fate is open because nobody waits    *)
(* for its batch any more, has been reported to somebody.                  *)
Late == \E i \in DOMAIN calls : calls[i].late
Suspect == dropped # {} \/ Late

DropReported ==
  Suspect =>
    \/ pc \in Failing
    \/ \E t \in Tasks : Broken(t) \/ task[t] = "caught"

Completion == /\ ReadersJoined /\ ChunksJoined /\ ChunksRegistered
              /\ AllSpliced /\ ChunkStates /\ DropReported

Base == TypeOK /\ QueueFacts

-----------------------------------------------------------------------------
(* Who is answered, and what the answer changes.                           *)

LEMMA CallerWaits ==
  ASSUME Base, NEW n \in DOMAIN calls, ~calls[n].late
  PROVE  /\ calls[n].by = Main => pc \in Blocked
         /\ calls[n].by # Main => calls[n].by \in Tasks /\ task[calls[n].by] \in Busy
<1>1. calls \in Seq(Call)
  BY DEF Base, TypeOK
<1>2. calls[n].by \in Tasks \cup {Main}
  <2>1. calls[n] \in Call
    BY <1>1
  <2>2. QED BY <2>1 DEF Call
<1>3. Waits(calls[n])
  BY DEF Base, QueueFacts, CallerInv
<1>4. QED BY <1>2, <1>3 DEF Waits, Blocked, Busy

MainAnswered(outcome) ==
  /\ UNCHANGED task /\ pc \in Blocked
  /\ \/ pc = "flushing" /\ pc' = "flushed"
     \/ pc = "committing" /\ pc' = "ok"
     \/ pc' \in Failing
  /\ outcome # "ok" => pc' \in Failing

TaskAnswered(t, outcome) ==
  /\ UNCHANGED pc
  /\ task[t] \in Busy
  /\ \A u \in Tasks : u # t => task'[u] = task[u]
  /\ task'[t] \in {"flushed", "resolved", "rejected", "faulted"}
  /\ t \in Chunks => task'[t] # "flushed"
  /\ outcome # "ok" => task'[t] \in {"rejected", "faulted"}

LEMMA Answered ==
  ASSUME Base, NEW n \in DOMAIN calls, ~calls[n].late,
         NEW outcome \in {"ok", "rejected", "faulted"}, NEW value,
         Tell(calls[n], outcome, value)
  PROVE  MainAnswered(outcome) \/ \E t \in Tasks : TaskAnswered(t, outcome)
<1>1. CASE calls[n].by = Main
  <2>1. MainReply(outcome) /\ pc \in Blocked
    BY <1>1, CallerWaits DEF Tell
  <2>2. MainAnswered(outcome)
    BY <2>1 DEF MainReply, Fail, MainAnswered, Blocked, Failing
  <2>3. QED BY <2>2
<1>2. CASE calls[n].by # Main
  <2>1. PICK t \in Tasks : t = calls[n].by /\ task[t] \in Busy
    BY <1>2, CallerWaits
  <2>2. TaskReply(t, outcome, value)
    BY <1>2, <2>1 DEF Tell
  <2>3. /\ task'[t] = IF outcome # "ok" THEN outcome
                      ELSE IF t \in Readers /\ task[t] = "flushing" THEN "flushed"
                      ELSE "resolved"
        /\ \A u \in Tasks : u # t => task'[u] = task[u]
        /\ UNCHANGED pc
    BY <2>2 DEF TaskReply, Base, TypeOK
  <2>4. t \in Chunks => t \notin Readers
    BY RunAssumption
  <2>5. TaskAnswered(t, outcome)
    BY <2>1, <2>3, <2>4 DEF TaskAnswered
  <2>6. QED BY <2>5
<1>3. QED BY <1>1, <1>2

(* A batch is dropped with a failing answer, or after one.                 *)
Told(outcome) ==
  /\ outcome = "ok" => (Suspect' => Suspect)
  /\ MainAnswered(outcome) \/ \E t \in Tasks : TaskAnswered(t, outcome)

Untold == UNCHANGED <<pc, task>> /\ (Suspect' => Suspect)

LEMMA EngineAnswers ==
  ASSUME Base, Engine \/ GiveUp
  PROVE  /\ UNCHANGED <<spliced, joined, journal, registry>>
         /\ Untold \/ \E outcome \in {"ok", "rejected", "faulted"} : Told(outcome)
<1> DEFINE Same == UNCHANGED <<spliced, joined, journal, registry>>
           Goal == Untold \/ \E outcome \in {"ok", "rejected", "faulted"} : Told(outcome)
<1>1. CASE GiveUp
  <2>1. PICK n \in DOMAIN calls : Forsake(n)
    BY <1>1, GiveUpShape DEF Base
  <2>2. Told("faulted")
    BY <2>1, Answered DEF Forsake, Told
  <2>3. QED BY <1>1, <2>2, GiveUpShape DEF Base, authorVars
<1>2. CASE Engine
  <2>1. 1 \in DOMAIN calls /\ (Late' => Late)
    BY <1>2, EngineServes, LateCalls DEF Base, NoNewLate, Late
  <2>2. ASSUME NEW outcome \in {"ok", "rejected", "faulted"}, NEW value,
               Reply(outcome, value), outcome = "ok" => UNCHANGED dropped
        PROVE  Same /\ Goal
    <3>1. Same
      BY <2>2 DEF Reply, authorVars
    <3>2. CASE Head1.late
      <4>1. Suspect
        BY <2>1, <3>2 DEF Suspect, Late, Head1
      <4>2. QED BY <2>2, <3>1, <3>2, <4>1 DEF Reply, Untold
    <3>3. CASE ~Head1.late
      <4>1. MainAnswered(outcome) \/ \E t \in Tasks : TaskAnswered(t, outcome)
        BY <2>1, <2>2, <3>3, Answered DEF Reply, Head1
      <4>2. Told(outcome)
        BY <2>1, <2>2, <4>1 DEF Told, Suspect
      <4>3. QED BY <3>1, <4>2
    <3>4. QED BY <3>2, <3>3
  <2>3. CASE LoseRequest
    BY <2>2, <2>3 DEF LoseRequest
  <2>4. CASE RejectBatch
    BY <2>2, <2>4 DEF RejectBatch
  <2>5. CASE Admit /\ ~RejectBatch
    BY <2>1, <2>5 DEF Admit, authorVars, engineVars, Untold, Suspect
  <2>6. CASE Apply /\ ~RejectBatch
    BY <2>1, <2>6 DEF Apply, authorVars, Untold, Suspect
  <2>7. CASE FinishEmit
    BY <2>2, <2>7 DEF FinishEmit, engineVars
  <2>8. CASE ServeRead
    BY <2>2, <2>8 DEF ServeRead, engineVars
  <2>9. CASE ServeCommit
    BY <2>2, <2>9 DEF ServeCommit
  <2>10. CASE ServeDiscard
    BY <2>2, <2>10 DEF ServeDiscard
  <2>11. QED
    BY <1>2, <2>3, <2>4, <2>5, <2>6, <2>7, <2>8, <2>9, <2>10 DEF Engine
<1>3. QED BY <1>1, <1>2

(* The author and defineFactory drop nothing and give nothing up.          *)
LEMMA NothingSuspect ==
  ASSUME Base, Author \/ Run
  PROVE  Suspect' => Suspect
<1>1. Late' => Late
  BY LateCalls DEF Base, NoNewLate, Late
<1>2. UNCHANGED dropped
  BY DEF Author, Buffer, StartRead, StartChunk, CatchRejection, Propagate, Throw, Return,
         Run, Gate, Drain, RunFlush, IssueCommit, IssueDiscard, IssueRead, engineVars
<1>3. QED BY <1>1, <1>2 DEF Suspect

-----------------------------------------------------------------------------
(* Every step keeps the invariant.                                         *)

LEMMA EngineCompletion ==
  ASSUME Base, Completion, Engine \/ GiveUp
  PROVE  Completion'
<1>1. UNCHANGED <<spliced, joined, journal, registry>>
  BY EngineAnswers
<1>2. CASE Untold
  BY <1>1, <1>2 DEF Untold, Completion, ReadersJoined, ChunksJoined, ChunksRegistered, AllSpliced,
                    ChunkStates, DropReported, Broken
<1>3. ASSUME NEW outcome \in {"ok", "rejected", "faulted"}, Told(outcome),
             MainAnswered(outcome)
      PROVE  Completion'
  <2>1. ReadersJoined' /\ ChunksJoined' /\ ChunkStates' /\ ChunksRegistered' /\ AllSpliced'
    BY <1>1, <1>3 DEF MainAnswered, Completion, ReadersJoined, ChunksJoined, ChunkStates,
                      ChunksRegistered, AllSpliced, Blocked, Returned, Drained, Flushed, Failing
  <2>2. DropReported'
    <3>1. CASE outcome # "ok"
      BY <1>3, <3>1 DEF MainAnswered, DropReported
    <3>2. CASE outcome = "ok"
      <4>1. /\ UNCHANGED task /\ (Suspect' => Suspect)
            /\ pc \in Failing => pc' \in Failing
        BY <1>3, <3>2 DEF Told, MainAnswered, Blocked, Failing
      <4>2. QED BY <4>1 DEF Completion, DropReported, Broken
    <3>3. QED BY <3>1, <3>2
  <2>3. QED BY <2>1, <2>2 DEF Completion
<1>4. ASSUME NEW outcome \in {"ok", "rejected", "faulted"}, Told(outcome),
             NEW t \in Tasks, TaskAnswered(t, outcome)
      PROVE  Completion'
  <2>1. UNCHANGED pc /\ task[t] \in Busy /\ \A u \in Tasks : u # t => task'[u] = task[u]
    BY <1>4 DEF TaskAnswered
  <2>2. ReadersJoined'
    <3>1. pc \in Returned => t \notin Readers
      BY <2>1 DEF Completion, ReadersJoined, Busy, Settled
    <3>2. QED BY <2>1, <3>1 DEF Completion, ReadersJoined, Tasks
  <2>3. ChunksJoined'
    <3>1. pc \in Drained => t \notin Chunks
      BY <2>1 DEF Completion, ChunksJoined, Busy
    <3>2. QED BY <2>1, <3>1 DEF Completion, ChunksJoined, Tasks
  <2>4. ChunkStates'
    <3>1. t \in Chunks => task'[t] \in {"unused", "flushing", "resolved", "rejected", "faulted"}
      BY <1>4 DEF TaskAnswered
    <3>2. QED BY <2>1, <3>1 DEF Completion, ChunkStates, Tasks
  <2>5. ChunksRegistered'
    <3>1. \A c \in Chunks : task'[c] # "unused" => task[c] # "unused"
      BY <2>1 DEF Busy, Tasks
    <3>2. QED BY <1>1, <2>1, <3>1 DEF Completion, ChunksRegistered
  <2>6. AllSpliced'
    BY <1>1, <2>1 DEF Completion, AllSpliced
  <2>7. DropReported'
    <3>1. CASE outcome # "ok"
      BY <1>4, <3>1 DEF TaskAnswered, DropReported, Broken
    <3>2. CASE outcome = "ok"
      <4>1. \A u \in Tasks : task[u] \in {"rejected", "faulted", "caught"} => task'[u] = task[u]
        BY <2>1 DEF Busy
      <4>2. Suspect' => Suspect
        BY <1>4, <3>2 DEF Told
      <4>3. QED BY <2>1, <4>1, <4>2 DEF Completion, DropReported, Broken
    <3>3. QED BY <3>1, <3>2
  <2>8. QED BY <2>2, <2>3, <2>4, <2>5, <2>6, <2>7 DEF Completion
<1>5. QED BY <1>2, <1>3, <1>4, EngineAnswers DEF Told

(* Without floating promises the author's code runs in fn only.            *)
LEMMA AuthorCompletion ==
  ASSUME ~MayFloat, Base, Completion, Author
  PROVE  Completion'
<1> USE DEF engineVars, authorVars
<1>1. AuthorActive => pc = "fn"
  BY DEF AuthorActive
<1>2. Attentive => \A r \in Readers : task[r] \in Settled
  BY DEF Attentive, Settled
<1>3. task \in [Tasks -> TaskState] /\ (Suspect' => Suspect)
  BY NothingSuspect DEF Base, TypeOK
<1>4. ASSUME pc = "fn", UNCHANGED pc, ChunkStates', ChunksRegistered', DropReported'
      PROVE  Completion'
  BY <1>4 DEF Completion, ReadersJoined, ChunksJoined, AllSpliced, Returned, Drained, Flushed
<1>5. ASSUME NEW d \in Verbs, Buffer(d) PROVE Completion'
  <2>1. pc = "fn" /\ UNCHANGED <<pc, task, registry, joined>>
    BY <1>1, <1>5 DEF Buffer
  <2>2. QED BY <1>3, <1>4, <2>1 DEF Completion, ChunkStates, ChunksRegistered, DropReported, Broken
<1>6. ASSUME NEW r \in Readers, NEW p \in Path, StartRead(r, p) PROVE Completion'
  <2>1. /\ pc = "fn" /\ UNCHANGED <<pc, registry, joined>> /\ task[r] = "unused"
        /\ \A u \in Tasks : u # r => task'[u] = task[u]
    BY <1>1, <1>3, <1>6 DEF StartRead
  <2>2. r \notin Chunks
    BY RunAssumption
  <2>3. ChunkStates' /\ ChunksRegistered'
    BY <2>1, <2>2 DEF Completion, ChunkStates, ChunksRegistered, Tasks
  <2>4. DropReported'
    <3>1. \A u \in Tasks : task[u] \in {"rejected", "faulted", "caught"} => task'[u] = task[u]
      BY <2>1
    <3>2. QED BY <1>3, <2>1, <3>1 DEF Completion, DropReported, Broken
  <2>5. QED BY <1>4, <2>1, <2>3, <2>4
<1>7. ASSUME NEW c \in Chunks, StartChunk(c) PROVE Completion'
  <2>1. /\ pc = "fn" /\ UNCHANGED <<pc, joined>> /\ task[c] = "unused"
        /\ task'[c] = "flushing" /\ \A u \in Tasks : u # c => task'[u] = task[u]
        /\ registry' = Append(registry, c)
    BY <1>1, <1>3, <1>7 DEF StartChunk, Tasks
  <2>2. ChunkStates'
    BY <2>1 DEF Completion, ChunkStates, Tasks
  <2>3. ChunksRegistered'
    <3>1. registry \in Seq(Chunks) /\ Len(registry) \in Nat
      BY DEF Base, TypeOK
    <3>2. /\ DOMAIN registry' = 1 .. Len(registry) + 1 /\ DOMAIN registry = 1 .. Len(registry)
          /\ \A i \in 1 .. Len(registry) : registry'[i] = registry[i]
          /\ registry'[Len(registry) + 1] = c
      BY <2>1, <3>1
    <3>3. Len(registry) + 1 \in DOMAIN registry' /\ DOMAIN registry \subseteq DOMAIN registry'
      BY <3>1, <3>2
    <3>4. ASSUME NEW e \in Chunks, task'[e] # "unused"
          PROVE  \E i \in DOMAIN registry' : registry'[i] = e
      <4>1. CASE e = c
        BY <3>2, <3>3, <4>1
      <4>2. CASE e # c
        <5>1. task[e] # "unused"
          BY <2>1, <3>4, <4>2 DEF Tasks
        <5>2. PICK i \in DOMAIN registry : registry[i] = e
          BY <2>1, <5>1 DEF Completion, ChunksRegistered
        <5>3. QED BY <3>2, <3>3, <5>2
      <4>3. QED BY <4>1, <4>2
    <3>5. QED BY <2>1, <3>4 DEF ChunksRegistered
  <2>4. DropReported'
    <3>1. \A u \in Tasks : task[u] \in {"rejected", "faulted", "caught"} => task'[u] = task[u]
      BY <2>1
    <3>2. QED BY <1>3, <2>1, <3>1 DEF Completion, DropReported, Broken
  <2>5. QED BY <1>4, <2>1, <2>2, <2>3, <2>4
<1>8. ASSUME NEW r \in Readers, CatchRejection(r) PROVE Completion'
  <2>1. /\ pc = "fn" /\ UNCHANGED <<pc, registry, joined>> /\ task'[r] = "caught"
        /\ \A u \in Tasks : u # r => task'[u] = task[u]
    BY <1>3, <1>8 DEF CatchRejection, Tasks
  <2>2. r \notin Chunks
    BY RunAssumption
  <2>3. ChunkStates' /\ ChunksRegistered'
    BY <2>1, <2>2 DEF Completion, ChunkStates, ChunksRegistered, Tasks
  <2>4. DropReported'
    BY <2>1 DEF DropReported, Tasks
  <2>5. QED BY <1>4, <2>1, <2>3, <2>4
<1>9. ASSUME pc' = "failing", UNCHANGED task PROVE Completion'
  BY <1>9 DEF Completion, ReadersJoined, ChunksJoined, ChunksRegistered, AllSpliced,
              ChunkStates, DropReported, Returned, Drained, Flushed, Failing
<1>10. ASSUME NEW r \in Readers, Propagate(r) PROVE Completion'
  BY <1>9, <1>10 DEF Propagate, Fail
<1>11. CASE Throw
  BY <1>9, <1>11 DEF Throw, Fail
<1>12. CASE Return
  <2>1. /\ pc = "fn" /\ pc' = "drain" /\ joined' = registry /\ UNCHANGED task
        /\ \A r \in Readers : task[r] \in Settled
    BY <1>2, <1>12 DEF Return
  <2>2. ReadersJoined' /\ ChunksJoined' /\ AllSpliced' /\ ChunkStates'
    BY <2>1 DEF Completion, ReadersJoined, ChunksJoined, AllSpliced, ChunkStates, Returned,
                Drained, Flushed
  <2>3. ChunksRegistered'
    BY <2>1 DEF Completion, ChunksRegistered
  <2>4. DropReported'
    BY <1>3, <2>1 DEF Completion, DropReported, Broken, Failing
  <2>5. QED BY <2>2, <2>3, <2>4 DEF Completion
<1>13. QED
  BY <1>5, <1>6, <1>7, <1>8, <1>10, <1>11, <1>12 DEF Author

LEMMA RunCompletion ==
  ASSUME Base, Completion, Run
  PROVE  Completion'
<1> USE DEF engineVars, authorVars
<1>0. Suspect' => Suspect
  BY NothingSuspect
<1>1. ASSUME UNCHANGED <<task, registry, joined>>,
             pc \notin Failing,
             ReadersJoined', ChunksJoined', AllSpliced',
             pc' \notin {"gate", "drain"}, pc' = "fn" => pc = "gate"
      PROVE  Completion'
  BY <1>0, <1>1 DEF Completion, ChunksRegistered, ChunkStates, DropReported, Broken
<1>2. CASE Gate
  BY <1>1, <1>2 DEF Gate, ReadersJoined, ChunksJoined, AllSpliced, Returned, Drained,
                    Flushed, Failing
<1>3. CASE Drain
  <2>1. CASE pc' = "flush"
    <3>1. /\ pc = "drain" /\ UNCHANGED <<task, registry, joined>>
          /\ \A i \in DOMAIN joined : task[joined[i]] # "flushing"
      BY <1>3 DEF Drain
    <3>2. \A i \in DOMAIN joined : ~Broken(joined[i])
      BY <1>3, <2>1 DEF Drain, Fail
    <3>3. ASSUME NEW c \in Chunks
          PROVE  task[c] \in {"unused", "resolved"}
      <4>1. task[c] # "unused" => \E i \in DOMAIN joined : joined[i] = c
        BY <3>1 DEF Completion, ChunksRegistered
      <4>2. QED BY <3>1, <3>2, <4>1 DEF Completion, ChunkStates, Broken
    <3>4. ReadersJoined' /\ ChunksJoined' /\ AllSpliced'
      BY <2>1, <3>1, <3>3 DEF Completion, ReadersJoined, ChunksJoined, AllSpliced, Returned,
                              Flushed
    <3>5. QED BY <1>1, <2>1, <3>1, <3>4 DEF Failing
  <2>2. CASE pc' = "failing" /\ UNCHANGED task
    BY <2>2 DEF Completion, ReadersJoined, ChunksJoined, ChunksRegistered, AllSpliced,
                ChunkStates, DropReported, Returned, Drained, Flushed, Failing
  <2>3. QED BY <1>3, <2>1, <2>2 DEF Drain, Fail
<1>4. CASE RunFlush
  <2>1. /\ pc = "flush" /\ pc' \in {"flushing", "flushed"}
        /\ UNCHANGED <<task, registry, joined, journal>>
    BY <1>4 DEF RunFlush
  <2>2. spliced' = Len(journal)
    <3>1. spliced \in 0 .. Len(journal) /\ Len(journal) \in Nat
      BY DEF Base, TypeOK
    <3>2. QED BY <1>4, <3>1 DEF RunFlush, Splice, HasPending
  <2>3. ReadersJoined' /\ ChunksJoined' /\ AllSpliced'
    BY <2>1, <2>2 DEF Completion, ReadersJoined, ChunksJoined, AllSpliced, Returned, Drained
  <2>4. QED BY <1>1, <2>1, <2>3 DEF Failing
<1>5. CASE IssueCommit
  <2>1. /\ pc = "flushed" /\ pc' = "committing"
        /\ UNCHANGED <<task, registry, joined, journal, spliced>>
    BY <1>5 DEF IssueCommit
  <2>2. ReadersJoined' /\ ChunksJoined' /\ AllSpliced'
    BY <2>1 DEF Completion, ReadersJoined, ChunksJoined, AllSpliced, Returned, Drained, Flushed
  <2>3. QED BY <1>1, <2>1, <2>2 DEF Failing
<1>6. CASE IssueDiscard
  BY <1>6 DEF IssueDiscard, Completion, ReadersJoined, ChunksJoined, ChunksRegistered,
              AllSpliced, ChunkStates, DropReported, Returned, Drained, Flushed, Failing
<1>7. ASSUME NEW r \in Readers, IssueRead(r) PROVE Completion'
  <2>1. /\ UNCHANGED <<pc, registry, joined, journal, spliced>> /\ task[r] = "flushed"
        /\ \A u \in Tasks : u # r => task'[u] = task[u]
    BY <1>7 DEF IssueRead, Base, TypeOK
  <2>2. r \notin Chunks
    BY RunAssumption
  <2>3. pc \notin Returned
    BY <2>1 DEF Completion, ReadersJoined, Settled
  <2>4. ReadersJoined' /\ ChunksJoined' /\ AllSpliced'
    BY <2>1, <2>3 DEF Completion, ReadersJoined, ChunksJoined, AllSpliced, Returned, Drained,
                      Flushed
  <2>5. ChunkStates' /\ ChunksRegistered'
    BY <2>1, <2>2 DEF Completion, ChunkStates, ChunksRegistered, Tasks
  <2>6. DropReported'
    <3>1. \A u \in Tasks : task[u] \in {"rejected", "faulted", "caught"} => task'[u] = task[u]
      BY <2>1
    <3>2. QED BY <1>0, <2>1, <3>1 DEF Completion, DropReported, Broken
  <2>7. QED BY <2>4, <2>5, <2>6 DEF Completion
<1>8. QED BY <1>2, <1>3, <1>4, <1>5, <1>6, <1>7 DEF Run

LEMMA CompletionStep ==
  ASSUME ~MayFloat, Base, Completion, [Next]_vars
  PROVE  Completion'
<1>1. CASE UNCHANGED vars
  BY <1>1 DEF vars, Completion, ReadersJoined, ChunksJoined, ChunksRegistered, AllSpliced,
              ChunkStates, DropReported, Broken, Suspect, Late
<1>2. QED BY <1>1, AuthorCompletion, RunCompletion, EngineCompletion DEF Next, Finished

(* At the end nothing is queued, dropped or pending.                       *)
LEMMA CompletionSuffices ==
  ASSUME Base, Accounts, Completion
  PROVE  SuccessMeansComplete
<1> SUFFICES ASSUME pc = "ok", \A r \in Readers : task[r] # "caught"
             PROVE  applied = 1 .. Len(journal)
  BY DEF SuccessMeansComplete
<1>1. \A t \in Tasks : task[t] \in {"unused", "resolved"}
  BY DEF Completion, ReadersJoined, ChunksJoined, Settled, Returned, Drained, Tasks
<1>2. dropped = {} /\ ~Late
  BY <1>1 DEF Completion, DropReported, Suspect, Broken, Failing
<1>3. calls = <<>>
  <2>1. SUFFICES ASSUME calls # <<>> PROVE FALSE
    OBVIOUS
  <2>2. 1 \in DOMAIN calls /\ ~calls[1].late
    BY <1>2, <2>1 DEF Base, TypeOK, Late
  <2>3. QED BY <1>1, <2>2, CallerWaits DEF Blocked, Busy
<1>4. Queued = {}
  BY <1>3 DEF Queued
<1>5. spliced = Len(journal)
  BY DEF Completion, AllSpliced, Flushed
<1>6. QED BY <1>2, <1>4, <1>5 DEF Accounts, EveryDirectiveAccountedFor

(* defineFactory reports success only if every directive the author        *)
(* buffered has been applied, provided the author awaits his promises and  *)
(* has caught no rejection.                                                *)
THEOREM SuccessIsComplete == ~MayFloat /\ Spec => []SuccessMeansComplete
<1> SUFFICES ASSUME ~MayFloat PROVE Spec => []SuccessMeansComplete
  OBVIOUS
<1>1. Init => Completion
  BY DEF Init, Completion, ReadersJoined, ChunksJoined, ChunksRegistered, AllSpliced,
         ChunkStates, DropReported, Suspect, Late, Returned, Drained, Flushed, Tasks
<1>2. Base /\ Completion /\ [Next]_vars => Completion'
  BY CompletionStep
<1>3. Base /\ Accounts /\ [Next]_vars => Accounts'
  BY AccountsStep DEF Base
<1>4. Base /\ Accounts /\ Completion => SuccessMeansComplete
  BY CompletionSuffices
<1>5. Spec => []Base
  BY TypesAndQueue DEF Base
<1>6. QED BY <1>1, <1>2, <1>3, <1>4, <1>5, InitAccounts, PTL DEF Spec

-----------------------------------------------------------------------------
(* What the author reads and what reaches the disk: a read returns a       *)
(* replay of the journal, and the run of such an author who catches no     *)
(* rejection either is atomic.                                             *)

(* One step of Replay.                                                     *)
Then(acc, d) ==
  IF acc.ok /\ Verdict(acc.st, d, FALSE) = "ok"
  THEN [ok |-> TRUE, st |-> Effect(acc.st, d)]
  ELSE [acc EXCEPT !.ok = FALSE]

Replays == INSTANCE Folding WITH Step <- Then

Good(st) == [ok |-> TRUE, st |-> st]

(* The first m directives of a journal, applied from nothing staged.       *)
Upto(j, m) == Abstract!Replay(SubSeq(j, 1, m))

-----------------------------------------------------------------------------
(* Replay.                                                                 *)

LEMMA ReplayFolds == \A ds : Abstract!Replay(ds) = Replays!Fold(Good(EmptyStaging), ds)
  BY DEF Abstract!Replay, Replays!Fold, Then, Good, EmptyStaging, Verdict, Effect, Exists, Lookup, Target,
     NeedsSource, ChecksTarget, Put, Drop, Path,
     Abstract!EmptyStaging, Abstract!Verdict, Abstract!Effect, Abstract!Exists, Abstract!Lookup, Abstract!Target,
     Abstract!NeedsSource, Abstract!ChecksTarget, Abstract!Put, Abstract!Drop, Abstract!Path,
     Abstract!FoldLeft, Abstract!MapThenFoldSet, Abstract!Max,
     Replays!FoldLeft, Replays!MapThenFoldSet, Replays!Max

LEMMA UptoNothing == \A j : Upto(j, 0) = Good(EmptyStaging)
  <1>1. \A j : SubSeq(j, 1, 0) = <<>>
    OBVIOUS
  <1>2. Abstract!Replay(<<>>) = Good(EmptyStaging)
    BY ReplayFolds, Replays!FoldEmpty
  <1> QED BY <1>1, <1>2 DEF Upto

LEMMA UptoNext ==
  ASSUME NEW j \in Seq(Verbs), NEW m \in Nat, m < Len(j)
  PROVE  Upto(j, m + 1) = Then(Upto(j, m), j[m + 1])
  <1>1. m \in 0 .. Len(j) - 1
    OBVIOUS
  <1>2. Replays!Fold(Good(EmptyStaging), SubSeq(j, 1, m + 1))
          = Then(Replays!Fold(Good(EmptyStaging), SubSeq(j, 1, m)), j[m + 1])
    BY <1>1, Replays!FoldPrefix
  <1> QED BY <1>2, ReplayFolds DEF Upto

LEMMA UptoStays ==
  ASSUME NEW j \in Seq(Verbs), NEW m \in 0 .. Len(j), NEW d \in Verbs
  PROVE  Upto(Append(j, d), m) = Upto(j, m)
  <1>1. SubSeq(Append(j, d), 1, m) = SubSeq(j, 1, m)
    OBVIOUS
  <1> QED BY <1>1 DEF Upto

LEMMA UptoAll == ASSUME NEW j \in Seq(Verbs) PROVE Upto(j, Len(j)) = Abstract!Replay(j)
  <1>1. SubSeq(j, 1, Len(j)) = j
    OBVIOUS
  <1> QED BY <1>1 DEF Upto

-----------------------------------------------------------------------------
(* The invariant behind the reads.                                         *)

(* Where no commit and no discard has been asked for yet.                  *)
Early == {"gate", "fn", "drain", "flush", "flushing", "flushed"}

NoEndYet == pc \in Early =>
  ~landed /\ \A i \in DOMAIN calls : calls[i].kind \notin {"commit", "discard"}

Callers == \A i \in DOMAIN calls : calls[i].by \in Tasks => task[calls[i].by] # "unused"

(* What was buffered before a read has left the buffer with it.            *)
Marks == \A r \in Readers : task[r] # "unused" => mark[r] <= spliced

(* A batch queued behind a read holds later directives than the read saw.  *)
Behind == \A i, j \in DOMAIN calls :
  i < j /\ calls[i].kind = "read" /\ calls[j].kind = "emit" => mark[calls[i].by] < calls[j].next

(* Staging is the replay of the directives applied so far.                 *)
Staged == pc \in Early /\ dropped = {} =>
  \E m \in 0 .. Len(journal) : applied = 1 .. m /\ Upto(journal, m) = Good(staging)

(* ReadYourOwnWrites, for as long as fn's author may still go on.          *)
ReadBack == pc \in Early /\ dropped = {} =>
  \A r \in Readers : task[r] = "resolved" =>
    \E k \in mark[r] .. Len(journal) : seen[r] = Lookup(Upto(journal, k).st, file[r])

Reading == NoEndYet /\ Callers /\ Marks /\ Behind /\ Staged /\ ReadBack

-----------------------------------------------------------------------------
(* What a step changes.                                                    *)

(* Once left, the early states are not entered again.                      *)
LEMMA EarlyBefore ==
  ASSUME Base, [Next]_vars, pc' \in Early
  PROVE  pc \in Early
<1>1. CASE Author
  BY <1>1 DEF Author, Buffer, StartRead, StartChunk, CatchRejection, Propagate, Throw, Return,
              Fail, Early
<1>2. CASE Run
  BY <1>2 DEF Run, Gate, Drain, RunFlush, IssueCommit, IssueDiscard, IssueRead, Fail, Early
<1>3. CASE Engine \/ GiveUp
  BY <1>3, EngineAnswers DEF Untold, Told, MainAnswered, TaskAnswered, Failing, Early
<1>4. CASE UNCHANGED vars
  BY <1>4 DEF vars
<1>5. QED BY <1>1, <1>2, <1>3, <1>4 DEF Next, Finished

(* No task starts over, and a read keeps the mark it started with.         *)
LEMMA TaskForward ==
  ASSUME Base, [Next]_vars, NEW t \in Tasks, task[t] # "unused"
  PROVE  task'[t] # "unused" /\ (t \in Readers => mark'[t] = mark[t] /\ file'[t] = file[t])
<1>0. /\ task \in [Tasks -> TaskState]
      /\ mark \in [Readers -> Nat] /\ file \in [Readers -> Path]
  BY DEF Base, TypeOK
<1>1. CASE Author
  BY <1>0, <1>1 DEF Author, Buffer, StartRead, StartChunk, CatchRejection, Propagate, Throw,
                    Return, authorVars
<1>2. CASE Run
  BY <1>0, <1>2 DEF Run, Gate, Drain, RunFlush, IssueCommit, IssueDiscard, IssueRead, authorVars
<1>3. CASE Engine \/ GiveUp
  <2>1. UNCHANGED <<mark, file>>
    BY <1>3, GiveUpShape DEF Base, Engine, LoseRequest, Admit, RejectBatch, Apply, FinishEmit,
       ServeRead, ServeCommit, ServeDiscard, Reply, authorVars
  <2>2. task'[t] # "unused"
    BY <1>3, EngineAnswers DEF Untold, Told, MainAnswered, TaskAnswered
  <2>3. QED BY <2>1, <2>2
<1>4. CASE UNCHANGED vars
  BY <1>4 DEF vars
<1>5. QED BY <1>1, <1>2, <1>3, <1>4 DEF Next, Finished

(* A call made in this step.                                               *)
Fresh(c) ==
  \/ /\ c.kind = "emit" /\ c.next = spliced + 1
     /\ c.by \in Tasks => task'[c.by] # "unused"
  \/ c.kind = "read" /\ c.by \in Readers /\ task[c.by] = "flushed"
  \/ /\ c.kind \in {"commit", "discard"} /\ c.by = Main
     /\ pc' \notin Early /\ (c.kind = "commit" => pc = "flushed")

Kept(c, d) == c.kind = d.kind /\ c.by = d.by /\ c.next >= d.next

(* The queue keeps its calls in their order, but for the oldest, and takes *)
(* one new call at its end.                                                *)
Moved ==
  \E s \in {0, 1} : \A i \in DOMAIN calls' :
    \/ i + s \in DOMAIN calls /\ Kept(calls'[i], calls[i + s])
    \/ s = 0 /\ i = Len(calls) + 1 /\ Fresh(calls'[i])

LEMMA AppendMoves ==
  ASSUME TypeOK, NEW c, calls' = Append(calls, c), Fresh(c)
  PROVE  Moved
<1>1. calls \in Seq(Call) /\ Len(calls) \in Nat /\ DOMAIN calls = 1 .. Len(calls)
  BY DEF TypeOK
<1>2. /\ DOMAIN calls' = 1 .. Len(calls) + 1
      /\ calls'[Len(calls) + 1] = c /\ \A i \in 1 .. Len(calls) : calls'[i] = calls[i]
  BY <1>1
<1>3. ASSUME NEW i \in DOMAIN calls'
      PROVE  \/ i + 0 \in DOMAIN calls /\ Kept(calls'[i], calls[i + 0])
             \/ i = Len(calls) + 1 /\ Fresh(calls'[i])
  <2>1. CASE i = Len(calls) + 1
    BY <1>2, <2>1
  <2>2. CASE i \in 1 .. Len(calls)
    <3>1. calls'[i] = calls[i] /\ calls[i] \in Call /\ i + 0 = i
      BY <1>1, <1>2, <2>2
    <3>2. calls[i].next >= calls[i].next
      BY <3>1 DEF Call
    <3>3. QED BY <1>1, <2>2, <3>1, <3>2 DEF Kept
  <2>3. QED BY <1>1, <1>2, <2>1, <2>2
<1>4. QED BY <1>3 DEF Moved

LEMMA SameCallsMove == ASSUME TypeOK, UNCHANGED calls PROVE Moved
<1>1. calls \in Seq(Call) /\ Len(calls) \in Nat /\ DOMAIN calls = 1 .. Len(calls)
  BY DEF TypeOK
<1>2. \A i \in DOMAIN calls : i + 0 = i /\ calls[i] \in Call
  BY <1>1
<1>3. \A i \in DOMAIN calls : calls[i].next >= calls[i].next
  BY <1>2 DEF Call
<1>4. QED BY <1>2, <1>3 DEF Moved, Kept

LEMMA SpliceMoves ==
  ASSUME TypeOK, NEW by \in Tasks \cup {Main}, Splice(by), by \in Tasks => task'[by] # "unused"
  PROVE  Moved
<1>1. PICK c : c = Batch(by)
  OBVIOUS
<1>2. Fresh(c) /\ calls' = Append(calls, c)
  BY <1>1 DEF Fresh, Batch, Splice
<1>3. QED BY <1>2, AppendMoves

LEMMA PlainMoves ==
  ASSUME TypeOK, NEW kind, NEW by, calls' = Append(calls, PlainCall(kind, by)),
         \/ kind = "read" /\ by \in Readers /\ task[by] = "flushed"
         \/ /\ kind \in {"commit", "discard"} /\ by = Main
            /\ pc' \notin Early /\ (kind = "commit" => pc = "flushed")
  PROVE  Moved
<1>1. PICK c : c = PlainCall(kind, by)
  OBVIOUS
<1>2. Fresh(c) /\ calls' = Append(calls, c)
  BY <1>1 DEF Fresh, PlainCall
<1>3. QED BY <1>2, AppendMoves

LEMMA StepMoves ==
  ASSUME Base, [Next]_vars
  PROVE  Moved
<1>0. TypeOK /\ calls \in Seq(Call) /\ Len(calls) \in Nat /\ task \in [Tasks -> TaskState]
  BY DEF Base, TypeOK
<1>1. CASE Author
  <2>1. CASE UNCHANGED calls
    BY <1>0, <2>1, SameCallsMove
  <2>2. ASSUME NEW r \in Readers, NEW p \in Path, StartRead(r, p), calls' # calls PROVE Moved
    <3>1. Splice(r) /\ task'[r] # "unused" /\ r \in Tasks
      BY <1>0, <2>2 DEF StartRead, Tasks
    <3>2. QED BY <1>0, <3>1, SpliceMoves
  <2>3. ASSUME NEW c \in Chunks, StartChunk(c) PROVE Moved
    <3>1. Splice(c) /\ task'[c] # "unused" /\ c \in Tasks
      BY <1>0, <2>3 DEF StartChunk, Tasks
    <3>2. QED BY <1>0, <3>1, SpliceMoves
  <2>4. QED BY <1>1, <2>1, <2>2, <2>3 DEF Author, Buffer, CatchRejection, Propagate, Throw, Return
<1>2. CASE Run
  <2>1. CASE UNCHANGED calls
    BY <1>0, <2>1, SameCallsMove
  <2>2. CASE RunFlush /\ calls' # calls
    <3>1. Splice(Main) /\ Main \notin Tasks
      BY <2>2, RunAssumption DEF RunFlush, Tasks
    <3>2. QED BY <1>0, <3>1, SpliceMoves
  <2>3. CASE IssueCommit
    BY <1>0, <2>3, PlainMoves DEF IssueCommit, Early
  <2>4. CASE IssueDiscard
    BY <1>0, <2>4, PlainMoves DEF IssueDiscard, Early
  <2>5. ASSUME NEW r \in Readers, IssueRead(r) PROVE Moved
    BY <1>0, <2>5, PlainMoves DEF IssueRead
  <2>6. QED BY <1>2, <2>1, <2>2, <2>3, <2>4, <2>5 DEF Run, Gate, Drain
<1>3. CASE Engine
  <2>1. 1 \in DOMAIN calls
    BY <1>0, <1>3, EngineServes
  <2>2. CASE calls' = Tail(calls)
    <3>1. /\ DOMAIN calls' = 1 .. Len(calls) - 1 /\ DOMAIN calls = 1 .. Len(calls)
          /\ \A i \in 1 .. Len(calls) - 1 : calls'[i] = calls[i + 1] /\ calls[i + 1] \in Call
      BY <1>0, <2>1, <2>2
    <3>2. \A i \in DOMAIN calls' : i + 1 \in DOMAIN calls /\ calls'[i] = calls[i + 1]
      BY <1>0, <3>1
    <3>3. \A d \in Call : Kept(d, d)
      BY DEF Kept, Call
    <3>4. \A i \in DOMAIN calls' : calls[i + 1] \in Call
      BY <3>1
    <3>5. QED BY <3>2, <3>3, <3>4 DEF Moved
  <2>3. ASSUME NEW c, Working(c) PROVE Moved
    <3>1. /\ DOMAIN calls' = DOMAIN calls
          /\ \A i \in DOMAIN calls : calls'[i] = IF i = 1 THEN c ELSE calls[i]
      BY <1>0, <2>1, <2>3 DEF Working
    <3>2. Kept(c, calls[1])
      BY <2>3 DEF Working, Head1, Kept
    <3>3. \A i \in DOMAIN calls : i + 0 = i /\ calls[i] \in Call
      BY <1>0
    <3>4. \A d \in Call : Kept(d, d)
      BY DEF Kept, Call
    <3>5. QED BY <3>1, <3>2, <3>3, <3>4 DEF Moved
  <2>4. QED BY <1>0, <1>3, <2>2, <2>3, EngineShape DEF Reply
<1>4. CASE GiveUp
  <2>1. PICK n \in DOMAIN calls : Forsake(n)
    BY <1>0, <1>4, GiveUpShape
  <2>2. /\ DOMAIN calls' = DOMAIN calls
        /\ \A i \in DOMAIN calls : i # n => calls'[i] = calls[i]
        /\ calls'[n] = [calls[n] EXCEPT !.late = TRUE]
        /\ \A i \in DOMAIN calls : calls[i] \in Call /\ i + 0 = i
    BY <1>0, <2>1, ForsakeCalls
  <2>3. \A i \in DOMAIN calls : Kept(calls'[i], calls[i])
    BY <2>2 DEF Kept, Call
  <2>4. QED BY <2>2, <2>3 DEF Moved
<1>5. CASE UNCHANGED vars
  BY <1>0, <1>5, SameCallsMove DEF vars
<1>6. QED BY <1>1, <1>2, <1>3, <1>4, <1>5 DEF Next, Finished

-----------------------------------------------------------------------------
(* The invariant is kept.                                                  *)

LEMMA NoEndYetStep ==
  ASSUME Base, NoEndYet, [Next]_vars
  PROVE  NoEndYet'
<1> SUFFICES ASSUME pc' \in Early
             PROVE  ~landed' /\ \A i \in DOMAIN calls' : calls'[i].kind \notin {"commit", "discard"}
  BY DEF NoEndYet
<1>1. pc \in Early
  BY EarlyBefore
<1>2. ~landed /\ \A i \in DOMAIN calls : calls[i].kind \notin {"commit", "discard"}
  BY <1>1 DEF NoEndYet
<1>3. \A i \in DOMAIN calls' : calls'[i].kind \notin {"commit", "discard"}
  <2>1. PICK s \in {0, 1} : \A i \in DOMAIN calls' :
          \/ i + s \in DOMAIN calls /\ Kept(calls'[i], calls[i + s])
          \/ s = 0 /\ i = Len(calls) + 1 /\ Fresh(calls'[i])
    BY StepMoves DEF Moved
  <2>2. QED BY <1>2, <2>1 DEF Kept, Fresh
<1>4. CASE landed' # landed
  <2>1. ServeCommit
    BY <1>4 DEF Next, Author, Buffer, StartRead, StartChunk, CatchRejection, Propagate, Throw, Return,
       Run, Gate, Drain, RunFlush, IssueCommit, IssueDiscard, IssueRead, Engine, LoseRequest,
       Admit, RejectBatch, Apply, FinishEmit, ServeRead, ServeDiscard, GiveUp, Finished,
       engineVars, vars
  <2>2. Head1.kind = "commit" /\ 1 \in DOMAIN calls
    BY <2>1, EngineServes DEF ServeCommit, Serving, Engine, Base
  <2>3. QED BY <1>2, <2>2 DEF Head1
<1>5. QED BY <1>2, <1>3, <1>4

LEMMA CallersStep ==
  ASSUME Base, Callers, [Next]_vars
  PROVE  Callers'
<1>1. PICK s \in {0, 1} : \A i \in DOMAIN calls' :
        \/ i + s \in DOMAIN calls /\ Kept(calls'[i], calls[i + s])
        \/ s = 0 /\ i = Len(calls) + 1 /\ Fresh(calls'[i])
  BY StepMoves DEF Moved
<1>2. ASSUME NEW i \in DOMAIN calls', calls'[i].by \in Tasks
      PROVE  task'[calls'[i].by] # "unused"
  <2>1. CASE i + s \in DOMAIN calls /\ Kept(calls'[i], calls[i + s])
    BY <1>2, <2>1, TaskForward DEF Callers, Kept
  <2>2. CASE Fresh(calls'[i])
    <3>1. calls'[i].by # Main
      BY <1>2, RunAssumption DEF Tasks
    <3>2. QED BY <1>2, <2>2, <3>1, TaskForward DEF Fresh
  <2>3. QED BY <1>1, <2>1, <2>2
<1>3. QED BY <1>2 DEF Callers

(* A flush only adds to what has left the buffer.                          *)
LEMMA SplicedGrows ==
  ASSUME Base, [Next]_vars
  PROVE  spliced' \in Nat /\ spliced \in Nat /\ spliced' >= spliced
<1>1. spliced \in Nat /\ Len(journal) \in Nat /\ spliced <= Len(journal)
  BY DEF Base, TypeOK
<1>2. CASE spliced' = spliced
  BY <1>1, <1>2
<1>3. CASE spliced' = Len(journal)
  BY <1>1, <1>3
<1>4. CASE Engine \/ GiveUp
  BY <1>2, <1>4, EngineAnswers
<1>5. QED BY <1>2, <1>3, <1>4 DEF Next, Author, Buffer, StartRead, StartChunk, CatchRejection,
     Propagate, Throw, Return, Run, Gate, Drain, RunFlush, IssueCommit, IssueDiscard, IssueRead,
     Splice, Finished, vars

(* Whoever starts now is a reader with the whole journal behind it.        *)
LEMMA ReadStarts ==
  ASSUME Base, [Next]_vars, NEW r \in Readers, task[r] = "unused", task'[r] # "unused"
  PROVE  mark'[r] = Len(journal) /\ spliced' = Len(journal) /\ task'[r] # "resolved"
<1>0. /\ task \in [Tasks -> TaskState] /\ mark \in [Readers -> Nat] /\ r \in Tasks
      /\ spliced \in Nat /\ Len(journal) \in Nat /\ spliced <= Len(journal)
      /\ r \notin Chunks
  BY RunAssumption DEF Base, TypeOK, Tasks
<1>1. ~(Engine \/ GiveUp)
  BY <1>0, EngineAnswers DEF Untold, Told, MainAnswered, TaskAnswered, Busy
<1>2. ~Run
  BY <1>0 DEF Run, Gate, Drain, RunFlush, IssueCommit, IssueDiscard, IssueRead
<1>3. Author
  BY <1>1, <1>2 DEF Next, Finished, vars
<1>4. PICK p \in Path : StartRead(r, p)
  BY <1>0, <1>3 DEF Author, Buffer, StartRead, StartChunk, CatchRejection, Propagate, Throw, Return,
     Broken
<1>5. QED BY <1>0, <1>4 DEF StartRead, Splice, HasPending

LEMMA MarksStep ==
  ASSUME Base, Marks, [Next]_vars
  PROVE  Marks'
<1> SUFFICES ASSUME NEW r \in Readers, task'[r] # "unused" PROVE mark'[r] <= spliced'
  BY DEF Marks
<1>0. r \in Tasks /\ mark \in [Readers -> Nat] /\ Len(journal) \in Nat
  BY DEF Tasks, Base, TypeOK
<1>1. CASE task[r] = "unused"
  BY <1>0, <1>1, ReadStarts
<1>2. CASE task[r] # "unused"
  <2>1. mark[r] <= spliced /\ mark'[r] = mark[r]
    BY <1>0, <1>2, TaskForward DEF Marks
  <2>2. QED BY <1>0, <2>1, SplicedGrows
<1>3. QED BY <1>1, <1>2

LEMMA BehindStep ==
  ASSUME Base, Callers, Marks, Behind, [Next]_vars
  PROVE  Behind'
<1>1. PICK s \in {0, 1} : \A i \in DOMAIN calls' :
        \/ i + s \in DOMAIN calls /\ Kept(calls'[i], calls[i + s])
        \/ s = 0 /\ i = Len(calls) + 1 /\ Fresh(calls'[i])
  BY StepMoves DEF Moved
<1>2. /\ calls \in Seq(Call) /\ Len(calls) \in Nat /\ DOMAIN calls = 1 .. Len(calls)
      /\ mark \in [Readers -> Nat] /\ spliced \in Nat
  BY DEF Base, TypeOK
<1>3. calls' \in Seq(Call) /\ Len(calls') \in Nat /\ DOMAIN calls' = 1 .. Len(calls')
  BY QueueStep DEF Base, TypeOK
<1> SUFFICES ASSUME NEW i \in DOMAIN calls', NEW j \in DOMAIN calls', i < j,
                    calls'[i].kind = "read", calls'[j].kind = "emit"
             PROVE  mark'[calls'[i].by] < calls'[j].next
  BY DEF Behind
<1>4. i + s \in DOMAIN calls /\ Kept(calls'[i], calls[i + s])
  <2>1. CASE s = 0 /\ i = Len(calls) + 1
    <3>1. j + s \notin DOMAIN calls /\ j # Len(calls) + 1
      BY <1>2, <1>3, <2>1
    <3>2. QED BY <1>1, <3>1
  <2>2. QED BY <1>1, <2>1
<1>5. PICK r : r = calls[i + s].by
  OBVIOUS
<1>6. calls'[i].by = r /\ calls[i + s].kind = "read"
  BY <1>4, <1>5 DEF Kept
<1>7. r \in Readers
  BY <1>4, <1>5, <1>6 DEF Base, QueueFacts, CallerInv, Waits
<1>8. task[r] # "unused" /\ mark'[r] = mark[r] /\ mark[r] \in Nat
  BY <1>2, <1>4, <1>5, <1>7, TaskForward DEF Callers, Tasks
<1>9. CASE j + s \in DOMAIN calls /\ Kept(calls'[j], calls[j + s])
  <2>1. i + s < j + s /\ calls[j + s].kind = "emit" /\ calls'[j].next >= calls[j + s].next
    BY <1>3, <1>9 DEF Kept
  <2>2. mark[r] < calls[j + s].next
    BY <1>4, <1>5, <1>6, <1>9, <2>1 DEF Behind
  <2>3. calls[j + s] \in Call /\ calls'[j] \in Call
    BY <1>2, <1>3, <1>9
  <2>4. calls[j + s].next \in Nat /\ calls'[j].next \in Nat
    BY <2>3 DEF Call
  <2>5. QED BY <1>6, <1>8, <2>1, <2>2, <2>4
<1>10. CASE Fresh(calls'[j])
  <2>1. calls'[j].next = spliced + 1 /\ mark[r] <= spliced
    BY <1>7, <1>8, <1>10 DEF Fresh, Marks
  <2>2. QED BY <1>2, <1>6, <1>8, <2>1
<1>11. QED BY <1>1, <1>9, <1>10

(* With nothing dropped, what is applied is what went out before the batch *)
(* now served.                                                             *)
LEMMA NextInLine ==
  ASSUME Base, Accounts, dropped = {}, NEW m \in Nat, applied = 1 .. m, calls # <<>>,
         Head1.kind = "emit", Head1.next <= Head1.hi
  PROVE  Head1.next = m + 1
<1>1. /\ Queued = Span(Head1) \cup Rest
      /\ \A j \in Rest : j > Head1.hi /\ j <= spliced /\ j \in Nat
      /\ Span(Head1) \subseteq 1 .. spliced
  BY QueuedSplit DEF Base, QueueFacts
<1>2. Head1.next \in Nat /\ Head1.hi \in Nat /\ spliced \in Nat
  BY HeadBounds DEF Base, TypeOK
<1>3. Head1.next \in Span(Head1)
  BY <1>2 DEF Span
<1>4. 1 .. spliced = applied \cup Queued /\ Queued \cap applied = {}
  BY DEF Accounts, EveryDirectiveAccountedFor
<1>5. Head1.next > m /\ Head1.next <= spliced
  BY <1>1, <1>2, <1>3, <1>4
<1>6. m + 1 \in Queued
  <2>1. m + 1 \in 1 .. spliced /\ m + 1 \notin 1 .. m
    BY <1>2, <1>5
  <2>2. QED BY <1>4, <2>1
<1>7. \A k \in Queued : k >= Head1.next
  BY <1>1, <1>2 DEF Span
<1>8. QED BY <1>2, <1>5, <1>6, <1>7

(* A directive of the oldest batch is applied.                             *)
Applied ==
  /\ calls # <<>> /\ Head1.kind = "emit" /\ Head1.next <= Head1.hi
  /\ Verdict(staging, journal[Head1.next], FALSE) = "ok"
  /\ staging' = Effect(staging, journal[Head1.next])
  /\ applied' = applied \cup {Head1.next}
  /\ UNCHANGED <<journal, dropped>>

(* Nothing else touches staging before the end, and nothing unsays a drop. *)
LEMMA StagingChange ==
  ASSUME Base, NoEndYet, [Next]_vars
  PROVE  /\ dropped \subseteq dropped'
         /\ pc \in Early => UNCHANGED <<staging, applied>> \/ Applied
         /\ UNCHANGED journal \/ \E d \in Verbs : journal' = Append(journal, d)
<1>1. CASE Author
  BY <1>1 DEF Author, Buffer, StartRead, StartChunk, CatchRejection, Propagate, Throw, Return,
     authorVars, engineVars
<1>2. CASE Run
  BY <1>2 DEF Run, Gate, Drain, RunFlush, IssueCommit, IssueDiscard, IssueRead,
     authorVars, engineVars
<1>3. CASE Engine
  <2>1. 1 \in DOMAIN calls
    BY <1>3, EngineServes DEF Base
  <2>2. CASE Serving("commit") \/ Serving("discard")
    <3>1. pc \notin Early
      BY <2>1, <2>2 DEF NoEndYet, Serving, Head1
    <3>2. UNCHANGED journal
      BY <1>3, EngineAnswers
    <3>3. dropped \subseteq dropped'
      BY <1>3 DEF Engine, LoseRequest, Admit, RejectBatch, Apply, FinishEmit, ServeRead,
         ServeCommit, ServeDiscard, engineVars
    <3>4. QED BY <3>1, <3>2, <3>3
  <2>3. CASE ~(Serving("commit") \/ Serving("discard"))
    <3>1. UNCHANGED journal
      BY <1>3, EngineAnswers
    <3>2. CASE Apply /\ ~RejectBatch
      BY <3>1, <3>2 DEF Apply, Serving, Applied
    <3>3. CASE UNCHANGED <<staging, applied>> /\ dropped \subseteq dropped'
      BY <3>1, <3>3
    <3>4. QED BY <1>3, <2>3, <3>2, <3>3 DEF Engine, LoseRequest, Admit, RejectBatch, Apply,
             FinishEmit, ServeRead, ServeCommit, ServeDiscard, engineVars
  <2>4. QED BY <2>2, <2>3
<1>4. CASE GiveUp
  BY <1>4, GiveUpShape DEF Base, authorVars, engineVars
<1>5. CASE UNCHANGED vars
  BY <1>5 DEF vars
<1>6. QED BY <1>1, <1>2, <1>3, <1>4, <1>5 DEF Next, Finished

(* What was replayed of the journal stays so as the journal grows.         *)
LEMMA UptoKept ==
  ASSUME Base, NoEndYet, [Next]_vars, NEW m \in 0 .. Len(journal)
  PROVE  m \in 0 .. Len(journal') /\ Upto(journal', m) = Upto(journal, m)
<1>1. journal \in Seq(Verbs) /\ Len(journal) \in Nat
  BY DEF Base, TypeOK
<1>2. CASE UNCHANGED journal
  BY <1>2
<1>3. ASSUME NEW d \in Verbs, journal' = Append(journal, d)
      PROVE  m \in 0 .. Len(journal') /\ Upto(journal', m) = Upto(journal, m)
  <2>1. Len(journal') = Len(journal) + 1
    BY <1>1, <1>3
  <2>2. QED BY <1>1, <1>3, <2>1, UptoStays
<1>4. QED BY <1>2, <1>3, StagingChange

LEMMA StagedStep ==
  ASSUME Base, Accounts, NoEndYet, Staged, [Next]_vars
  PROVE  Staged'
<1> SUFFICES ASSUME pc' \in Early, dropped' = {}
             PROVE  \E m \in 0 .. Len(journal') :
                      applied' = 1 .. m /\ Upto(journal', m) = Good(staging')
  BY DEF Staged
<1>1. pc \in Early /\ dropped = {}
  BY EarlyBefore, StagingChange
<1>2. PICK m \in 0 .. Len(journal) : applied = 1 .. m /\ Upto(journal, m) = Good(staging)
  BY <1>1 DEF Staged
<1>3. CASE UNCHANGED <<staging, applied>>
  BY <1>2, <1>3, UptoKept
<1>4. CASE Applied
  <2>1. journal \in Seq(Verbs) /\ Len(journal) \in Nat /\ spliced \in 0 .. Len(journal)
    BY DEF Base, TypeOK
  <2>2. Head1.next = m + 1
    BY <1>1, <1>2, <1>4, NextInLine DEF Applied
  <2>3. m + 1 <= spliced /\ m \in Nat
    <3>1. Span(Head1) \subseteq 1 .. spliced /\ Head1.next \in Nat /\ Head1.hi \in Nat
      BY <1>4, QueuedSplit, HeadBounds DEF Applied, Base, QueueFacts
    <3>2. QED BY <1>4, <2>2, <3>1 DEF Applied, Span
  <2>4. Upto(journal, m + 1) = Then(Upto(journal, m), journal[m + 1])
    BY <2>1, <2>3, UptoNext
  <2>5. Then(Good(staging), journal[m + 1]) = Good(Effect(staging, journal[m + 1]))
    BY <1>4, <2>2 DEF Applied, Then, Good
  <2>6. applied' = 1 .. m + 1
    <3>1. 1 .. m + 1 = 1 .. m \cup {m + 1}
      BY <2>3
    <3>2. QED BY <1>2, <1>4, <2>2, <3>1 DEF Applied
  <2>7. m + 1 \in 0 .. Len(journal') /\ Upto(journal', m + 1) = Good(staging')
    BY <1>2, <1>4, <2>1, <2>2, <2>3, <2>4, <2>5 DEF Applied
  <2>8. QED BY <2>6, <2>7
<1>5. QED BY <1>1, <1>3, <1>4, StagingChange

(* Everything buffered before the read now served has been applied.        *)
LEMMA ReadIsCaughtUp ==
  ASSUME Base, Accounts, Marks, Behind, Callers, dropped = {}, NEW m \in Nat, applied = 1 .. m,
         calls # <<>>, Head1.kind = "read"
  PROVE  Head1.by \in Readers /\ mark[Head1.by] <= m
<1>1. /\ Queued = Span(Head1) \cup Rest /\ Span(Head1) = {}
      /\ \A j \in Rest : j \in Nat
  BY QueuedSplit DEF Base, QueueFacts
<1>2. calls \in Seq(Call) /\ 1 \in DOMAIN calls /\ mark \in [Readers -> Nat] /\ spliced \in Nat
  BY DEF Base, TypeOK
<1>3. PICK r : r = Head1.by
  OBVIOUS
<1>4. r \in Readers
  BY <1>2, <1>3 DEF Base, QueueFacts, CallerInv, Waits, Head1
<1>5. mark[r] <= spliced /\ mark[r] \in Nat
  BY <1>2, <1>3, <1>4 DEF Callers, Marks, Tasks, Head1
<1>6. SUFFICES ASSUME mark[r] > m PROVE FALSE
  BY <1>2, <1>3, <1>4
<1>7. m + 1 \in Queued
  <2>1. m + 1 \in 1 .. spliced /\ m + 1 \notin 1 .. m
    BY <1>2, <1>5, <1>6
  <2>2. QED BY <2>1 DEF Accounts, EveryDirectiveAccountedFor
<1>8. PICK i \in 2 .. Len(calls) : m + 1 \in Span(calls[i])
  BY <1>1, <1>7 DEF Rest
<1>9. i \in DOMAIN calls /\ 1 < i /\ calls[i] \in Call
  BY <1>2, <1>8
<1>10. calls[i].next \in Nat /\ calls[i].hi \in Nat /\ calls[i].next <= m + 1 /\ m + 1 <= calls[i].hi
  BY <1>8, <1>9 DEF Call, Span
<1>11. calls[i].kind = "emit"
  BY <1>9, <1>10 DEF Base, QueueFacts, QueueInv
<1>12. mark[r] < calls[i].next
  BY <1>2, <1>3, <1>9, <1>11 DEF Behind, Head1
<1>13. QED BY <1>5, <1>6, <1>10, <1>12

(* A read resolves with what the engine serves of its file.                *)
Served(r) ==
  /\ calls # <<>> /\ Head1.kind = "read" /\ Head1.by = r
  /\ seen'[r] = Lookup(staging, file[r])

(* What a reply to one call says to a reader.                              *)
LEMMA TellReader ==
  ASSUME Base, NEW n \in DOMAIN calls, ~calls[n].late,
         NEW outcome \in {"ok", "rejected", "faulted"}, NEW value,
         Tell(calls[n], outcome, value), NEW r \in Readers, task'[r] = "resolved"
  PROVE  \/ task[r] = "resolved" /\ seen'[r] = seen[r]
         \/ outcome = "ok" /\ calls[n].kind = "read" /\ calls[n].by = r /\ seen'[r] = value
<1>0. /\ task \in [Tasks -> TaskState] /\ seen \in [Tasks -> File] /\ r \in Tasks
      /\ calls \in Seq(Call) /\ Main \notin Tasks
  BY RunAssumption DEF Base, TypeOK, Tasks
<1>1. CASE calls[n].by = Main
  BY <1>0, <1>1 DEF Tell, MainReply
<1>2. CASE calls[n].by # Main /\ calls[n].by # r
  BY <1>0, <1>2 DEF Tell, TaskReply
<1>3. CASE calls[n].by # Main /\ calls[n].by = r
  <2>1. TaskReply(r, outcome, value)
    BY <1>3 DEF Tell
  <2>2. \/ calls[n].kind = "emit" /\ task[r] = "flushing"
        \/ calls[n].kind = "read" /\ task[r] = "reading"
    <3>1. PICK c : c = calls[n]
      OBVIOUS
    <3>2. Waits(c) /\ ~c.late /\ c.by \in Tasks /\ c.by = r
      BY <1>0, <1>3, <3>1 DEF Base, QueueFacts, CallerInv
    <3>3. \/ c.kind = "emit" /\ task[c.by] = "flushing"
          \/ c.kind = "read" /\ task[c.by] = "reading"
      BY <3>2 DEF Waits
    <3>4. QED BY <3>1, <3>2, <3>3
  <2>3. task'[r] = IF outcome # "ok" THEN outcome
                   ELSE IF task[r] = "flushing" THEN "flushed" ELSE "resolved"
    BY <1>0, <2>1 DEF TaskReply
  <2>4. seen'[r] = IF outcome = "ok" THEN value ELSE seen[r]
    BY <1>0, <2>1 DEF TaskReply
  <2>5. QED BY <1>3, <2>2, <2>3, <2>4
<1>4. QED BY <1>1, <1>2, <1>3

LEMMA Resolution ==
  ASSUME Base, [Next]_vars, NEW r \in Readers, task'[r] = "resolved"
  PROVE  (task[r] = "resolved" /\ seen'[r] = seen[r]) \/ Served(r)
<1>0. task \in [Tasks -> TaskState] /\ seen \in [Tasks -> File] /\ r \in Tasks /\ r \notin Chunks
  BY RunAssumption DEF Base, TypeOK, Tasks
<1>1. CASE Author
  BY <1>0, <1>1 DEF Author, Buffer, StartRead, StartChunk, CatchRejection, Propagate, Throw, Return
<1>2. CASE Run
  BY <1>0, <1>2 DEF Run, Gate, Drain, RunFlush, IssueCommit, IssueDiscard, IssueRead
<1>3. CASE Engine
  <2>1. 1 \in DOMAIN calls /\ calls # <<>>
    BY <1>3, EngineServes DEF Base
  <2>2. ASSUME NEW outcome \in {"ok", "rejected", "faulted"}, NEW value, Reply(outcome, value),
               outcome = "ok" /\ Head1.kind = "read" => value = Lookup(staging, file[Head1.by])
        PROVE  (task[r] = "resolved" /\ seen'[r] = seen[r]) \/ Served(r)
    <3>1. CASE Head1.late
      BY <2>2, <3>1 DEF Reply
    <3>2. CASE ~Head1.late
      <4>1. Tell(calls[1], outcome, value) /\ ~calls[1].late
        BY <2>2, <3>2 DEF Reply, Head1
      <4>2. \/ task[r] = "resolved" /\ seen'[r] = seen[r]
            \/ outcome = "ok" /\ calls[1].kind = "read" /\ calls[1].by = r /\ seen'[r] = value
        BY <2>1, <4>1, TellReader
      <4>3. QED BY <2>1, <2>2, <4>2 DEF Served, Head1
    <3>3. QED BY <3>1, <3>2
  <2>3. CASE LoseRequest
    BY <2>2, <2>3 DEF LoseRequest
  <2>4. CASE RejectBatch
    BY <2>2, <2>4 DEF RejectBatch
  <2>5. CASE UNCHANGED <<task, seen>>
    BY <2>5
  <2>6. CASE FinishEmit
    BY <2>2, <2>6 DEF FinishEmit, Serving
  <2>7. CASE ServeRead
    BY <2>2, <2>7 DEF ServeRead, Serving
  <2>8. CASE ServeCommit
    BY <2>2, <2>8 DEF ServeCommit, Serving
  <2>9. CASE ServeDiscard
    BY <2>2, <2>9 DEF ServeDiscard, Serving
  <2>10. QED
    BY <1>3, <2>3, <2>4, <2>5, <2>6, <2>7, <2>8, <2>9 DEF Engine, Admit, Apply
<1>4. CASE GiveUp
  <2>1. PICK n \in DOMAIN calls : Forsake(n)
    BY <1>4, GiveUpShape DEF Base
  <2>2. QED BY <2>1, TellReader DEF Forsake
<1>5. CASE UNCHANGED vars
  BY <1>5 DEF vars
<1>6. QED BY <1>1, <1>2, <1>3, <1>4, <1>5 DEF Next, Finished

LEMMA ReadBackStep ==
  ASSUME Base, Accounts, Reading, [Next]_vars
  PROVE  ReadBack'
<1> SUFFICES ASSUME pc' \in Early, dropped' = {}, NEW r \in Readers, task'[r] = "resolved"
             PROVE  \E k \in mark'[r] .. Len(journal') :
                      seen'[r] = Lookup(Upto(journal', k).st, file'[r])
  BY DEF ReadBack
<1>1. pc \in Early /\ dropped = {}
  BY EarlyBefore, StagingChange DEF Reading
<1>2. task[r] # "unused"
  BY ReadStarts
<1>3. mark'[r] = mark[r] /\ file'[r] = file[r] /\ mark[r] \in Nat /\ Len(journal) \in Nat
  BY <1>2, TaskForward DEF Tasks, Base, TypeOK
<1>4. SUFFICES \E k \in 0 .. Len(journal) :
                 k >= mark[r] /\ seen'[r] = Lookup(Upto(journal, k).st, file[r])
  <2>1. PICK k \in 0 .. Len(journal) :
               k >= mark[r] /\ seen'[r] = Lookup(Upto(journal, k).st, file[r])
    BY <1>4
  <2>2. k \in 0 .. Len(journal') /\ Upto(journal', k) = Upto(journal, k)
    BY UptoKept DEF Reading
  <2>3. k \in mark'[r] .. Len(journal')
    BY <1>3, <2>1, <2>2
  <2>4. QED BY <1>3, <2>1, <2>2, <2>3
<1>5. CASE task[r] = "resolved" /\ seen'[r] = seen[r]
  <2>1. PICK k \in mark[r] .. Len(journal) : seen[r] = Lookup(Upto(journal, k).st, file[r])
    BY <1>1, <1>5 DEF Reading, ReadBack
  <2>2. k \in 0 .. Len(journal) /\ k >= mark[r]
    BY <1>3
  <2>3. QED BY <1>5, <2>1, <2>2
<1>6. CASE Served(r)
  <2>1. PICK m \in 0 .. Len(journal) : applied = 1 .. m /\ Upto(journal, m) = Good(staging)
    BY <1>1 DEF Reading, Staged
  <2>2. mark[r] <= m
    BY <1>1, <1>6, <2>1, ReadIsCaughtUp DEF Served, Reading
  <2>3. seen'[r] = Lookup(Upto(journal, m).st, file[r])
    BY <1>6, <2>1 DEF Served, Good
  <2>4. QED BY <1>3, <2>2, <2>3
<1>7. QED BY <1>5, <1>6, Resolution

LEMMA ReadingStep ==
  ASSUME Base, Accounts, Reading, [Next]_vars
  PROVE  Reading'
BY NoEndYetStep, CallersStep, MarksStep, BehindStep, StagedStep, ReadBackStep DEF Reading

LEMMA InitReading == Init => Reading
<1> SUFFICES ASSUME Init PROVE Reading
  OBVIOUS
<1>1. /\ journal = <<>> /\ calls = <<>> /\ staging = EmptyStaging /\ applied = {} /\ ~landed
      /\ \A t \in Tasks : task[t] = "unused"
  BY DEF Init
<1>2. NoEndYet /\ Callers /\ Behind
  BY <1>1 DEF NoEndYet, Callers, Behind
<1>3. Marks /\ ReadBack
  BY <1>1 DEF Marks, ReadBack, Tasks
<1>4. Staged
  <2>1. 0 \in 0 .. Len(journal) /\ applied = 1 .. 0
    BY <1>1
  <2>2. Upto(journal, 0) = Good(staging)
    BY <1>1, UptoNothing
  <2>3. QED BY <2>1, <2>2 DEF Staged
<1>5. QED BY <1>2, <1>3, <1>4 DEF Reading

(* What a run keeps throughout.                                            *)
LEMMA AlwaysReading == Spec => [](Base /\ Accounts /\ Reading)
<1>1. Base /\ Accounts /\ [Next]_vars => Accounts'
  BY AccountsStep DEF Base
<1>2. Base /\ Accounts /\ Reading /\ [Next]_vars => Reading'
  BY ReadingStep
<1>3. Spec => []Base
  BY TypesAndQueue DEF Base
<1>4. QED BY <1>1, <1>2, <1>3, InitAccounts, InitReading, PTL DEF Spec

(* Read-your-own-writes, for every author, his floating promises and       *)
(* caught rejections included: a read that flushed first, then travelled,  *)
(* returns its file as some prefix of the journal leaves it, and that      *)
(* prefix holds all that was buffered before the read was called.          *)
THEOREM ReadsOwnWrites == Spec => []ReadYourOwnWrites
<1>1. ASSUME Base, ReadBack
      PROVE  ReadYourOwnWrites
  BY <1>1 DEF ReadBack, ReadYourOwnWrites, Early, Upto
<1>2. Base /\ Accounts /\ Reading => ReadYourOwnWrites
  BY <1>1 DEF Reading
<1>3. QED BY <1>2, AlwaysReading, PTL

-----------------------------------------------------------------------------
(* The run of an author who awaits and does not catch, against AtomicRun.  *)

NothingCaught == \A t \in Tasks : task[t] # "caught"

(* A commit on its way heads the queue, with nothing but reads and the     *)
(* discard behind it, and staging is the replay of the whole journal.      *)
CommitLast == CommitOnTheWay =>
  /\ ~landed /\ dropped = {}
  /\ pc \in {"committing"} \cup Failing
  /\ calls[1].kind = "commit" /\ (pc = "committing" \/ calls[1].late)
  /\ \A i \in DOMAIN calls : i # 1 => calls[i].kind \in {"read", "discard"}
  /\ Abstract!Replay(journal) = Good(staging)

Atomic == Base /\ Accounts /\ Reading /\ Completion /\ NothingCaught /\ CommitLast

LEMMA NothingCaughtStep ==
  ASSUME ~MayCatch, Base, NothingCaught, [Next]_vars
  PROVE  NothingCaught'
<1>0. task \in [Tasks -> TaskState]
  BY DEF Base, TypeOK
<1>1. CASE Author
  BY <1>0, <1>1 DEF NothingCaught, Author, Buffer, StartRead, StartChunk, CatchRejection,
     Propagate, Throw, Return
<1>2. CASE Run
  BY <1>0, <1>2 DEF NothingCaught, Run, Gate, Drain, RunFlush, IssueCommit, IssueDiscard, IssueRead
<1>3. CASE Engine \/ GiveUp
  BY <1>3, EngineAnswers DEF NothingCaught, Untold, Told, MainAnswered, TaskAnswered
<1>4. CASE UNCHANGED vars
  BY <1>4 DEF NothingCaught, vars
<1>5. QED BY <1>1, <1>2, <1>3, <1>4 DEF Next, Finished

(* Without floating promises and caught rejections the author does nothing *)
(* once fn is left.                                                        *)
LEMMA AuthorInFn ==
  ASSUME ~MayFloat, Author
  PROVE  pc = "fn"
BY DEF Author, AuthorActive, Buffer, StartRead, StartChunk, CatchRejection, Propagate, Throw, Return

(* The commit is asked for when all is applied and nobody waits.           *)
LEMMA CommitAsked ==
  ASSUME Atomic, IssueCommit
  PROVE  CommitLast'
<1>1. /\ pc = "flushed" /\ pc' = "committing" /\ calls' = Append(calls, PlainCall("commit", Main))
      /\ UNCHANGED <<journal, staging, dropped, landed>>
  BY DEF IssueCommit, authorVars, engineVars
<1>2. \A t \in Tasks : task[t] \in {"unused", "resolved"}
  BY <1>1 DEF Atomic, NothingCaught, Completion, ReadersJoined, ChunksJoined, Settled, Returned,
     Drained, Tasks
<1>3. dropped = {} /\ ~Late
  BY <1>1, <1>2 DEF Atomic, Completion, DropReported, Suspect, Broken, Failing
<1>4. calls = <<>>
  <2>1. SUFFICES ASSUME calls # <<>> PROVE FALSE
    OBVIOUS
  <2>2. 1 \in DOMAIN calls /\ ~calls[1].late
    BY <1>3, <2>1 DEF Atomic, Base, TypeOK, Late
  <2>3. QED BY <1>1, <1>2, <2>2, CallerWaits DEF Atomic, Blocked, Busy
<1>5. journal \in Seq(Verbs) /\ Len(journal) \in Nat
  BY DEF Atomic, Base, TypeOK
<1>6. applied = 1 .. Len(journal)
  <2>1. Queued = {}
    BY <1>4 DEF Queued
  <2>2. spliced = Len(journal)
    BY <1>1 DEF Atomic, Completion, AllSpliced, Flushed
  <2>3. QED BY <1>3, <2>1, <2>2 DEF Atomic, Accounts, EveryDirectiveAccountedFor
<1>7. Abstract!Replay(journal) = Good(staging)
  <2>1. PICK m \in 0 .. Len(journal) : applied = 1 .. m /\ Upto(journal, m) = Good(staging)
    BY <1>1, <1>3 DEF Atomic, Reading, Staged, Early
  <2>2. m = Len(journal)
    <3>1. SUFFICES ASSUME m < Len(journal) PROVE FALSE
      BY <1>5
    <3>2. m + 1 \in 1 .. Len(journal) /\ m + 1 \notin 1 .. m
      BY <1>5, <3>1
    <3>3. QED BY <1>6, <2>1, <3>2
  <2>3. QED BY <1>5, <2>1, <2>2, UptoAll
<1>8. ~landed
  BY <1>1 DEF Atomic, Reading, NoEndYet, Early
<1>9. DOMAIN calls' = {1} /\ calls'[1].kind = "commit"
  BY <1>1, <1>4 DEF PlainCall
<1>10. QED BY <1>1, <1>3, <1>7, <1>8, <1>9 DEF CommitLast

(* Until it is served the commit keeps its place.                          *)
LEMMA CommitStays ==
  ASSUME ~MayFloat, Atomic, CommitOnTheWay, Next, CommitOnTheWay'
  PROVE  CommitLast'
<1>1. /\ ~landed /\ dropped = {}
      /\ pc \in {"committing"} \cup Failing
      /\ calls[1].kind = "commit" /\ (pc = "committing" \/ calls[1].late)
      /\ \A i \in DOMAIN calls : i # 1 => calls[i].kind \in {"read", "discard"}
      /\ Abstract!Replay(journal) = Good(staging)
  BY DEF Atomic, CommitLast
<1>2. Base /\ TypeOK /\ calls \in Seq(Call) /\ Len(calls) \in Nat /\ DOMAIN calls = 1 .. Len(calls)
  BY DEF Atomic, Base, TypeOK
<1>3. 1 \in DOMAIN calls
  BY <1>2 DEF CommitOnTheWay
<1>4. ~Author
  BY <1>1, AuthorInFn DEF Failing
<1>5. ASSUME Engine PROVE FALSE
  <2>1. calls' = Tail(calls)
    <3>1. Head1.kind = "commit"
      BY <1>1 DEF Head1
    <3>2. QED BY <1>2, <1>5, <3>1, EngineShape DEF Reply, Working
  <2>2. \A i \in DOMAIN calls' : i + 1 \in DOMAIN calls /\ i + 1 # 1 /\ calls'[i] = calls[i + 1]
    BY <1>2, <1>3, <2>1
  <2>3. QED BY <1>1, <2>2 DEF CommitOnTheWay
<1>6. ASSUME NEW c, c.kind \in {"read", "discard"}, calls' = Append(calls, c),
             pc' = pc \/ (pc \in Failing /\ pc' \in Failing),
             UNCHANGED <<journal, staging, dropped, landed>>
      PROVE  CommitLast'
  <2>1. /\ DOMAIN calls' = 1 .. Len(calls) + 1 /\ calls'[Len(calls) + 1] = c
        /\ \A i \in 1 .. Len(calls) : calls'[i] = calls[i]
    BY <1>2, <1>6
  <2>2. calls'[1] = calls[1]
    BY <1>2, <1>3, <2>1
  <2>3. \A i \in DOMAIN calls' : i # 1 => calls'[i].kind \in {"read", "discard"}
    BY <1>1, <1>2, <1>6, <2>1
  <2>4. pc' \in {"committing"} \cup Failing /\ (pc' = "committing" \/ calls'[1].late)
    BY <1>1, <1>6, <2>2 DEF Failing
  <2>5. QED BY <1>1, <1>6, <2>2, <2>3, <2>4 DEF CommitLast
<1>7. CASE Run
  <2>1. CASE IssueDiscard
    <3>1. PICK c : c = PlainCall("discard", Main)
      OBVIOUS
    <3>2. QED BY <1>6, <2>1, <3>1 DEF IssueDiscard, PlainCall, Failing, authorVars, engineVars
  <2>2. ASSUME NEW r \in Readers, IssueRead(r) PROVE CommitLast'
    <3>1. PICK c : c = PlainCall("read", r)
      OBVIOUS
    <3>2. c.kind \in {"read", "discard"} /\ calls' = Append(calls, c)
      BY <2>2, <3>1 DEF IssueRead, PlainCall
    <3>3. pc' = pc /\ UNCHANGED <<journal, staging, dropped, landed>>
      BY <2>2 DEF IssueRead, authorVars, engineVars
    <3>4. QED BY <1>6, <3>2, <3>3
  <2>3. ~(Gate \/ Drain \/ RunFlush \/ IssueCommit)
    BY <1>1 DEF Gate, Drain, RunFlush, IssueCommit, Failing
  <2>4. QED BY <1>7, <2>1, <2>2, <2>3 DEF Run
<1>8. CASE GiveUp
  <2>1. PICK n \in DOMAIN calls : Forsake(n)
    BY <1>2, <1>8, GiveUpShape
  <2>2. UNCHANGED <<journal, staging, dropped, landed>>
    BY <1>2, <1>8, GiveUpShape DEF authorVars, engineVars
  <2>3. /\ DOMAIN calls' = DOMAIN calls
        /\ \A i \in DOMAIN calls : i # n => calls'[i] = calls[i]
        /\ calls'[n] = [calls[n] EXCEPT !.late = TRUE]
        /\ calls[n] \in Call
    BY <1>2, <2>1, ForsakeCalls
  <2>4. calls'[n].late /\ calls'[n].kind = calls[n].kind
    BY <2>3 DEF Call
  <2>5. \A i \in DOMAIN calls : calls'[i].kind = calls[i].kind
    BY <2>3, <2>4
  <2>6. pc' = pc \/ (calls[n].by = Main /\ pc' \in Failing)
    <3>1. Tell(calls[n], "faulted", None)
      BY <2>1 DEF Forsake
    <3>2. calls[n].by # Main => pc' = pc
      BY <1>2, <3>1, TellFrame
    <3>3. calls[n].by = Main => pc' \in Failing
      BY <3>1 DEF Tell, MainReply, Fail, Failing
    <3>4. QED BY <3>2, <3>3
  <2>7. calls[n].by = Main /\ pc = "committing" => n = 1
    <3>1. Waits(calls[n]) /\ ~calls[n].late
      BY <2>1 DEF Forsake, Atomic, Base, QueueFacts, CallerInv
    <3>2. calls[n].by = Main /\ pc = "committing" => calls[n].kind = "commit"
      BY <3>1 DEF Waits
    <3>3. QED BY <1>1, <3>2
  <2>8. pc' = "committing" \/ calls'[1].late
    BY <1>1, <1>3, <2>3, <2>4, <2>6, <2>7
  <2>9. calls'[1].kind = "commit" /\ pc' \in {"committing"} \cup Failing
    BY <1>1, <1>3, <2>5, <2>6
  <2>10. QED BY <1>1, <2>2, <2>3, <2>5, <2>8, <2>9 DEF CommitLast
<1>9. CASE UNCHANGED vars
  BY <1>1, <1>9 DEF vars, CommitLast
<1>10. QED BY <1>4, <1>5, <1>7, <1>8, <1>9 DEF Next, Finished

(* Only IssueCommit sets a commit on its way.                              *)
LEMMA CommitSetOff ==
  ASSUME Base, [Next]_vars, ~CommitOnTheWay, CommitOnTheWay'
  PROVE  IssueCommit
<1>1. PICK s \in {0, 1} : \A i \in DOMAIN calls' :
        \/ i + s \in DOMAIN calls /\ Kept(calls'[i], calls[i + s])
        \/ s = 0 /\ i = Len(calls) + 1 /\ Fresh(calls'[i])
  BY StepMoves DEF Moved
<1>2. PICK i \in DOMAIN calls' : calls'[i].kind = "commit"
  BY DEF CommitOnTheWay
<1>3. Fresh(calls'[i])
  BY <1>1, <1>2 DEF Kept, CommitOnTheWay
<1>4. pc = "flushed" /\ pc' \notin Early
  BY <1>2, <1>3 DEF Fresh
<1>5. ~(Engine \/ GiveUp)
  BY <1>4, EngineAnswers DEF Untold, Told, MainAnswered, TaskAnswered, Blocked, Early
<1>6. ~UNCHANGED vars
  BY <1>4 DEF vars, Early
<1>7. ~Author
  BY <1>4 DEF Author, Buffer, StartRead, StartChunk, CatchRejection, Propagate, Throw, Return, Early
<1>8. Run
  BY <1>5, <1>6, <1>7 DEF Next, Finished
<1>9. QED BY <1>4, <1>8 DEF Run, Gate, Drain, RunFlush, IssueDiscard, IssueRead, Early

LEMMA AtomicStep ==
  ASSUME ~MayFloat, ~MayCatch, Atomic, [Next]_vars
  PROVE  Atomic'
<1>1. Base'
  BY QueueStep DEF Atomic, Base
<1>2. Accounts'
  BY AccountsStep DEF Atomic, Base
<1>3. Reading' /\ Completion' /\ NothingCaught'
  BY ReadingStep, CompletionStep, NothingCaughtStep DEF Atomic
<1>4. CommitLast'
  <2>1. CASE UNCHANGED vars
    BY <2>1 DEF Atomic, CommitLast, CommitOnTheWay, vars
  <2>2. CASE Next /\ CommitOnTheWay'
    BY <2>2, CommitAsked, CommitStays, CommitSetOff DEF Atomic
  <2>3. QED BY <2>1, <2>2 DEF CommitLast
<1>5. QED BY <1>1, <1>2, <1>3, <1>4 DEF Atomic

Ended == Failing \cup {"refused"}

(* The outcome AtomicRun sees.                                             *)
Outcome == IF landed THEN "committed"
           ELSE IF pc \in Ended /\ ~CommitOnTheWay THEN "aborted"
           ELSE "running"

(* A run that has ended does not go on.                                    *)
LEMMA EndedStays ==
  ASSUME ~MayFloat, Base, [Next]_vars, pc \in Ended
  PROVE  pc' \in Ended
<1>1. ~Author
  BY AuthorInFn DEF Ended, Failing
<1>2. CASE Run
  BY <1>2 DEF Run, Gate, Drain, RunFlush, IssueCommit, IssueDiscard, IssueRead, Ended, Failing
<1>3. CASE Engine \/ GiveUp
  BY <1>3, EngineAnswers DEF Untold, Told, MainAnswered, TaskAnswered, Ended, Failing
<1>4. CASE UNCHANGED vars
  BY <1>4 DEF vars
<1>5. QED BY <1>1, <1>2, <1>3, <1>4 DEF Next, Finished

LEMMA OnlyCommitLands ==
  ASSUME Base, [Next]_vars, ~ServeCommit
  PROVE  UNCHANGED <<landed, committed>>
<1>1. CASE Author
  BY <1>1 DEF Author, Buffer, StartRead, StartChunk, CatchRejection, Propagate, Throw, Return, engineVars
<1>2. CASE Run
  BY <1>2 DEF Run, Gate, Drain, RunFlush, IssueCommit, IssueDiscard, IssueRead, engineVars
<1>3. CASE Engine
  BY <1>3 DEF Engine, LoseRequest, Admit, RejectBatch, Apply, FinishEmit, ServeRead, ServeDiscard,
     engineVars
<1>4. CASE GiveUp
  BY <1>4, GiveUpShape DEF Base, engineVars
<1>5. CASE UNCHANGED vars
  BY <1>5 DEF vars
<1>6. QED BY <1>1, <1>2, <1>3, <1>4, <1>5 DEF Next, Finished

(* Short of the commit itself, a run only ever changes from running to     *)
(* aborted.                                                                *)
LEMMA OutcomeStep ==
  ASSUME ~MayFloat, Base, [Next]_vars, ~ServeCommit
  PROVE  Outcome' = Outcome \/ (Outcome = "running" /\ Outcome' = "aborted")
<1>1. UNCHANGED landed
  BY OnlyCommitLands
<1>2. CASE landed
  BY <1>1, <1>2 DEF Outcome
<1>3. CASE ~landed /\ pc \in Ended /\ ~CommitOnTheWay
  <2>1. pc' \in Ended
    BY <1>3, EndedStays
  <2>2. ~IssueCommit
    BY <1>3 DEF IssueCommit, Ended, Failing
  <2>3. ~CommitOnTheWay'
    BY <1>3, <2>2, CommitSetOff
  <2>4. QED BY <1>1, <1>3, <2>1, <2>3 DEF Outcome
<1>4. CASE ~landed /\ ~(pc \in Ended /\ ~CommitOnTheWay)
  <2>1. Outcome = "running"
    BY <1>4 DEF Outcome
  <2>2. Outcome' \in {"running", "aborted"}
    BY <1>1, <1>4 DEF Outcome
  <2>3. QED BY <2>1, <2>2
<1>5. QED BY <1>2, <1>3, <1>4

LEMMA AtomicImplements ==
  ASSUME ~MayFloat, Atomic, [Next]_vars
  PROVE  [Abstract!ABuffer \/ Abstract!ACommit \/ Abstract!AAbort]_(Abstract!avars)
<1> DEFINE Goal == [Abstract!ABuffer \/ Abstract!ACommit \/ Abstract!AAbort]_(Abstract!avars)
<1>0. Base
  BY DEF Atomic
<1>1. ASSUME Outcome = "running", Outcome' = "running", UNCHANGED committed,
             NEW d \in Verbs, journal' = Append(journal, d)
      PROVE  Goal
  BY <1>1 DEF Outcome, Ended, Failing, Abstract!ABuffer
<1>2. ASSUME Outcome = "running", Outcome' = "aborted", UNCHANGED <<journal, committed>>
      PROVE  Goal
  BY <1>2 DEF Outcome, Ended, Failing, Abstract!AAbort
<1>3. ASSUME Outcome' = Outcome, UNCHANGED <<journal, committed>>
      PROVE  Goal
  BY <1>3 DEF Outcome, Ended, Failing, Abstract!avars
<1>4. ASSUME Outcome = "running", Outcome' = "committed", UNCHANGED journal,
             Abstract!Replay(journal).ok,
             committed' = Promote(committed, Abstract!Replay(journal).st)
      PROVE  Goal
  BY <1>4 DEF Outcome, Ended, Failing, Abstract!ACommit, Abstract!Promote, Promote, Path, Abstract!Path
<1>5. CASE ServeCommit
  <2>1. CommitOnTheWay
    <3>1. 1 \in DOMAIN calls /\ Head1.kind = "commit"
      BY <1>0, <1>5, EngineServes DEF Engine, Base, ServeCommit, Serving
    <3>2. QED BY <3>1 DEF CommitOnTheWay, Head1
  <2>2. ~landed /\ Abstract!Replay(journal) = Good(staging)
    BY <2>1 DEF Atomic, CommitLast
  <2>3. landed' /\ committed' = Promote(committed, staging) /\ UNCHANGED journal
    BY <1>5 DEF ServeCommit, Reply, authorVars
  <2>4. Outcome = "running" /\ Outcome' = "committed"
    BY <2>1, <2>2, <2>3 DEF Outcome
  <2>5. Abstract!Replay(journal).ok /\ Abstract!Replay(journal).st = staging
    BY <2>2 DEF Good
  <2>6. QED BY <1>4, <2>3, <2>4, <2>5
<1>6. ASSUME ~ServeCommit, UNCHANGED journal
      PROVE  Goal
  BY <1>0, <1>2, <1>3, <1>6, OutcomeStep, OnlyCommitLands
<1>7. ASSUME ~ServeCommit, NEW d \in Verbs, journal' = Append(journal, d), journal' # journal
      PROVE  Goal
  <2>1. Author
    <3>1. ~(Engine \/ GiveUp)
      BY <1>0, <1>7, EngineAnswers
    <3>2. ~Run
      BY <1>7 DEF Run, Gate, Drain, RunFlush, IssueCommit, IssueDiscard, IssueRead, authorVars
    <3>3. QED BY <1>7, <3>1, <3>2 DEF Next, Finished, vars
  <2>2. \E e \in Verbs : Buffer(e)
    BY <1>7, <2>1 DEF Author, StartRead, StartChunk, CatchRejection, Propagate, Throw, Return, authorVars
  <2>3. pc = "fn" /\ pc' = "fn"
    BY <2>1, <2>2, AuthorInFn DEF Buffer
  <2>4. ~landed
    BY <2>3 DEF Atomic, Reading, NoEndYet, Early
  <2>5. UNCHANGED <<landed, committed>>
    BY <1>0, <1>7, OnlyCommitLands
  <2>6. Outcome = "running" /\ Outcome' = "running"
    BY <2>3, <2>4, <2>5 DEF Outcome, Ended, Failing
  <2>7. QED BY <1>1, <1>7, <2>5, <2>6
<1>8. CASE UNCHANGED journal
  BY <1>5, <1>6, <1>8
<1>9. CASE journal' # journal
  <2>1. \E d \in Verbs : journal' = Append(journal, d)
    BY <1>0, <1>9, StagingChange DEF Atomic, Reading
  <2>2. QED BY <1>5, <1>7, <1>9, <2>1
<1>10. QED BY <1>8, <1>9

(* The run of an author who awaits his reads and catches no rejection is   *)
(* atomic: his directives reach the disk all together and in his order, or *)
(* not at all, whatever the transport loses and however late the engine    *)
(* carries out a commit that defineFactory has given up.                   *)
THEOREM RunsAreAtomic == ~MayFloat /\ ~MayCatch /\ Spec => ImplementsAtomicRun
<1> SUFFICES ASSUME ~MayFloat, ~MayCatch PROVE Spec => ImplementsAtomicRun
  OBVIOUS
<1>1. Init => Atomic
  <2>1. Init => Completion
    BY DEF Init, Completion, ReadersJoined, ChunksJoined, ChunksRegistered, AllSpliced,
       ChunkStates, DropReported, Suspect, Late, Returned, Drained, Flushed, Tasks
  <2>2. Init => NothingCaught /\ CommitLast
    BY DEF Init, NothingCaught, CommitLast, CommitOnTheWay
  <2>3. Init => Base
    <3>1. Init => QueueFacts
      BY DEF Init, QueueFacts, QueueInv, CallerInv
    <3>2. QED BY <3>1, InitTypes DEF Base
  <2>4. QED BY <2>1, <2>2, <2>3, InitAccounts, InitReading DEF Atomic
<1>2. Atomic /\ [Next]_vars => Atomic'
  BY AtomicStep
<1>3. Init => Abstract!AInit
  BY DEF Init, Abstract!AInit, CommitOnTheWay, NothingCommitted, Abstract!NothingCommitted, Path,
     Abstract!Path
<1>4. Atomic /\ [Next]_vars => [Abstract!ABuffer \/ Abstract!ACommit \/ Abstract!AAbort]_(Abstract!avars)
  BY AtomicImplements
<1>5. QED BY <1>1, <1>2, <1>3, <1>4, PTL DEF Spec, ImplementsAtomicRun, Abstract!ASpec
==============================================================================
