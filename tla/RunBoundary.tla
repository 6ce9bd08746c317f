------------------------------ MODULE RunBoundary ------------------------------
(***************************************************************************)
(* One run of an author factory: defineFactory (src/core/context.ts), the  *)
(* Session that buffers its directives (src/core/session.ts), the registry *)
(* of promises joined at the run boundary, and the engine behind the       *)
(* EngineClient port (EngineStaging).                                      *)
(*                                                                         *)
(* The author's code is a nondeterministic client: it buffers directives,  *)
(* reads files (every read flushes first), calls scaffold, whose chunked   *)
(* flushes are never awaited but are registered, and returns or throws.    *)
(* Two constants say what else it does.  MayCatch: it may catch the        *)
(* rejection of a read and go on.  MayFloat: it may leave promises         *)
(* unawaited, so that other steps overtake them and its own code goes on   *)
(* after fn has settled.                                                   *)
(*                                                                         *)
(* The engine serves client calls in the order they were made: the fake    *)
(* serves at once and StdioEngineClient chains its dispatches.  A caller   *)
(* may give up before its call is served; the call is then late: it may    *)
(* still reach the engine, ahead of every later call, and nobody hears.    *)
(*                                                                         *)
(* Directives are numbered by the order in which the author buffered them: *)
(* journal is everything ever buffered, the session's #pending array is    *)
(* its part after position spliced, and a batch is a range of positions.   *)
(***************************************************************************)
EXTENDS EngineStaging, Sequences

CONSTANTS
  Verbs,        \* the directives the author may buffer
  Readers,      \* one identifier per read() the author may make
  Chunks,       \* one identifier per chunk flush scaffold may fire
  Main,         \* defineFactory itself, as the caller of a client call
  BatchBudget,  \* the most directives a batch can hold (each weighs one)
  MaxJournal,   \* bound: directives buffered in a run
  MaxFaults,    \* bound: calls that fail in the transport in a run
  MayCatch,     \* the author may catch a rejected read and go on
  MayFloat      \* the author may leave its promises unawaited

ASSUME RunAssumption ==
  /\ Path # {}
  /\ Verbs \subseteq Directive
  /\ Readers \cap Chunks = {}
  /\ Main \notin Readers \cup Chunks
  /\ BatchBudget \in Nat \ {0}
  /\ MaxJournal \in Nat
  /\ MaxFaults \in Nat
  /\ MayCatch \in BOOLEAN
  /\ MayFloat \in BOOLEAN

VARIABLES
  pc,         \* where defineFactory stands
  error,      \* what the run fails with, or NoError
  cause,      \* whether a failed discard was attached to that error
  journal,    \* every directive buffered so far, in author order
  spliced,    \* how many of them flushes have taken out of #pending
  task,       \* the state of each read and chunk flush
  file,       \* the path each read asks for
  mark,       \* the length of the journal when each read was called
  seen,       \* what each resolved read returned
  registry,   \* the chunk flushes registered since the last drain
  joined,     \* the chunk flushes the drain waits for
  calls,      \* client calls not served yet, the oldest first
  staging,    \* the engine's staging record
  committed,  \* the engine's committed tree
  faults,     \* calls that failed in the transport so far
  applied,    \* history: the positions the engine has applied
  dropped,    \* history: the positions of batches cut short or lost
  landed      \* history: whether a commit took effect

authorVars == <<journal, file, mark, registry>>
engineVars == <<staging, committed, applied, dropped, landed>>
vars == <<pc, error, cause, journal, spliced, task, file, mark, seen, registry,
          joined, calls, staging, committed, faults, applied, dropped, landed>>

Tasks == Readers \cup Chunks
NoError == [by |-> Main, class |-> "none", at |-> "none"]

Over == {"ok", "failed", "refused"}
PC == Over \cup {"gate", "fn", "drain", "flush", "flushing", "flushed",
                 "committing", "failing", "discarding"}

TaskState == {"unused", "flushing", "flushed", "reading", "resolved",
              "rejected", "faulted", "caught"}
Broken(t) == task[t] \in {"rejected", "faulted"}

Call == [kind: {"emit", "read", "commit", "discard"}, by: Tasks \cup {Main},
         next: Nat, hi: Nat, admitted: BOOLEAN, late: BOOLEAN]

-----------------------------------------------------------------------------
(* Session.                                                                *)

HasPending == spliced < Len(journal)

PlainCall(kind, by) ==
  [kind |-> kind, by |-> by, next |-> 1, hi |-> 0, admitted |-> TRUE, late |-> FALSE]

Batch(by) == [kind |-> "emit", by |-> by, next |-> spliced + 1, hi |-> Len(journal),
              admitted |-> FALSE, late |-> FALSE]

(* Slips in Splice, each noticed by a property: the buffer is copied and   *)
(* not emptied; the cursor ends one too far; a batch overtakes the queue.  *)
SpliceCopies(by) ==
  /\ calls' = Append(calls, Batch(by))
  /\ UNCHANGED spliced

SpliceOffByOne(by) ==
  /\ calls' = Append(calls, Batch(by))
  /\ spliced' = Len(journal) + 1

SpliceOvertakes(by) ==
  /\ calls' = <<Batch(by)>> \o calls
  /\ spliced' = Len(journal)

(* flush() with something pending: #pending.splice(0) becomes the batch.   *)
Splice(by) ==
  /\ calls' = Append(calls, Batch(by))
  /\ spliced' = Len(journal)

-----------------------------------------------------------------------------
(* The author's code.                                                      *)

(* Code of the author runs until fn settles; code it left floating may run *)
(* on in the same asynchronous context at any later time.                  *)
AuthorActive ==
  \/ pc = "fn"
  \/ MayFloat /\ pc \notin {"gate", "refused"}

(* An author who awaits every read does nothing else meanwhile, and cannot *)
(* step over a rejection.                                                  *)
Attentive ==
  MayFloat \/ \A r \in Readers : task[r] \in {"unused", "resolved", "caught"}

Buffer(d) ==
  /\ AuthorActive /\ Attentive
  /\ Len(journal) < MaxJournal
  /\ journal' = Append(journal, d)
  /\ UNCHANGED <<pc, error, cause, spliced, task, file, mark, seen, registry,
                 joined, calls, faults, engineVars>>

(* A slip: read() does not flush.                                          *)
StartReadUnflushed(r, p) ==
  /\ AuthorActive /\ Attentive
  /\ task[r] = "unused"
  /\ file' = [file EXCEPT ![r] = p]
  /\ mark' = [mark EXCEPT ![r] = Len(journal)]
  /\ task' = [task EXCEPT ![r] = "flushed"]
  /\ UNCHANGED <<pc, error, cause, journal, spliced, seen, registry, joined, calls,
                 faults, engineVars>>

(* read(): the flush comes first; with nothing pending it is no call.      *)
StartRead(r, p) ==
  /\ AuthorActive /\ Attentive
  /\ task[r] = "unused"
  /\ file' = [file EXCEPT ![r] = p]
  /\ mark' = [mark EXCEPT ![r] = Len(journal)]
  /\ \/ /\ HasPending
        /\ Splice(r)
        /\ task' = [task EXCEPT ![r] = "flushing"]
     \/ /\ ~HasPending
        /\ task' = [task EXCEPT ![r] = "flushed"]
        /\ UNCHANGED <<calls, spliced>>
  /\ UNCHANGED <<pc, error, cause, journal, seen, registry, joined, faults, engineVars>>

(* The continuation of read() after its flush.                             *)
IssueRead(r) ==
  /\ task[r] = "flushed"
  /\ task' = [task EXCEPT ![r] = "reading"]
  /\ calls' = Append(calls, PlainCall("read", r))
  /\ UNCHANGED <<pc, error, cause, spliced, seen, joined, faults, authorVars, engineVars>>

(* scaffold() fires a flush between two groups and registers its promise.  *)
StartChunk(c) ==
  /\ AuthorActive /\ Attentive
  /\ task[c] = "unused"
  /\ HasPending
  /\ Splice(c)
  /\ task' = [task EXCEPT ![c] = "flushing"]
  /\ registry' = Append(registry, c)
  /\ UNCHANGED <<pc, error, cause, journal, file, mark, seen, joined, faults, engineVars>>

CatchRejection(r) ==
  /\ MayCatch
  /\ pc = "fn" /\ Broken(r)
  /\ task' = [task EXCEPT ![r] = "caught"]
  /\ UNCHANGED <<pc, error, cause, spliced, seen, joined, calls, faults, authorVars, engineVars>>

Fail(by, class) ==
  /\ error' = [by |-> by, class |-> class, at |-> pc]
  /\ pc' = "failing"

(* A rejected read that the author awaits and does not catch rejects fn.   *)
Propagate(r) ==
  /\ pc = "fn" /\ Broken(r)
  /\ Fail(r, task[r])
  /\ UNCHANGED <<cause, spliced, task, seen, joined, calls, faults, authorVars, engineVars>>

Throw ==
  /\ pc = "fn" /\ Attentive
  /\ Fail(Main, "author")
  /\ UNCHANGED <<cause, spliced, task, seen, joined, calls, faults, authorVars, engineVars>>

-----------------------------------------------------------------------------
(* defineFactory.                                                          *)

(* The reserved-name and schema checks run before there is a session.      *)
Gate ==
  /\ pc = "gate"
  /\ \/ pc' = "fn" /\ UNCHANGED error
     \/ pc' = "refused" /\ error' = [by |-> Main, class |-> "author", at |-> pc]
  /\ UNCHANGED <<cause, spliced, task, seen, joined, calls, faults, authorVars, engineVars>>

(* A slip: the run does not join the registered flushes.                   *)
ReturnUnjoined ==
  /\ pc = "fn" /\ Attentive
  /\ pc' = "flush"
  /\ UNCHANGED <<error, cause, spliced, task, seen, joined, calls, faults, authorVars, engineVars>>

(* fn resolves, and drain() takes the registered handles.                  *)
Return ==
  /\ pc = "fn" /\ Attentive
  /\ pc' = "drain"
  /\ joined' = registry
  /\ registry' = <<>>
  /\ UNCHANGED <<error, cause, journal, spliced, task, file, mark, seen, calls,
                 faults, engineVars>>

(* Slips in Drain: the rejections are not rethrown; only success is        *)
(* waited for.                                                             *)
DrainSwallows ==
  /\ pc = "drain"
  /\ \A i \in DOMAIN joined : task[joined[i]] # "flushing"
  /\ pc' = "flush"
  /\ UNCHANGED <<error, cause, spliced, task, seen, joined, calls, faults, authorVars, engineVars>>

DrainAwaitsSuccess ==
  /\ pc = "drain"
  /\ \A i \in DOMAIN joined : task[joined[i]] = "resolved"
  /\ pc' = "flush"
  /\ UNCHANGED <<error, cause, spliced, task, seen, joined, calls, faults, authorVars, engineVars>>

(* Promise.allSettled: every handle has settled; the first that rejected,  *)
(* in registration order, is rethrown.                                     *)
Drain ==
  LET broken == {i \in DOMAIN joined : Broken(joined[i])}
  IN /\ pc = "drain"
     /\ \A i \in DOMAIN joined : task[joined[i]] # "flushing"
     /\ \/ /\ broken = {}
           /\ pc' = "flush"
           /\ UNCHANGED error
        \/ \E i \in broken :
             /\ \A j \in broken : i <= j
             /\ Fail(joined[i], task[joined[i]])
     /\ UNCHANGED <<cause, spliced, task, seen, joined, calls, faults, authorVars, engineVars>>

(* The run-end flush.                                                      *)
RunFlush ==
  /\ pc = "flush"
  /\ \/ /\ HasPending
        /\ Splice(Main)
        /\ pc' = "flushing"
     \/ /\ ~HasPending
        /\ pc' = "flushed"
        /\ UNCHANGED <<calls, spliced>>
  /\ UNCHANGED <<error, cause, task, seen, joined, faults, authorVars, engineVars>>

IssueCommit ==
  /\ pc = "flushed"
  /\ pc' = "committing"
  /\ calls' = Append(calls, PlainCall("commit", Main))
  /\ UNCHANGED <<error, cause, spliced, task, seen, joined, faults, authorVars, engineVars>>

(* A slip: the failing path ends in a commit, as a `finally` would.        *)
IssueDiscardCommits ==
  /\ pc = "failing"
  /\ pc' = "discarding"
  /\ calls' = Append(calls, PlainCall("commit", Main))
  /\ UNCHANGED <<error, cause, spliced, task, seen, joined, faults, authorVars, engineVars>>

IssueDiscard ==
  /\ pc = "failing"
  /\ pc' = "discarding"
  /\ calls' = Append(calls, PlainCall("discard", Main))
  /\ UNCHANGED <<error, cause, spliced, task, seen, joined, faults, authorVars, engineVars>>

-----------------------------------------------------------------------------
(* Replies.                                                                *)

Head1 == calls[1]
Serving(kind) == calls # <<>> /\ Head1.kind = kind

Fault == faults < MaxFaults /\ faults' = faults + 1

(* A reply may be lost: the caller then sees a transport fault, although   *)
(* the engine did what it was asked.                                       *)
Delivered(reply, seenByCaller) ==
  \/ seenByCaller = reply /\ UNCHANGED faults
  \/ seenByCaller = "faulted" /\ ~Head1.late /\ Fault

(* A slip: the failure of the discard replaces the run's own error.        *)
MainReplyReplaces(outcome) ==
  /\ CASE outcome = "ok" /\ pc = "flushing"   -> pc' = "flushed" /\ UNCHANGED error
       [] outcome = "ok" /\ pc = "committing" -> pc' = "ok" /\ UNCHANGED error
       [] outcome = "ok" /\ pc = "discarding" -> pc' = "failed" /\ UNCHANGED error
       [] OTHER -> /\ error' = [by |-> Main, class |-> outcome, at |-> pc]
                   /\ pc' = IF pc = "discarding" THEN "failed" ELSE "failing"
  /\ UNCHANGED <<cause, task, seen>>

(* How defineFactory goes on: a failed flush or commit leads to discard,   *)
(* and a failed discard never replaces the error that led there.           *)
MainReply(outcome) ==
  /\ CASE outcome = "ok" /\ pc = "flushing"   -> pc' = "flushed" /\ UNCHANGED <<error, cause>>
       [] outcome = "ok" /\ pc = "committing" -> pc' = "ok" /\ UNCHANGED <<error, cause>>
       [] pc = "discarding"                   -> /\ pc' = "failed"
                                                 /\ cause' = (outcome # "ok")
                                                 /\ UNCHANGED error
       [] OTHER                               -> Fail(Main, outcome) /\ UNCHANGED cause
  /\ UNCHANGED <<task, seen>>

TaskReply(t, outcome, value) ==
  /\ task' = [task EXCEPT ![t] =
                IF outcome # "ok" THEN outcome
                ELSE IF t \in Readers /\ @ = "flushing" THEN "flushed" ELSE "resolved"]
  /\ seen' = [seen EXCEPT ![t] = IF outcome = "ok" THEN value ELSE @]
  /\ UNCHANGED <<pc, error, cause>>

Tell(c, outcome, value) ==
  IF c.by = Main THEN MainReply(outcome) ELSE TaskReply(c.by, outcome, value)

(* The oldest call is served; a late one is answered to nobody.            *)
Reply(outcome, value) ==
  /\ calls' = Tail(calls)
  /\ IF Head1.late THEN UNCHANGED <<pc, error, cause, task, seen>>
     ELSE Tell(Head1, outcome, value)
  /\ UNCHANGED <<spliced, joined, authorVars>>

(* The timer of the call on the wire fires before it is served.            *)
GiveUp ==
  \E i \in DOMAIN calls :
    /\ ~calls[i].late /\ \A j \in 1 .. i - 1 : calls[j].late
    /\ Fault
    /\ calls' = [calls EXCEPT ![i].late = TRUE]
    /\ Tell(calls[i], "faulted", None)
    /\ UNCHANGED <<spliced, joined, authorVars, engineVars>>

(* The request is lost on the way, or fails before the engine touches it.  *)
LoseRequest ==
  /\ calls # <<>>
  /\ Head1.kind = "emit" => ~Head1.admitted
  /\ IF Head1.late THEN UNCHANGED faults ELSE Fault
  /\ Reply("faulted", None)
  /\ dropped' = dropped \cup Head1.next .. Head1.hi
  /\ UNCHANGED <<staging, committed, applied, landed>>

-----------------------------------------------------------------------------
(* The engine.                                                             *)

(* Checks on a whole batch, before any directive of it is applied.         *)
Acceptable(batch) ==
  /\ batch.hi - batch.next < BatchBudget
  /\ \A i \in batch.next .. batch.hi : Representable(journal[i])

RejectBatch ==
  /\ dropped' = dropped \cup Head1.next .. Head1.hi
  /\ \E outcome \in {"rejected", "faulted"} :
       Delivered("rejected", outcome) /\ Reply(outcome, None)
  /\ UNCHANGED <<staging, committed, applied, landed>>

Admit ==
  /\ Serving("emit") /\ ~Head1.admitted
  /\ \/ /\ Acceptable(Head1)
        /\ calls' = [calls EXCEPT ![1].admitted = TRUE]
        /\ UNCHANGED <<pc, error, cause, spliced, task, seen, joined, faults,
                       authorVars, engineVars>>
     \/ /\ ~Acceptable(Head1)
        /\ RejectBatch

(* One directive of the batch is applied; the session sends force: false.  *)
Apply ==
  /\ Serving("emit") /\ Head1.admitted /\ Head1.next <= Head1.hi
  /\ LET d == journal[Head1.next]
     IN \/ /\ Verdict(staging, d, FALSE) = "ok"
           /\ staging' = Effect(staging, d)
           /\ applied' = applied \cup {Head1.next}
           /\ calls' = [calls EXCEPT ![1].next = @ + 1]
           /\ UNCHANGED <<pc, error, cause, spliced, task, seen, joined, faults,
                          authorVars, committed, dropped, landed>>
        \/ /\ Verdict(staging, d, FALSE) # "ok"
           /\ RejectBatch

FinishEmit ==
  /\ Serving("emit") /\ Head1.admitted /\ Head1.next > Head1.hi
  /\ \E outcome \in {"ok", "faulted"} : Delivered("ok", outcome) /\ Reply(outcome, None)
  /\ UNCHANGED engineVars

ServeRead ==
  /\ Serving("read")
  /\ \E outcome \in {"ok", "faulted"} :
       /\ Delivered("ok", outcome)
       /\ Reply(outcome, Lookup(staging, file[Head1.by]))
  /\ UNCHANGED engineVars

ServeCommit ==
  /\ Serving("commit")
  /\ committed' = Promote(committed, staging)
  /\ staging' = EmptyStaging
  /\ \E outcome \in {"ok", "faulted"} : Delivered("ok", outcome) /\ Reply(outcome, None)
  /\ landed' = TRUE
  /\ UNCHANGED <<applied, dropped>>

ServeDiscard ==
  /\ Serving("discard")
  /\ staging' = EmptyStaging
  /\ \E outcome \in {"ok", "faulted"} : Delivered("ok", outcome) /\ Reply(outcome, None)
  /\ UNCHANGED <<committed, applied, dropped, landed>>

-----------------------------------------------------------------------------
Init ==
  /\ pc = "gate" /\ error = NoError /\ cause = FALSE
  /\ journal = <<>> /\ spliced = 0
  /\ task = [t \in Tasks |-> "unused"]
  /\ file = [r \in Readers |-> CHOOSE p \in Path : TRUE]
  /\ mark = [r \in Readers |-> 0]
  /\ seen = [t \in Tasks |-> None]
  /\ registry = <<>> /\ joined = <<>> /\ calls = <<>>
  /\ staging = EmptyStaging /\ committed = NothingCommitted
  /\ faults = 0 /\ applied = {} /\ dropped = {} /\ landed = FALSE

Author ==
  \/ \E d \in Verbs : Buffer(d)
  \/ \E r \in Readers, p \in Path : StartRead(r, p)
  \/ \E c \in Chunks : StartChunk(c)
  \/ \E r \in Readers : CatchRejection(r) \/ Propagate(r)
  \/ Throw
  \/ Return

Run ==
  \/ Gate
  \/ Drain
  \/ RunFlush
  \/ IssueCommit
  \/ IssueDiscard
  \/ \E r \in Readers : IssueRead(r)

Engine ==
  \/ LoseRequest
  \/ Admit
  \/ Apply
  \/ FinishEmit
  \/ ServeRead
  \/ ServeCommit
  \/ ServeDiscard

Finished ==
  /\ pc \in Over /\ calls = <<>>
  /\ \A r \in Readers : task[r] # "flushed"
  /\ UNCHANGED vars

Next == Author \/ Run \/ Engine \/ GiveUp \/ Finished

(* The event loop runs every continuation that is ready, and every client  *)
(* call is answered (by the fake at once, by the transport within its      *)
(* timeout).  The author's own code is under no obligation to go on.       *)
Fairness == WF_vars(Run) /\ WF_vars(Engine)

Spec == Init /\ [][Next]_vars /\ Fairness

-----------------------------------------------------------------------------
(* Properties.                                                             *)

(* Every variable keeps its type; a batch in flight is a range of          *)
(* positions of the journal.                                               *)
TypeOK ==
  /\ pc \in PC
  /\ error \in [by: Tasks \cup {Main}, class: {"none", "author", "rejected", "faulted"},
                at: {"none"} \cup PC]
  /\ cause \in BOOLEAN
  /\ journal \in Seq(Verbs)
  /\ spliced \in 0 .. Len(journal)
  /\ task \in [Tasks -> TaskState]
  /\ file \in [Readers -> Path]
  /\ mark \in [Readers -> Nat]
  /\ seen \in [Tasks -> File]
  /\ registry \in Seq(Chunks) /\ joined \in Seq(Chunks)
  /\ calls \in Seq(Call)
  /\ staging \in Staging
  /\ committed \in [Path -> File]
  /\ faults \in Nat
  /\ applied \subseteq Nat /\ dropped \subseteq Nat
  /\ landed \in BOOLEAN

Queued == UNION {calls[i].next .. calls[i].hi : i \in DOMAIN calls}

(* Session.flush takes the whole pending buffer exactly once: each         *)
(* directive that left it is applied, dropped with a rejected or lost      *)
(* batch, or still in flight, and never two of these at once, however the  *)
(* reads, chunk flushes and the run-end flush interleave.                  *)
EveryDirectiveAccountedFor ==
  /\ 1 .. spliced = applied \cup dropped \cup Queued
  /\ applied \cap dropped = {}
  /\ Queued \cap (applied \cup dropped) = {}

(* defineFactory reports success only if each directive the author         *)
(* buffered was applied before the commit, unless the author caught a      *)
(* rejection.  In particular a rejected chunk flush, which nobody awaits,  *)
(* is found by the drain.                                                  *)
SuccessMeansComplete ==
  pc = "ok" /\ (\A r \in Readers : task[r] # "caught") => applied = 1 .. Len(journal)

(* A failed run writes nothing, now or later.  The one exception is a      *)
(* commit whose reply was lost or came too late: defineFactory fails with  *)
(* a transport fault at its commit and cannot take the write back.         *)
FailedRunWritesNothing ==
  pc \in {"failed", "refused"} /\ ~(error.at = "committing" /\ error.class = "faulted")
    => committed = NothingCommitted

(* Directives are applied in the order in which the author buffered them,  *)
(* across batches flushed by reads, by chunks and at the end of the run.   *)
AuthorOrder == [][\A i \in applied' \ applied : \A j \in applied : j < i]_vars

(* The error a run fails with is its first one: neither a failing discard  *)
(* nor anything that floats on after it replaces it.                       *)
FirstErrorKept == [][error # NoError => error' = error]_vars

(* RunBoundary against AtomicRun.                                         *)

(* A commit the engine may still carry out, though defineFactory may have  *)
(* given it up.                                                            *)
CommitOnTheWay == \E i \in DOMAIN calls : calls[i].kind = "commit"

Abstract == INSTANCE AtomicRun WITH
  intent  <- journal,
  disk    <- committed,
  outcome <- IF landed THEN "committed"
             ELSE IF pc \in {"failing", "discarding", "failed", "refused"} /\ ~CommitOnTheWay
             THEN "aborted"
             ELSE "running"

(* A run whose author awaits every read and catches no rejection is        *)
(* atomic: the disk gets every directive, in author order, or none, even   *)
(* when calls fail in the transport and take effect later.                 *)
ImplementsAtomicRun == Abstract!ASpec

(* Read-your-own-writes: what a read returns is what the file holds after  *)
(* all directives buffered before the call, and possibly some later ones,  *)
(* unless a batch was rejected.                                            *)
ReadYourOwnWrites ==
  \A r \in Readers :
    pc = "fn" /\ dropped = {} /\ task[r] = "resolved" =>
      \E k \in mark[r] .. Len(journal) :
        seen[r] = Lookup(Abstract!Replay(SubSeq(journal, 1, k)).st, file[r])

(* Once fn has returned, defineFactory settles: drain, flush, commit and   *)
(* discard are all left, whatever is rejected or lost on the way.          *)
RunSettles == pc = "drain" ~> pc \in Over

(* docs: a rejected run discards everything.                               *)
RejectionDiscardsEverything == dropped # {} => committed = NothingCommitted

(* defineFactory: on success the full directive batch is committed.        *)
SuccessDropsNothing == pc = "ok" => dropped = {}

================================================================================
