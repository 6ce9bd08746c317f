---------------------------- MODULE DialectHandle ----------------------------
(***************************************************************************)
(* The dialect handles of one run (src/core/dialect-handle.ts), the        *)
(* session they share and the engine behind it.  A handle chains its steps *)
(* on one promise (#tail); an edit works on a live syntax tree, parsed     *)
(* from one read, and is emitted by a modify directive whose content is    *)
(* printed only when its batch is serialized, so that later edits coalesce *)
(* into it.  Any read, of any handle, flushes the whole session; the next  *)
(* edit then starts a new directive.                                       *)
(*                                                                         *)
(* A file's content is the sequence of the numbers of the steps that made  *)
(* it.  The steps of a chain are chosen as they start: a step already      *)
(* queued is one chosen before anybody could tell.  The author may throw   *)
(* and may catch what a handle rejects with, but leaves no code running    *)
(* after his function (RunBoundary has such an author).                    *)
(***************************************************************************)
EXTENDS Naturals, SequencesExt

CONSTANTS
  Handles,    \* the handles of the run; each has a path of its own
  Main,       \* defineFactory, as the caller of the run-end flush
  Gone,       \* the content of a path with no file
  None,       \* no live document; no content yet
  Kinds,      \* the steps the author may chain
  MaxSteps,   \* bound: steps in a chain
  MaxTotal,   \* bound: steps in the run
  EditAfterReplace,  \* the author edits after a replacement of a loaded document
  EditAfterMeasure   \* the author edits on after scaffold() has measured the edit

ASSUME HandleAssumption ==
  /\ Kinds \subseteq {"op", "async", "noop", "query", "throw", "spoil", "replace",
                      "remove", "read"}
  /\ Main \notin Handles
  /\ None # Gone /\ None \notin Seq(Nat) /\ Gone \notin Seq(Nat)
  /\ MaxSteps \in Nat /\ MaxTotal \in Nat
  /\ EditAfterReplace \in BOOLEAN /\ EditAfterMeasure \in BOOLEAN

VARIABLES
  phase,     \* where defineFactory stands
  failure,   \* ctx.sessionFailure is set
  chain,     \* the steps each handle has begun
  pc,        \* where its present step stands
  live,      \* #live, the parsed document, or None
  emitted,   \* #lastEmittedText
  open,      \* #openDirective, as its position in the journal, or 0
  rejected,  \* #tail is rejected
  settled,   \* the drain has seen the end of #tail
  journal,   \* every directive buffered so far
  spliced,   \* how many of them flushes have taken
  applied,   \* how many of them the engine has finished with
  calls,     \* client calls not served yet
  file,      \* the engine's staged tree
  kept,      \* what is on disk
  got,       \* what the read of the present step returned
  answers    \* history: what each read and query returned

handleVars == <<failure, chain, pc, live, emitted, open, rejected, settled, got, answers>>
engineVars == <<applied, calls, file, kept>>
vars == <<phase, journal, spliced, handleVars, engineVars>>

Edits == {"op", "async", "throw", "spoil"}
Now(h) == Len(chain[h])
Doing(h) == chain[h][Now(h)]

-----------------------------------------------------------------------------
(* Directives and the session.                                             *)

(* print() throws on a document with a step that spoiled it.               *)
Printable(h, c) == c = Gone \/ \A i \in DOMAIN c : chain[h][c[i]] # "spoil"

Lazy(h) == [by |-> h, op |-> "modify", content |-> None]
Modify(h, c) == [by |-> h, op |-> "modify", content |-> c]
Removal(h) == [by |-> h, op |-> "remove", content |-> Gone]

HasPending == spliced < Len(journal)

(* flush(): #pending becomes a batch, a range of the journal.              *)
Flush(by) ==
  /\ calls' = Append(calls, [kind |-> "emit", by |-> by, lo |-> spliced + 1, hi |-> Len(journal)])
  /\ spliced' = Len(journal)

(* #hasOpenPendingDirective: the directive itself is still in #pending.    *)
OpenIsPending(h) == open[h] > spliced

(* A getter that has not run yet prints the live document.                 *)
Memoized(d) == [d EXCEPT !.content = IF @ = None THEN live[d.by] ELSE @]

-----------------------------------------------------------------------------
(* How a step ends.                                                        *)

Finish(h) == pc' = [pc EXCEPT ![h] = "idle"]

(* #chain: the first failure of the session is kept, the tail rejects, and *)
(* the steps behind it are skipped.                                        *)
Reject(h) ==
  /\ failure' = TRUE
  /\ rejected' = [rejected EXCEPT ![h] = TRUE]
  /\ Finish(h)

Unharmed == UNCHANGED <<failure, rejected>>

(* A slip: a drained directive is not noticed.                             *)
EnsureOpenOnce(h) ==
  /\ Finish(h) /\ Unharmed
  /\ IF open[h] # 0 \/ live[h] = emitted[h]
     THEN UNCHANGED <<open, emitted, journal>>
     ELSE /\ open' = [open EXCEPT ![h] = Len(journal) + 1]
          /\ journal' = Append(journal, Lazy(h))
          /\ UNCHANGED emitted

(* #ensureOpen, after the step has edited: nothing while the open          *)
(* directive is pending; else the content of the drained one becomes the   *)
(* baseline, and a document that differs from it is buffered anew.         *)
EnsureOpen(h) ==
  LET drained == Memoized(journal[open[h]])
      base == IF open[h] = 0 THEN emitted[h] ELSE drained.content
      known == IF open[h] = 0 THEN journal ELSE [journal EXCEPT ![open[h]] = drained]
  IN \/ /\ OpenIsPending(h)
        /\ Finish(h) /\ Unharmed
        /\ UNCHANGED <<open, emitted, journal>>
     \/ /\ ~OpenIsPending(h) /\ ~Printable(h, live[h])
        /\ Reject(h)
        /\ UNCHANGED <<open, emitted, journal>>
     \/ /\ ~OpenIsPending(h) /\ Printable(h, live[h])
        /\ Finish(h) /\ Unharmed
        /\ emitted' = [emitted EXCEPT ![h] = base]
        /\ open' = [open EXCEPT ![h] = IF live[h] = base THEN 0 ELSE Len(journal) + 1]
        /\ journal' = IF live[h] = base THEN known ELSE Append(known, Lazy(h))

-----------------------------------------------------------------------------
(* The steps of a chain.                                                   *)

Total == LET sum[S \in SUBSET Handles] ==
               IF S = {} THEN 0
               ELSE LET h == CHOOSE x \in S : TRUE IN Len(chain[h]) + sum[S \ {h}]
         IN sum[Handles]

(* The loaded document is no longer what the path holds.                   *)
Outdated(h) ==
  live[h] # None /\ \E i \in DOMAIN chain[h] : chain[h][i] \in {"replace", "remove"}

(* Its directive is pending, and already printed.                          *)
Measured(h) == OpenIsPending(h) /\ journal[open[h]].content # None

Enqueue(h, s) ==
  /\ phase \in {"fn", "drain"} /\ pc[h] = "idle"
  /\ ~rejected[h] /\ ~settled[h]
  /\ Now(h) < MaxSteps /\ Total < MaxTotal
  /\ Outdated(h) => s \in {"read", "replace", "remove"} \/ EditAfterReplace
  /\ Measured(h) => s \notin Edits \/ EditAfterMeasure
  /\ chain' = [chain EXCEPT ![h] = Append(@, s)]
  /\ pc' = [pc EXCEPT ![h] = "queued"]
  /\ UNCHANGED <<phase, journal, spliced, failure, live, emitted, open, rejected,
                 settled, got, answers, engineVars>>

(* guardedStep looks at the session before anything else.                  *)
Skip(h) ==
  /\ pc[h] = "queued" /\ failure
  /\ Reject(h)
  /\ UNCHANGED <<phase, journal, spliced, chain, live, emitted, open, settled, got,
                 answers, engineVars>>

(* replaceContent, which must not overtake a pending edit; and remove,     *)
(* which a rename or a move is too for the path of this handle.            *)
Wholesale(h) ==
  /\ pc[h] = "queued" /\ ~failure
  /\ \/ /\ Doing(h) = "replace" /\ OpenIsPending(h)
        /\ Reject(h) /\ UNCHANGED journal
     \/ /\ Doing(h) = "replace" /\ ~OpenIsPending(h)
        /\ journal' = Append(journal, Modify(h, <<Now(h)>>))
        /\ Finish(h) /\ Unharmed
     \/ /\ Doing(h) = "remove"
        /\ journal' = Append(journal, Removal(h))
        /\ Finish(h) /\ Unharmed
  /\ UNCHANGED <<phase, spliced, chain, live, emitted, open, settled, got, answers,
                 engineVars>>

EnterUnflushed(h) ==
  /\ pc[h] = "queued" /\ ~failure
  /\ Doing(h) \notin {"replace", "remove"}
  /\ pc' = [pc EXCEPT ![h] = IF Doing(h) # "read" /\ live[h] # None THEN "ready" ELSE "flushed"]
  /\ UNCHANGED <<phase, journal, spliced, failure, chain, live, emitted, open, rejected,
                 settled, got, answers, engineVars>>

(* A step that works on the live document reads the file first if there is *)
(* none; read() always does.  Session.read flushes before it asks.  (A     *)
(* slip, in EnterUnflushed: it does not.)                                  *)
Enter(h) ==
  /\ pc[h] = "queued" /\ ~failure
  /\ Doing(h) \notin {"replace", "remove"}
  /\ IF Doing(h) # "read" /\ live[h] # None
     THEN pc' = [pc EXCEPT ![h] = "ready"] /\ UNCHANGED <<calls, spliced>>
     ELSE IF HasPending
     THEN pc' = [pc EXCEPT ![h] = "flushing"] /\ Flush(h)
     ELSE pc' = [pc EXCEPT ![h] = "flushed"] /\ UNCHANGED <<calls, spliced>>
  /\ UNCHANGED <<phase, journal, failure, chain, live, emitted, open, rejected, settled,
                 got, answers, applied, file, kept>>

Ask(h) ==
  /\ pc[h] = "flushed"
  /\ pc' = [pc EXCEPT ![h] = "reading"]
  /\ calls' = Append(calls, [kind |-> "read", by |-> h, lo |-> 1, hi |-> 0])
  /\ UNCHANGED <<phase, journal, spliced, failure, chain, live, emitted, open, rejected,
                 settled, got, answers, applied, file, kept>>

FlushRefused(h) ==
  /\ pc[h] = "refused"
  /\ Reject(h)
  /\ UNCHANGED <<phase, journal, spliced, chain, live, emitted, open, settled, got,
                 answers, engineVars>>

Answer(h, c) == answers' = answers \cup {[by |-> h, at |-> Now(h), saw |-> c]}

(* read() answers.                                                         *)
ReadDone(h) ==
  /\ pc[h] = "loaded" /\ Doing(h) = "read"
  /\ Answer(h, got[h])
  /\ Finish(h)
  /\ UNCHANGED <<phase, journal, spliced, failure, chain, live, emitted, open, rejected,
                 settled, got, engineVars>>

(* #ensureLive: a file that is missing or does not parse rejects the step. *)
Load(h) ==
  /\ pc[h] = "loaded" /\ Doing(h) # "read"
  /\ \/ /\ got[h] # Gone
        /\ live' = [live EXCEPT ![h] = got[h]]
        /\ emitted' = [emitted EXCEPT ![h] = got[h]]
        /\ pc' = [pc EXCEPT ![h] = "ready"]
        /\ Unharmed
     \/ /\ Reject(h)
        /\ UNCHANGED <<live, emitted>>
  /\ UNCHANGED <<phase, journal, spliced, chain, open, settled, got, answers, engineVars>>

(* An operation, or modify(fn), edits the live document; an asynchronous   *)
(* function is awaited, one that throws leaves its edit behind.            *)
Operate(h) ==
  /\ pc[h] = "ready" /\ Doing(h) \in Edits
  /\ live' = [live EXCEPT ![h] = Append(@, Now(h))]
  /\ IF Doing(h) = "throw"
     THEN Reject(h)
     ELSE pc' = [pc EXCEPT ![h] = "edited"] /\ Unharmed
  /\ UNCHANGED <<phase, journal, spliced, chain, emitted, open, settled, got, answers,
                 engineVars>>

Register(h) ==
  /\ pc[h] = "edited" \/ (pc[h] = "ready" /\ Doing(h) = "noop")
  /\ EnsureOpen(h)
  /\ UNCHANGED <<phase, spliced, chain, live, settled, got, answers, engineVars>>

(* A query prints before and after it looks; one that edits is an          *)
(* operation that throws.                                                  *)
Query(h) ==
  /\ pc[h] = "ready" /\ Doing(h) = "query"
  /\ \/ Printable(h, live[h]) /\ Answer(h, live[h]) /\ Finish(h) /\ Unharmed
     \/ ~Printable(h, live[h]) /\ Reject(h) /\ UNCHANGED answers
  /\ UNCHANGED <<phase, journal, spliced, chain, live, emitted, open, settled, got,
                 engineVars>>

-----------------------------------------------------------------------------
(* The engine.                                                             *)

(* JSON.stringify walks the batch and runs each getter once, up to the     *)
(* first that throws.                                                      *)
Serialized(b) ==
  [i \in DOMAIN journal |->
     IF /\ i \in b.lo..b.hi
        /\ \A j \in b.lo..i : Printable(journal[j].by, Memoized(journal[j]).content)
     THEN Memoized(journal[i]) ELSE journal[i]]

(* The journal as it would be printed now.                                 *)
Printing == [i \in DOMAIN journal |-> Memoized(journal[i])]

Put(tree, d) == [tree EXCEPT ![d.by] = IF @ = Gone THEN Gone ELSE d.content]

(* The staged tree after the directives lo..hi, each printed now at the    *)
(* latest; one whose file is gone has no effect.                           *)
After(tree, lo, hi) == FoldLeft(Put, tree, SubSeq(Printing, lo, hi))

(* Every directive of the batch prints, and finds its file.                *)
Acceptable(b) ==
  \A i \in b.lo..b.hi :
     /\ Printable(journal[i].by, Memoized(journal[i]).content)
     /\ After(file, b.lo, i - 1)[journal[i].by] # Gone

(* A batch that is not accepted may have been applied in part: nothing of  *)
(* it is staged here, as nothing of the run will be kept.                  *)
ServeEmit ==
  /\ calls # <<>> /\ Head(calls).kind = "emit"
  /\ LET b == Head(calls)
     IN /\ applied' = b.hi
        /\ journal' = Serialized(b)
        /\ file' = IF Acceptable(b) THEN After(file, b.lo, b.hi) ELSE file
        /\ IF b.by = Main
           THEN /\ phase' = IF Acceptable(b) THEN "flushed" ELSE "failed"
                /\ UNCHANGED pc
           ELSE /\ pc' = [pc EXCEPT ![b.by] = IF Acceptable(b) THEN "flushed" ELSE "refused"]
                /\ UNCHANGED phase
  /\ calls' = Tail(calls)
  /\ UNCHANGED <<spliced, failure, chain, live, emitted, open, rejected, settled, got,
                 answers, kept>>

ServeRead ==
  /\ calls # <<>> /\ Head(calls).kind = "read"
  /\ LET h == Head(calls).by
     IN /\ got' = [got EXCEPT ![h] = file[h]]
        /\ pc' = [pc EXCEPT ![h] = "loaded"]
  /\ calls' = Tail(calls)
  /\ UNCHANGED <<phase, journal, spliced, failure, chain, live, emitted, open, rejected,
                 settled, answers, applied, file, kept>>

-----------------------------------------------------------------------------
(* The run boundary.                                                       *)

(* scaffold() serializes what is pending to measure it, which runs the     *)
(* getters of directives that stay in the buffer.                          *)
Measure ==
  /\ phase = "fn" /\ HasPending
  /\ EditAfterMeasure \/ \A h \in Handles : OpenIsPending(h) => pc[h] = "idle"
  /\ IF \A i \in (spliced + 1)..Len(journal) :
          Printable(journal[i].by, Memoized(journal[i]).content)
     THEN /\ journal' = [i \in DOMAIN journal |->
                          IF i > spliced THEN Memoized(journal[i]) ELSE journal[i]]
          /\ UNCHANGED phase
     ELSE phase' = "failed" /\ UNCHANGED journal
  /\ UNCHANGED <<spliced, handleVars, pc, engineVars>>

Return ==
  /\ phase = "fn"
  /\ phase' = "drain"
  /\ UNCHANGED <<journal, spliced, handleVars, pc, engineVars>>

Throw ==
  /\ phase = "fn"
  /\ phase' = "failed"
  /\ UNCHANGED <<journal, spliced, handleVars, pc, engineVars>>

(* A slip: the drain settles a handle whatever its tail says.              *)
SettleAnyhow(h) ==
  /\ phase = "drain" /\ pc[h] = "idle" /\ ~settled[h]
  /\ settled' = [settled EXCEPT ![h] = TRUE]
  /\ rejected' = [rejected EXCEPT ![h] = FALSE]
  /\ UNCHANGED <<phase, journal, spliced, failure, chain, pc, live, emitted, open, got,
                 answers, engineVars>>

(* settle(): when the tail has settled, the open directive is printed, so  *)
(* that a print that throws is heard of here.                              *)
Settle(h) ==
  /\ phase = "drain" /\ pc[h] = "idle" /\ ~settled[h]
  /\ settled' = [settled EXCEPT ![h] = TRUE]
  /\ \/ /\ rejected[h] \/ open[h] = 0
        /\ UNCHANGED <<journal, rejected>>
     \/ /\ ~rejected[h] /\ open[h] # 0
        /\ LET d == Memoized(journal[open[h]])
           IN IF Printable(h, d.content)
              THEN journal' = [journal EXCEPT ![open[h]] = d] /\ UNCHANGED rejected
              ELSE rejected' = [rejected EXCEPT ![h] = TRUE] /\ UNCHANGED journal
  /\ UNCHANGED <<phase, spliced, failure, chain, pc, live, emitted, open, got, answers,
                 engineVars>>

(* A slip: nothing is flushed at the end.                                  *)
DrainedUnflushed ==
  /\ phase = "drain" /\ \A h \in Handles : settled[h]
  /\ phase' = IF \E h \in Handles : rejected[h] THEN "failed" ELSE "flushed"
  /\ UNCHANGED <<journal, spliced, handleVars, pc, engineVars>>

(* The drain waits for every handle; a rejected one fails the run.         *)
Drained ==
  /\ phase = "drain" /\ \A h \in Handles : settled[h]
  /\ IF \E h \in Handles : rejected[h]
     THEN phase' = "failed" /\ UNCHANGED <<calls, spliced>>
     ELSE IF HasPending
     THEN phase' = "flushing" /\ Flush(Main)
     ELSE phase' = "flushed" /\ UNCHANGED <<calls, spliced>>
  /\ UNCHANGED <<journal, handleVars, pc, applied, file, kept>>

CommitRun ==
  /\ phase = "flushed"
  /\ phase' = "committed"
  /\ kept' = file
  /\ UNCHANGED <<journal, spliced, handleVars, pc, applied, calls, file>>

-----------------------------------------------------------------------------
Init ==
  /\ phase = "fn" /\ failure = FALSE
  /\ chain = [h \in Handles |-> <<>>]
  /\ pc = [h \in Handles |-> "idle"]
  /\ live = [h \in Handles |-> None]
  /\ emitted = [h \in Handles |-> None]
  /\ open = [h \in Handles |-> 0]
  /\ rejected = [h \in Handles |-> FALSE]
  /\ settled = [h \in Handles |-> FALSE]
  /\ journal = <<>> /\ spliced = 0 /\ applied = 0 /\ calls = <<>>
  /\ file = [h \in Handles |-> <<>>]
  /\ kept = [h \in Handles |-> <<>>]
  /\ got = [h \in Handles |-> None]
  /\ answers = {}

Running == phase \notin {"committed", "failed"}

HandleStep(h) ==
  \/ \E s \in Kinds : Enqueue(h, s)
  \/ Skip(h) \/ Wholesale(h) \/ Enter(h) \/ Ask(h) \/ FlushRefused(h)
  \/ ReadDone(h) \/ Load(h) \/ Operate(h) \/ Register(h) \/ Query(h) \/ Settle(h)

(* What is left running when a run has failed changes nothing on disk.     *)
Next ==
  /\ Running
  /\ \/ \E h \in Handles : HandleStep(h)
     \/ ServeEmit \/ ServeRead
     \/ Measure \/ Return \/ Throw \/ Drained \/ CommitRun

Spec == Init /\ [][Next]_vars

-----------------------------------------------------------------------------
(* Properties.                                                             *)

(* What the steps up to number n make of the file.                         *)
Edited(c, step) ==
  IF step.does = "replace" THEN <<step.number>>
  ELSE IF step.does = "remove" THEN Gone
  ELSE IF step.does \in Edits THEN Append(c, step.number)
  ELSE c

Replay(h, n) ==
  FoldLeft(Edited, <<>>, [k \in 1..n |-> [does |-> chain[h][k], number |-> k]])

(* The run cannot succeed any more.                                        *)
Doomed ==
  \/ phase = "failed"
  \/ \E h \in Handles : rejected[h] \/ pc[h] = "refused"

(* In a run that may still succeed, a read or a query in the middle of a   *)
(* chain answers with the effect of every earlier step of the chain and of *)
(* no later one, whatever the other handles have flushed in between.  (A   *)
(* read that follows a flush another handle made, and that was refused,    *)
(* answers with what is left of it.)                                       *)
ReadsSeeTheChain == ~Doomed => \A a \in answers : a.saw = Replay(a.by, a.at - 1)

(* A run that succeeds writes what its chains amount to: no edit is lost   *)
(* when a flush splits its directive, and none is written twice.           *)
CommitHoldsEveryEdit ==
  phase = "committed" => \A h \in Handles : kept[h] = Replay(h, Now(h))

(* Once a step of any handle has failed nothing of the run is written,     *)
(* although steps already begun on other handles run on and may flush.     *)
FailureIsFinal == failure => phase # "committed" /\ kept = [h \in Handles |-> <<>>]

(* No edit is ever lost: what an operation did is in the committed file,   *)
(* unless the author has replaced or removed the whole file since.         *)
NoEditLost ==
  phase = "committed" =>
     \A h \in Handles : \A k \in DOMAIN chain[h] :
        chain[h][k] \in Edits
           => \/ \E l \in (k + 1)..Now(h) : chain[h][l] \in {"replace", "remove"}
              \/ \E i \in DOMAIN kept[h] : kept[h][i] = k

(* A replaced content survives the rest of the chain.                      *)
ReplacementKept ==
  phase = "committed" =>
     \A h \in Handles : \A k \in DOMAIN chain[h] :
        chain[h][k] = "replace"
           => \/ \E l \in (k + 1)..Now(h) : chain[h][l] \in {"replace", "remove"}
              \/ \E i \in DOMAIN kept[h] : kept[h][i] = k

(* The document of a path: the staged file, after the directives still on  *)
(* their way, each printed as it would be now.                             *)
Document == After(file, applied + 1, Len(journal))

Sequential ==
  INSTANCE SequentialEdits
    WITH doc <- IF Doomed THEN [h \in Handles |-> <<>>] ELSE Document,
         outcome <- IF Doomed THEN "aborted"
                    ELSE IF phase = "committed" THEN "committed" ELSE "running"

(* The handles implement the sequential documents: each step edits one     *)
(* document once and whole, no flush changes a document, a run commits the *)
(* documents as they are or nothing.                                       *)
ImplementsSequentialEdits == Sequential!Spec

==============================================================================
