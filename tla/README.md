# A verification project for @pbuilder/sdk

TLA+ models of the SDK, checked with TLC on small instances, and theorems about its core proved with
TLAPS for every instance. Every definition is translated from the code under `src/`; `PROJECT.json`
maps each one to its lines.

## 1. The system

The SDK lets an author write a *factory*: a function that describes changes to a project
(`create`, `modify`, `rename`, ...). The changes are buffered as *directives*, sent in batches to
an engine that stages them, and committed or discarded as a whole when the factory ends.

| Part | State | Operations | Meets | What makes it correct |
|---|---|---|---|---|
| Session (`core/session.ts`) | `#pending` buffer | buffer, read, flush, commit, discard | verbs, scaffold, handles, the client | no directive lost or sent twice; author order; a read sees earlier writes |
| Run boundary (`core/context.ts`) | the run's context, registry of handles | gate, run fn, drain, flush, commit, discard | Session, registry | all or nothing; first error kept; always settles |
| Contract fake (`testing/contract-fake.ts`) | seed, staging tree, deletions, committed tree | emit, read, commit, discard | behind the `EngineClient` port | staged effects are those of the directives in order; only commit writes |
| Stdio client (`transport/stdio-engine-client.ts`) | chain, request counter, dangling read | emit, read, commit, discard | channel, host process | serial calls; an answer settles its own call only; no frame lost; always settles |
| Frame reader, framing (`transport/frame-reader.ts`, `framing.ts`) | byte buffer | frames, drain, encode, console redirection | stdin, stdout, channel | the same frames however the bytes are cut; a bad frame fails one read; nothing but frames on stdout |
| Runner (`transport/runner.ts`, `exit-codes.ts`, bridge) | in-flight guard | gates, import, run, classify | process, client, run boundary | gates in order, one run at a time, exit code 0 only after a commit |
| Dialect handle (`core/dialect-handle.ts`) | live document, open directive, tail promise, failure flag | op, query, modify, replaceContent, rename, move, remove, read, settle | Session, registry | edits in call order, none lost, none buffered twice; a failure is final |
| Scaffold (`scaffold/*`) | pending size of the current chunk | walk, filter, rename files, classify, chunk; copyIn, create from a file | Session, registry | every file once, none outside, every batch within the budget |
| Authoring verbs (`commons`, `pending-directives`, `core/directive-factory.ts`) | path of a handle | verbs, fluent handles, options | Session | a handle follows its file; options arrive whole or are refused |
| Error attribution (`core/authoring-error.ts`, `emit-rejection.ts`) | none | from the host's rejection to the author's error | Session, client | the directive blamed is the one that failed, or none |
| Schema gate (`core/schema/*`), generated types (`src/bin`) | none | discover, parse, locate, validate; emit a type | run boundary, codegen | what passes has the type that was generated |
| Dialect composition (`core/define-dialect.ts`) | none | define, withOps, withoutOps, overrideOps, byExtension | dialects | conflicts are refused; the longest extension wins |
| Language dialects (`dialects/*`) | syntax trees, texts | edits of TypeScript, React, Angular, NestJS, JSON, YAML, CSS | dialect handle | an edit makes so what was asked, once, and changes nothing else; a second time it is a no-op |
| Conformance suite (`conformance/*`) | files of its transport | testDialect, testOpPack | dialects, run boundary | a faulty dialect or operation is refused, an honest one admitted |
| Code generation (`src/bin`) | files | discover packages, generate | file system | nothing outside the project; the exit code tells |
| Runner manifest (`scripts/derive-runner-closure.ts`, ...) | files | walk the imports, write, rename | build | the manifest names every file that runs |

How they interact: an authoring verb calls `Session.buffer`; `read` calls `Session.flush` and then
the client; scaffold calls `Session.flush` without awaiting it and registers the promise with the
run; a dialect handle chains its steps on a promise that it registers too, reads through the session, and
buffers one directive whose content is printed when its batch is serialized; `defineFactory` awaits
`fn`, joins what was registered (`drain`), flushes, and commits; any
failure on that path leads to `discard`. The client is the fake (in process, serves at once) or the
stdio client (frames over stdin and stdout, answered by a host process that may do anything). The
runner stands around all this: its gates admit a host, an input and a module, and it turns the end of the run
into an exit code.

What is hard: flushes by reads, chunks, handles and the run end overlap; part of a batch may be applied when
it is rejected; calls are lost, time out, or take effect after their caller has given up; answers
arrive late, for the wrong call or never; a read loop outlives the call it served; a directive is printed
at a moment nobody chose; bytes arrive in any pieces; author code may
float on after its function has settled; an edit of source text meets spreads, comments, aliases, anchors and names that
are bound already. `PROJECT.json` lists these hazards with their lines and the properties that would
catch each going wrong.

## 2. Modules

State machines:

| Module | What it is |
|---|---|
| `EngineStaging` | the fake's `#apply`, lookup and commit as operators on a record `[tree, deleted]` |
| `RunBoundary` | one run: the author, `Session`, the registry, `defineFactory`, the queue of client calls and the engine; at its end, the refinement mapping to `AtomicRun` and read-your-own-writes |
| `AtomicRun` | abstract: a run's directives reach the disk all together, in order, or not at all |
| `StdioClient` | the stdio client over the channel and the frame generator, with an arbitrary host |
| `SerialCalls` | abstract: calls settle one at a time, in order, each with an answer of its own or a failure |
| `DialectHandle` | the handles of a run, the session they share, the engine |
| `SequentialEdits` | abstract: each file is edited one operation after the other, and the run writes the result or nothing |
| `FrameReassembly` | frames as bytes, cut into chunks anywhere, and the generator that puts them together |
| `Runner` | the starts of the runner in one process, its gates, the channel, stdout, exit codes, and the host |
| `Scaffold` | one scaffold call over a folder that may lose entries meanwhile |
| `ModuleEdits` | a TypeScript file under a sequence of import, export, declaration, route and member operations |

Algorithms, each with the reference definition it is checked against:

| Module | What it computes | Compared with |
|---|---|---|
| `SchemaGate`, `JsonLocator` | the gate, the generated type, the position of a syntax error | the type as a set of inputs; the grammar of JSON, one character at a time |
| `Rejections` | the rejection as it is sent, rebuilt and translated | what the fake says of the same batch |
| `Composition` | packs added, blocked, overridden; the router | another order of the same packs; the type of the router |
| `ProjectCodegen` | discovery, containment, generation of a project | the packages the project has, by all their names |
| `RunnerGates` | arguments, input, pointer, copy of the SDK, module | the same start by the other way in; the order of the gates |
| `RunnerManifest` | the closure of the runner, the build that writes it | the files that are reached; every step of the build failing |
| `AuthorVerbs` | verbs and handles, options, the slot of the session | the engine's own paths; the graph of the options |
| `PackageSources` | screens, reasons and reads of a source, filters, tokens of names | the order shared by the verbs; a filter as a property of folders |
| `LiteralEdits`, `JsxEdits`, `AngularEdits`, `CssEdits` | edits of literals and classes, JSX and components, decorators and routes, style sheets | what the file means before and after |
| `ValueTrees`, `JsonEdits`, `YamlEdits`, `Namesakes` | the operations of JSON and YAML on values | each other; aliases resolved in place |
| `JsonLayout` | the text edits of JSON: lines, separators, comments | the members that must remain, each with its comments |
| `YamlPresentation` | comments, merge keys, styles, tags, streams of documents | the value that must stay; the texts of the documents |
| `Conformance`, `RunVehicle` | what the suite admits; the transport it runs on | dialects and operations with planted faults; the fake |

`MCRunBoundary`, `MCRunner`, `MCDocuments`, `MCEdits` and `MCPackages` hold the instances that TLC
checks. `Questions` states the properties of the algorithms that are proved as well as checked, over a variable `subject` that holds
one input: `MCPackages` gives it the inputs of the run, and `Packages_proofs` has any. `RunBoundary_proofs`, `StdioClient_proofs`, `DialectHandle_proofs`, `Runner_proofs`, `Scaffold_proofs`, `ModuleEdits_proofs`
and `Packages_proofs` hold the theorems; `Folding` holds those about a fold over a sequence, which the others instantiate.

How they fit together: `RunBoundary` and `StdioClient` meet at `SerialCalls`: `StdioClient` is checked to implement
it, and `RunBoundary` takes for granted just what it says, a queue of calls served oldest first and settled
once, which may fail without an answer. `Runner` takes the run as two requests, for work and for the commit, and reads
its frames through `FrameReassembly`. `DialectHandle` has the session of `RunBoundary` again, with directives whose
content is open. `Scaffold` ends where the flush of `RunBoundary`'s `StartChunk` begins.

### RunBoundary and the code

`journal` is everything the author has buffered, in order; the array `#pending` is its part after
position `spliced`, and a batch is a range of positions, so that `splice(0)` is `spliced' =
Len(journal)`. `task` follows each `read()` (flushing, reading, resolved or rejected) and each chunk
flush; `registry` is `#handles`, `joined` what the drain took. `pc` is the point of `defineFactory`
between two awaits. `calls` holds the client calls not served. `staging` and `committed` are the
fake's trees.

| Actions | Code |
|---|---|
| `Buffer`, `StartRead`, `IssueRead` | `Session.buffer`, `read` up to its flush, `read` after it |
| `StartChunk` | scaffold's `session.flush()` with `dialects.register` |
| `CatchRejection`, `Propagate`, `Throw`, `Return` | what fn does with a rejection, and how it ends |
| `Gate`, `Drain`, `RunFlush`, `IssueCommit`, `IssueDiscard` | `defineFactory` |
| `Admit`, `Apply`, `FinishEmit`, `ServeRead`, `ServeCommit`, `ServeDiscard` | `ContractFake`, one directive a step |
| `LoseRequest`, `GiveUp`, the second case of `Delivered` | the faults of the transport: the request fails, the timer fires first, the reply is lost |

Two constants describe the author. `MayFloat`: he leaves promises unawaited, so his code interleaves
with his own reads and goes on after fn has settled. `MayCatch`: he catches a rejected read and goes on.

After `GiveUp` a call is *late*: the caller has been told that it failed, and the request still
reaches the engine, ahead of every later call, or is lost. This is a timeout of the stdio client as the run sees
it.

Abstractions: a content is a model value, and `Unrepresentable` names those that JSON does not carry; a
directive weighs one unit of `BatchBudget`; a path is a directory and a base name; error texts, and
the translation of an engine rejection into an `AuthoringError`, are one class `rejected`, transport
faults are `faulted`.

### StdioClient and the code

`queue` is the `#chain` of dispatches, `current` the call in flight, `waits[c]` the channel read that the
loop of call `c` awaits, `dangling` is `#danglingRead`, `abandoned` the calls whose flag is set,
`reads` every `frames().next()` with what it settled to. `reader` is the state of the generator:
an oversize prefix, or the end of the stream inside a frame, completes it. One step is one run of the event loop
between two awaits. Continuations on the same promise run in the order they were attached (`First`), and
timers and new dispatches wait until none is ready: this is the order of JavaScript's promise jobs, and
the properties depend on it: the loop of a call that timed out runs before its successor's.

### DialectHandle and the code

`chain[h]` is what was enqueued on `#tail`, `pc[h]` where its step stands, `live`, `emitted` and `open` are
`#live`, `#lastEmittedText` and `#openDirective`, `failure` is `ctx.sessionFailure`. A directive in `journal` has no
content until its batch is serialized (`Flush`, or `Measure` when scaffold weighs what is pending). A content is the
sequence of the numbers of the steps that made it, so that a lost or doubled edit shows. A rename or a move ends the
path as a removal does; copy, and two handles on one path, are left out.

### Runner and the code

Each attempt has a stream of bytes, which its host wrote as frames, which arrive in chunks and which the host may close
(`closed`) or leave open. Steps come from three sides: `Own` are those of the runner (the gates, an answer that is read, the timer of
a request), `Author` those that wait for the author's module and function, `Host` the arrival of bytes and the close of the stream. The
console and `process.stdout` are written at any time by author code (`Say`), `Protect` is the captured writer; what is written
to descriptor 1 itself, or by a reference to the old writer that was saved before, is not modelled, so `StdoutCarriesFramesOnly` speaks of the
console and of `process.stdout.write`. What a gate looks at is a choice here and an input in `RunnerGates`.

## 3. Runs

| Run | Configuration | Shows | States |
|---|---|---|---|
| `run_attentive` | one directory, two names, three contents (one unrepresentable), eight directives, one read, one chunk flush, three directives a run, budget two, one fault | `TypeOK`, `SuccessMeansComplete`, and `ImplementsAtomicRun`: the run refines `AtomicRun` | 671,564 |
| `run_floating` | one file, modify and delete, two reads, one chunk flush, two directives, one fault; the author floats and catches | `EveryDirectiveAccountedFor`, `ReadYourOwnWrites`, `FailedRunWritesNothing`, `AuthorOrder`, `FirstErrorKept`, `RunSettles` | 465,759 |
| `run_caught` | the author catches | violates `RejectionDiscardsEverything` | |
| `run_forgotten` | the author floats | violates `SuccessDropsNothing` | |
| `stdio_timeouts` | three calls, three frames, timers | `EveryFrameSeenOnce`, `AnswerNotMissed`, `ImplementsSerialCalls`, `EveryCallSettles` | 339,179 |
| `dialect_handle` | two handles, at most three steps each and four together, of nine kinds | `ReadsSeeTheChain`, `CommitHoldsEveryEdit`, `FailureIsFinal`, `ImplementsSequentialEdits` | 2,650,872 |
| `dialect_stale` | an operation may follow `replaceContent` | violates `ReplacementKept` | |
| `dialect_measured` | scaffold may measure a pending edit | violates `NoEditLost` | |
| `runner` | two starts, a host with any of some fifty streams, chunks of up to three bytes | `OneRunAtATime`, `ChunksDoNotMatter`, `ZeroMeansCommitted`, `StdoutCarriesFramesOnly`, `EveryRunEnds` | 409,551 |
| `packages` | folders of up to four entries on two levels with renames, excludes and pending directives; and one question for each input of the algorithms | `EveryFileOnce`, `EveryBatchFits`; `GateKeepsTheType`, `RejectionIsFaithful`, `DialectsCompose`, `ProjectIsAccountedFor`, `GatesAgree`, `ManifestNamesWhatRuns`, `VerbsReachTheEngine`, `InputsAreTakenAsGiven`, `SourceEditsAreExact` | 1,493,578 |
| `documents` | modules with up to three imports, some below a directive, and two edits; lists of up to three members with comments anywhere; values three levels deep, with anchors | `NoNameTwice`, `AskedIsDone`, `NothingElseChanges`; `JsonEditsAreExact`; `NamesakesAgree`, `RefusalsChangeNothing`, `AliasesStayResolved` | 72,498 |
| `json_comments` | lists with a comment that begins on a member's line | violates `CommentsAreNeverSplit` | |

Some properties are conjunctions, one conjunct for each part, so that a run asks all it has to ask of an
input at once. `SourceEditsAreExact` is that of the source editors and of the conformance suite,
`VerbsReachTheEngine` that of verbs, options and the session slot, `InputsAreTakenAsGiven` that of screens, filters,
tokens and the place of a syntax error; the modules `Questions` and `MCPackages` list the parts beside each.

Bounds, and why they are enough to see the interesting cases:

- *Journal of three, budget of two*: a batch can be within the budget or over it, be rejected at its
  first or second directive, and be followed or preceded by another batch.
- *Directives of `run_attentive`*: `create` and `rename` collide on `b`; `modify` and `rename` miss `a` after
  a delete; `copy` with force overwrites; the move is a self-move, which is exempt from the
  collision check; one modify carries the unrepresentable content; `copyIn` checks and writes nothing.
- *Two reads and a chunk*: three flushes besides the run-end flush can overlap.
- *One fault*: a lost request, a lost reply, or a timeout at any call, the discard included. Two faults (a
  lost flush and then a lost discard) arise with a rejection and one fault. The proofs have no such bound.
- *Three calls, three frames*: a call, the successor that adopts its read, and one more; an answer that
  is late, doubled or foreign with another behind it.
- *Four dialect steps*: an edit, a read that splits it off, an edit with the new baseline, and an edit of the other handle
  anywhere among them; or a failure between any two.
- *Base five, cap three, chunks of three*: a prefix of two digits may be cut, a chunk may hold the end of one frame and the
  start of the next, and a length may be over the cap.
- *Folders*: the same name with and without the suffix, in one folder or two; a rename onto another file, out of the target
  and through `..`; files of a weight that fits a chunk, that does not fit beside what is pending, that must go by
  reference, and one more; a file that vanishes between its listing and its read.
- *Texts of JSON*: every text of up to three characters, and every text one edit away from four valid ones that
  between them use all productions, and from one with two faults within strings.
- *Edits of source*: lists and classes of up to two or three members, three levels deep, with spreads, computed keys, wrapped
  literals and omitted elements in any place; one or two edits, so that the second meets what the first left.

Bounds are constants (`MaxJournal`, `MaxFaults`, `MaxCalls`, `MaxFrames`, `MaxSteps`, `MaxTotal`, `MaxChunk`, `MaxEdits`) and
guards of the actions they limit. Deadlock is checked for `RunBoundary` and `StdioClient`, where `Finished` and `Idle` are
the only places to rest. The others end when their bounded work is done, and there it is not checked; that a
runner's attempt is never stuck is `EveryRunEnds`.

Fairness. `RunBoundary`: the event loop runs every continuation that is ready (`Run`), and every call
is answered, by the fake at once and by the stdio client within its timeout (`Engine`, which includes
the failure of a request). Nothing is asked of the author: `RunSettles` starts where fn has returned. `StdioClient`: dispatches,
loops, the generator and timers; nothing is asked of the host or of those who call. `EveryCallSettles` says that each
call settles by its timer, and that once the stream has ended it settles without one. `Runner`: weak fairness for the `Own` steps
of each attempt, which are continuations and timers again. Nothing is asked of the host or of the author, so `EveryRunEnds` names what may
hold a run for ever: before the greeting there is no request and no timer (`runner.ts:236` awaits `frames.next()`), so a
host that neither completes a greeting nor closes its stream keeps the run, and the guard, for good; and so does author code that
never settles. Past the greeting a host that falls silent delays the run by the
timer of each request at most. No other specification states fairness, and no liveness is checked of it.

## 4. What disagrees with the docs

With a run each:

- `run_caught`: `docs/authoring-errors.md` says that a rejected run discards everything, and
  `core/authoring-error.ts` says it of a rejected Session. The code discards only if the rejection
  reaches `defineFactory`. The examples of that page catch it
  around the run, where the claim holds. An author who catches it inside the factory, around an
  awaited read, and returns gets a commit of the part of the batch that was applied before the
  offending directive.
- `run_forgotten`: `core/context.ts` says that on success the full batch is committed. A `read` that
  is not awaited empties the buffer, and its rejection is not registered for the drain. The run then
  reports success without the directives of that batch. Chunk flushes of scaffold are
  registered, and for them `SuccessMeansComplete` holds.
- `dialect_stale`: an operation after `replaceContent`, on a handle whose document is loaded already, prints the old document
  over the replacement.
- `dialect_measured`: scaffold measures what is pending by serializing it. That prints the open directive of a dialect
  handle, and edits the handle makes afterwards are in no directive.
- `json_comments`: a block comment that begins on a member's line and ends on the next is cut in two.

`SuccessMeansComplete` and `FailedRunWritesNothing` say what does hold. The latter has one
exception, stated in it: a commit whose reply was lost or late may have been written although the run fails.

Met while modelling, kept in the models as the code has them, and left out of the properties:

- *YAML.* `merge` does not check that aliases still resolve (`structural.ts:207`). A path past the end of a list makes a
  sparse list, where JSON refuses (`paths.ts:124-128`); a removal in an empty file rejects, where JSON does nothing;
  moving a value onto itself differs too. `yaml-dialect/spec.md:68-75` says that namesakes agree. `sortKeys` orders by UTF-16 code
  units where its comment says code points. A refused edit of several steps leaves the first ones in the live tree. For a key
  without a value, comment, style, tag and anchor are set on a node that is thrown away. `addMergeKey` takes an
  anchor of the map itself or of one around it.
- *TypeScript.* `addFunction`, `addVariable` and `addClass` with `export: true` do not look for the name among the exports of the file
  (`ops.ts:493-546`; `docs/authoring-a-dialect.md:64` says otherwise). `addDefaultImport` looks at the first default only. The
  comment at `ops.ts:562-564` does not hold for `import { a as b, a as c }`. A locator that matches elements by a key
  reads the first property of that name, where JavaScript takes the last, and looks past spreads; `[,]` and `[]` count as
  the same element (`array-element.ts:147`). Of two equal `export *`, `removeExportAll` removes the first (`ops.ts:712-718`), so that doing it again
  changes the file again.
- *React.* `addComponentProp` adds a second member beside a method signature of that name, does not add an existing prop to a
  destructuring that lacks it, and takes the alias in `{ q: p }` for `p`. `setJsxProp` on an attribute before a spread may stay
  without effect, and of duplicates only the first is changed.
- *Angular.* `insertOp`, `addMember` and `addRoute` edit the file before `addImport` may refuse: the edit stays in the tree
  of the poisoned handle. A route equal to one listed behind `**` is taken for present.
- *CSS.* `setDeclaration` ignores the anchor it is given when the declaration exists.
- *Runner.* A `SyntaxError` or `ERR_MODULE_NOT_FOUND` thrown by the top level of the author's own code counts as a failure to load
  (exit 1), though `runner.ts:147-156` says a throw exits 4.
- *Codegen and runner* split a registration differently: at the last `#` (`project-codegen.ts:68`) and at the first.
- *Manifest.* A process killed between derivation and rename leaves the manifest of the last build.
- *Options.* Non-finite numbers pass `encodeOptions` and become null when nested; an object that is no plain one (a Map) passes
  and compares as `{}`.
- *Router.* The file `.a.t` goes to the dialect of `.t`, where the type says `.a.t`.
- *Scaffold.* A file named just `.template`, or renamed to nothing, gets the target folder as its destination.
- *Position of a JSON error.* A line break in a string is scanned over, and so is an escape that JSON does not know, as
  `schema-locate.ts:7-13` says: the position is that of the next fault behind it, or none. A text that ends behind a backslash is
  blamed one column past its end. `FaultIsLocated` says this of the text in which those faults are mended (`Mended`, `Told`).
- *Conformance.* Its vehicle takes the new name of a rename for a whole path, puts the folder of a move before the name as it is spelled (so
  that a file moved to the root is under `./b` or `/b`, which no path reads; `run-vehicle.ts:51-58`), and passes over missing sources,
  unlike fake and engine. `VehicleReadsAlike` leaves out such renames and moves. Its samples never show a dialect that adds a final newline. `testOpPack` refuses an honest pack whose first operation
  changes nothing, and exercises with one operation are run once.

## 5. Proofs

All for every value of the constants under the assumptions named, which TLC evaluates in the runs.

| Theorem | States |
|---|---|
| `TypeCorrect` | `Spec => []TypeOK` |
| `KeepsFirstError` | `Spec => FirstErrorKept` |
| `FailureWritesNothing` | `Spec => []FailedRunWritesNothing` |
| `NoDirectiveLost` | `Spec => []EveryDirectiveAccountedFor` |
| `AppliedInAuthorOrder` | `Spec => AuthorOrder` |
| `SuccessIsComplete` | `~MayFloat /\ Spec => []SuccessMeansComplete` |
| `ReadsOwnWrites` | `Spec => []ReadYourOwnWrites` |
| `RunsAreAtomic` | `~MayFloat /\ ~MayCatch /\ Spec => ImplementsAtomicRun`: the run refines `AtomicRun` |
| `ClientImplementsSerialCalls` | `Spec => ImplementsSerialCalls`: the stdio client refines `SerialCalls` |
| `NoAnswerMissed` | `Spec => []AnswerNotMissed` |
| `FramesSeenOnce` | `Spec => []EveryFrameSeenOnce`; `OneReadOfTheChannel` is a part of it |
| `FailedEditWritesNothing` | `Spec => []FailureIsFinal` |
| `EditsAreSeen` | `~EditAfterReplace /\ ~EditAfterMeasure /\ Spec => []ReadsSeeTheChain` |
| `EditsAreWritten` | under the same conditions, `Spec => []CommitHoldsEveryEdit` |
| `ImplementsSequentially` | under the same conditions, `Spec => ImplementsSequentialEdits`: the handles refine `SequentialEdits` |
| `OneAtATime` | `Spec => []OneRunAtATime` |
| `FramesOnly` | `Spec => []StdoutCarriesFramesOnly` |
| `ZeroIsCommitted` | `Spec => []ZeroMeansCommitted` |
| `ChunksAreImmaterial` | `Spec => []ChunksDoNotMatter` |
| `BatchesFit` | `SeedsFit /\ Spec => []EveryBatchFits` |
| `FilesOnce` | `Spec => []EveryFileOnce` |
| `NoNameIsTwice` | `Editing => []NoNameTwice` |
| `WhatIsAskedIsDone` | `Editing => []AskedIsDone` |
| `NothingElseIsTouched` | `Editing => []NothingElseChanges` |
| `RejectionsAreFaithful` | `RejectionIsFaithful`, for a batch of any length and any answer of a host (from `RefusalsAreFaithful`) |
| `GateAndTypeAlwaysAgree` | `GateKeepsTheType`, for any schema and input (from `GateAndTypeAgree`) |
| `DialectsAlwaysCompose` | `DialectsCompose`, for dialects, packs and routes of any size (from `CompositionIsSound`) |
| `VehicleStandsIn` | `VehicleReadsAlike(directives)`, for a batch of any length over any files: alike unless a file is renamed within a folder other than the root or moved to the root |
| `ManifestsAreExact` | `ManifestNamesWhatRuns`, for a tree of any number of files with any imports (from `ManifestIsWhatRuns`) |
| `VerbsAlwaysReachTheEngine` | `VerbsReachTheEngine`, for a chain of verbs of any length over any tree, any options and any slot (from `HandlesFollowFiles`, `OptionsAreMeant` and `OneSession`) |
| `Recursion` | a function that is defined by recursion along a bounded measure exists |
| `FoldPrefix`, `FoldAppend`, `FoldInvariant` | lemmas the others cite: what a fold over a sequence is after one more element, and what it keeps |

- *Types and queue* (`RunBoundary_proofs`). That a batch is a range of the journal is not inductive alone. `QueueInv` adds
  that the batches in flight are disjoint, ascending and at most `spliced`; `CallerInv` that
  each caller has one call at most that is not late and stands at the point where it waits for it. Together with `TypeOK`
  they are inductive; everything else rests on them.
- *Errors* (same module). `ErrorInv`: a run with an error is on its failing path; `Steady`: from there it never
  returns, so no later reply finds a place to set another error.
- *Writing* (same module). `CommitInv`: the tree differs from its start only after a commit that landed;
  then the run is `ok`, or failed with a transport fault at its commit; and a late commit is one whose run has failed so.
- *Accounting* (same module). `EveryDirectiveAccountedFor` is inductive with the queue
  invariants; `OrderInv` (what is applied precedes what is queued) makes `AuthorOrder` follow.
- *Completion* (same module). `Completion` says what each point of the run has settled: no
  read is open once fn has returned, the registry knows every chunk flush, the drain finds all of
  them, the run-end flush leaves nothing; and whatever was dropped, or is late, has been
  reported to somebody. Without `~MayFloat` it is false, as `run_forgotten` shows.
- *Folds* (`Folding`). The reference definitions of the models fold over the journal, a batch or the frames of a host:
  `FoldLeft(Step, base, seq)`. The community module defines it by a recursive function, whose values are got here by
  induction over its domain, from the least element of a set of naturals; what follows are the theorems a proof about such a
  definition needs. `Step` is a parameter of `Folding`, so each module instantiates it with its own.
- *Reads and atomicity* (`RunBoundary_proofs`). `Reading`: as long as fn has not failed and nothing is dropped, the staged
  tree is the replay of the first directives of the journal, as many as are applied (`Staged`); a read queued behind
  its flush precedes every later batch (`Behind`), so that it sees all its author buffered before it and possibly more.
  `CommitLast`: a commit is alone at the head of the queue with the replay of the whole journal behind it. The steps then map to
  those of `AtomicRun`: a commit that lands is its `Commit`, the end of a run that failed its `Abort`, anything else a stutter or
  a directive that is added. An author who floats or catches breaks it (`run_forgotten`, `run_caught`).
- *Stdio client* (`StdioClient_proofs`, from `ClientAssumption`: `MaxCalls` and `MaxFrames` are naturals). Three parts carry each
  other. `Line`: calls are dispatched in the order of their numbers, so the abandoned ones come before the one that
  waits, and their loops run first (`CurrentIsLast`). `Waiting`: the one read that may be pending is `#danglingRead`, and a loop that waits
  does so for it or for a fault another loop has cleared; without it a call could issue a second read. `Minting`: no
  response seen carries an id still to be minted, so a call's answer is not discarded before it is dispatched.
  For the refinement, `Origins` adds that ids are not shared, that every response is some call's or foreign, and that
  a loop sees only what was sent: then `TakeAnswer` is a `Settle` with an answer given to the head of the line, and every other
  step a `Make`, a `Give`, a `Settle` with a failure, or a stutter. `FramesSeenOnce` rests on `SeenInOrder`: what the loops have
  taken, followed by what a settled read still holds, is what the generator has yielded.
- *Dialect handle* (`DialectHandle_proofs`, from `HandleAssumption`). `FailureIsFinal` is not inductive: a step begun on another handle
  must not reach past the drain. `Ended` says that past the drain every handle is settled, idle and not
  rejected; `Calling` that each caller has one call at most and stands where it waits for it, so that serving a call cannot
  restart a settled handle. Steps fall into those that make no call (`QuietStep`), those that make one (`CallStep`), the engine's and
  the run's.
- *Edits* (same module). An author who edits a loaded document he has replaced, or one that scaffold has measured, loses edits:
  `dialect_stale` and `dialect_measured` show the code doing so. The constants `EditAfterReplace` and `EditAfterMeasure` say whether
  he may (the second also, whether scaffold measures while a step of a handle with an open directive is at work); the three
  theorems assume that he does neither, and nothing else of him. Every reachable state of such a run is `Doomed`
  (it has failed and will write nothing) or `Hopeful`. The main fact of `Hopeful` is `Told`: the staged file, after the directives still
  on their way, is what the chain of its handle amounts to. It holds of a directive that has not been printed yet because of `Live`: the live
  document is what its path holds, until it is left behind and no longer printed. `Opened` says that a directive without content is
  the open one of its handle, `Ranges` that the batches divide what is on its way and that a read travels behind
  all directives of its path, `Standing` what each point of a step has established, `Answered` and `Finale` that answers given and a
  commit rest on it. A directive may be on its way to a path that an earlier one has removed (`Stuck`). The engine will refuse it, so
  the run cannot succeed, and `Told` asks nothing of that path. Contents at a point of the journal are walks (`Walk`, a fold over the printed directives);
  `WalksAgree` and `WalkPasses` carry them over a step that appends, prints, flushes or applies some of them. Each step
  then changes the document of one path at most, by one edit (`Progress`), which is the step of `SequentialEdits` it maps to.
- *Runner* (`Runner_proofs`, from `FramingAssumption`). `OneRunAtATime` is inductive with the types. `Protected`: an entry that is
  not a test's has captured stdout and redirected the console before any frame is written. `Asked`: what an attempt has
  asked for tells how far it has come, so code 0 can only follow the answer to a commit.
- *Chunks* (same module, with `HostsAssumption`: a host's stream is a list of bodies within the cap and a tail that begins no
  further one; every stream of bytes is). `Laid` says where each frame and the tail are in the stream. `DrainSlice`: a
  drain of any piece of it that begins with a frame, cut anywhere, yields the frames that are complete and leaves the rest; this is an
  induction backwards from the last of them. `Arrivals`, the inductive invariant: what an attempt has been fed is complete
  frames, all of them yielded, and a rest that is in the buffer.
- *Scaffold* (`Scaffold_proofs`, from `ScaffoldAssumption`: sizes are naturals, a reference to a file fits an empty batch, a
  folder holds finitely many entries and what is in it is a file, a folder, a link or something else). `Within`:
  the size the code counts is the size of what is pending, and neither a batch nor what is pending is over the budget. `SeedsFit`
  says it of what the author had pending when he called scaffold. The code does not see to that, it is the emit that
  refuses a batch over the cap.
- *Files* (same module). `EveryFileOnce` speaks of the end of the call, so the invariant says what the walk still owes. `Found`: whatever is
  listed, put off or found lies below real folders only, what is put off is a folder, and what is found is none. `Covered`: while
  nobody touches the folder, one of these is on the way to every file that can be reached; so when nothing is listed or put off any more, what is
  found is those files (`AllFound`). For a listing this needs that sorting loses no name (`SortedIs`: siblings differ in their last names, so the
  order is that of numbers). `Planned`: what is buffered, followed by what the pipeline has made of the rest, has one source for each file the
  filters keep and no destination twice; `Expand` moves its border and changes nothing in it (`PlannedExpand`). That no file comes twice needs no invariant
  of the walk: two equal sources would have one destination, and the collision check rejects that.
- *Names of a file* (`ModuleEdits_proofs`, from `ModuleAssumption`: names are numbers, modules sequences of segments, and the author
  starts from files the compiler takes). The invariant is that the file is one the compiler takes (`Compilable`), and the work is
  in the operations, for files of any length. `Follows` says that each declaration of the new file stands for another of the old one and binds
  what that one did, and only one of them, if any, one free name besides; `Rebound` that such a file is compilable again. `PutIn`, `Changed` and
  `TakenOut` are the three ways in which the operations edit the list (`WithoutIs`: a declaration that loses its last name loses
  its braces, if a default keeps it, and stays one the language knows); sorting is a fourth, for which `ArrangedIs` shows that the
  order `sortImports` follows is one: for each place there is exactly one declaration with that many before it (`EveryRank`), as modules are
  ordered (`PrecedesOn`, `PrecedesEither`) and what a side-effect import keeps apart stays in order (`ApartIs`). `Reexporting` does for the exports what
  `Rebound` does for the imports. That two names in one pair of braces
  differ is part of the invariant, as no comparison of whole declarations says it (`Distinct`, kept by `StayDistinct`).
- *What an operation has done* (same module). Each operation is followed to the place where it returns: what it found (`BoundIs`,
  `ExistingIs`) or wrote (`PutInIs`, `ChangedIs`) is a binding of the kind asked for. The invariant is needed once: `removeImport` takes the
  first specifier of that name, and what is left is another binding only because no name is bound twice (`RemoveImportTakes`).
- *Nothing else* (same module). An operation that adds an import leaves the file or one with one import more
  (`OneMore`), put in or added to a declaration, so every part of its meaning has at most one element more (`Grows`, from `MoreBy`) and the other imports
  stay in order (`ImportsGrow`). Those that come with a list entry, a route or a member change that part first (`ThenImports`).
  Removals lose nothing but what they name (`LosesImports`, `LosesExports`). Done again, an operation finds the binding that
  `WhatIsAskedIsDone` says it made (`AddImportAgain`, `ExistingAgain`, ...). Sorting gives each declaration the place of its rank (`SortedAs`). A
  side-effect import has the rank of its place, as it is apart from every other, and no declaration passes it (`BarrierStands`); so what was apart is
  still apart, the order of the result is the one it stands in, and sorting it again does nothing (`SortedStays`, from
  `Settled`).
- *Algorithms* (`Packages_proofs`). These theorems say of any input what the run `packages` compares on small ones; their
  hypotheses are the shapes of the inputs and, for `CompositionIsSound`, that the dialect that is extended has no operation with the name of a
  verb, which `defineDialect` takes for granted. Refusals and the gate are cases, over every code and every kind of property. Packs
  that share no name can be laid over one another in either order (`OrderIsImmaterial`), and those that share one are refused in any;
  of the extensions that a router knows and that end a name, one is longest, and it is the one the type picks. For the vehicle the
  invariant over the batch is `Alike`: both have refused, or both read the same of every path. For the manifest, `Kept` is the invariant of the walk: all
  it has visited or queued is in every closed set (`Needed`), and what it has visited without a violation has its imports visited or
  queued (`Accounted`). `Work`, what is queued and the specifiers not yet seen, goes down with every visit, so the walk ends with an
  empty queue (`WalkEnds`), and then what it has visited is closed, hence the least closed set.
- *Verbs* (same module). Two folds run over one chain: the kit's, which makes handles and directives, and the engine's, which takes the
  directives. `IsHandle` is kept by the first: a handle has a path, with a segment at least (`JoinIsPath`, `DirnameIsPath`), unless the last
  verb was `remove`. `Told` relates both after every verb: while nothing is refused the engine's tree holds, at the handle's path, what the
  verbs so far have made of the file, and everything else as before or under a directive that names it; once one is refused the tree
  and the count of the taken stay (`ToldStep`). The proof needs of a path that both sides compute the same one, which is where a name
  joined to no directory (`RenamedByJoin`) would fail. A path is a sequence with a segment at least.
- *Options* (same module). The code walks from an option down with the set of ancestors in hand, so what is shared is walked again at each place;
  the reference asks of the set of all that can be reached. That each walk is a function at all comes from `Recursion` of `Folding`, as the
  objects that are no ancestors get fewer (`FewerApart`); the same measure carries the induction (`Deepening`). The claim that is inductive has the
  ancestors in it: at an object, the walk admits what is clean below it *and* reaches none of its ancestors (`WalkAdmits`); an object is clean if
  the objects it holds are, below it as one ancestor more (`CleanStep`, from the least-set facts `FromIs` and `ReachedFromEach`). What the walk
  admits has the same text as meaning, by the same induction (`WalkMeans`).

Only model-checked, and why:

- The liveness properties: out of this prover's reach.
- The other algorithms: the editors of documents, `LiteralEdits`, `JsxEdits`, `AngularEdits`, `ProjectCodegen`, `RunnerGates`, `PackageSources`,
  `JsonLocator` and what the conformance suite admits are, in the main, recursive operators over trees and texts, about
  which it proves nothing; they are compared over bounded inputs.

## 6. Running it

    tlc -workers 2 -config RunAttentive.cfg MCRunBoundary     (also RunFloating, RunCaught, RunForgotten)
    tlc -workers 2 -config StdioTimeouts.cfg StdioClient
    tlc -workers 2 -config DialectHandle.cfg DialectHandle    (also DialectStale, DialectMeasured)
    tlc -workers 2 -config Runner.cfg MCRunner
    tlc -workers 2 -config Packages.cfg MCPackages
    tlc -workers 2 -config Documents.cfg MCDocuments          (also JsonComments)
    tlapm RunBoundary_proofs.tla                              (also the other modules *_proofs, and Folding)

Some modules hold *slips*: an operator named for a plausible bug (`DrainSwallows`,
`SpliceCopies`, `ZombieSwallows`, `RouteShortest`, `RemoveLeavesComma`, ...) before the definition it varies. Put in the place of
that definition, each makes one property fail; `PROJECT.json` lists them under "mutants".

## 7. Plan

Done: the run, the stdio client, the dialect handle and the runner with their proofs, scaffold, the algorithms of section 2 and
the editors. What would come next, in this order:

1. Two handles on one path, and `copy`, in `DialectHandle`.
2. The layout that the JSON dialect infers for a file (indentation, line ends, byte order mark).

## 8. Not modelled

- The translation and cleaning of error texts (`core/error-text.ts`): wording.
- The admission of capabilities (`scripts/capability-admission.ts`) and the release and bundling scripts: lists of syntax
  that a built file may hold. `RunnerManifest` takes their verdict on a file as given.
- The author's test runner composes `defineFactory` and the fake, both of which are modelled.
- The layout that is inferred for a text (indentation, CRLF, byte order mark) and what YAML's own library prints.
- Comments and formatting in TypeScript and CSS; the parsers, which are libraries.
- In `DialectHandle`: copy, and two handles on the same path.
- Filters: `**` is compared with its reference where it stands as a whole segment of a pattern.
