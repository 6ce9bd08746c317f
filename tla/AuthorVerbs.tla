---------------------------- MODULE AuthorVerbs ----------------------------
(***************************************************************************)
(* What an author calls (src/commons/index.ts, core/context.ts) and what   *)
(* the engine receives of it (core/directive-factory.ts): the handles that *)
(* follow a file from verb to verb, the directives as the author may list  *)
(* them (src/pending-directives/render.ts), the encoding of options, and   *)
(* the one slot through which several copies of the SDK in a process find  *)
(* the session.                                                            *)
(*                                                                         *)
(* A path is the sequence of its segments; "" stands where two slashes     *)
(* meet or one ends the path, and no path begins with one.                 *)
(***************************************************************************)
EXTENDS Rejections, Sequences, FiniteSets, SequencesExt

Undefined == "undefined"
NoHandle == <<>>

(* A record or a tree in which something is at key.                        *)
With(entries, key, value) ==
  [k \in DOMAIN entries \cup {key} |-> IF k = key THEN value ELSE entries[k]]

-----------------------------------------------------------------------------
(* node:path                                                               *)

Stripped(path) == SubSeq(path, 1, SelectLastInSeq(path, LAMBDA s : s # ""))
Dirname(path) == IF Len(Stripped(path)) <= 1 THEN <<".">> ELSE Front(Stripped(path))
Basename(path) == Last(Stripped(path))

(* "." and "" say nothing, but for a slash at the end; ".." takes back     *)
(* what is before it.                                                      *)
Resolve(kept, s) ==
  IF s \in {"", "."} THEN kept
  ELSE IF s = ".." /\ kept # <<>> /\ Last(kept) # ".." THEN Front(kept)
  ELSE Append(kept, s)
OrHere(path) == IF path = <<>> THEN <<".">> ELSE path
Normalize(path) == OrHere(FoldLeft(Resolve, <<>>, path)) \o (IF Last(path) = "" THEN <<"">> ELSE <<>>)

Join(dir, path) == Normalize(dir \o path)

-----------------------------------------------------------------------------
(* The factory of directives.                                              *)

(* forceEntry: no key for what was not given.                              *)
ForceEntry(directive, force) == IF force = Undefined THEN directive ELSE With(directive, "force", force)

Directive(call, path) ==
  CASE call.verb = "create" -> ForceEntry([op |-> "create", path |-> path, content |-> call.content], call.force)
    [] call.verb = "replaceContent" -> [op |-> "modify", path |-> path, content |-> call.content]
    [] call.verb = "remove" -> [op |-> "delete", path |-> path]
    [] call.verb = "rename" -> ForceEntry([op |-> "rename", path |-> path, newName |-> call.to], call.force)
    [] call.verb = "move" -> ForceEntry([op |-> "move", path |-> path, toDir |-> call.to], call.force)
    [] OTHER -> ForceEntry([op |-> call.verb, from |-> path, to |-> call.to], call.force)

-----------------------------------------------------------------------------
(* The verbs.                                                              *)

(* A slip: the new name is joined to any directory.                        *)
RenamedByJoin(path, newName) == Join(Dirname(path), newName)

Renamed(path, newName) ==
  IF Dirname(path) = <<".">> THEN newName ELSE Join(Dirname(path), newName)

Moved(path, toDir) == Join(toDir, <<Basename(path)>>)

(* The path of the handle that a verb returns.                             *)
ResultPath(call, path) ==
  CASE call.verb \in {"create", "replaceContent"} -> path
    [] call.verb = "rename" -> Renamed(path, call.to)
    [] call.verb = "move" -> Moved(path, call.to)
    [] call.verb = "copy" -> call.to
    [] OTHER -> NoHandle

(* A write returns a handle without remove; find() returns one with it.    *)
WritableOps == {"replaceContent", "rename", "move", "copy"}
FoundOps == WritableOps \cup {"remove"}

Find(path) == [path |-> path, ops |-> FoundOps, buffer |-> <<>>]

Invoke(handle, call) ==
  [path |-> ResultPath(call, handle.path),
   ops |-> IF call.verb = "remove" THEN {} ELSE WritableOps,
   buffer |-> Append(handle.buffer, Directive(call, handle.path))]

(* create and copyIn have no handle to be called on.                       *)
Legal(handle, call) == call.verb \in handle.ops

Chain(path, calls) == FoldLeft(Invoke, Find(path), calls)

IsLegal(path, calls) == \A k \in DOMAIN calls : Legal(Chain(path, SubSeq(calls, 1, k - 1)), calls[k])

(* renderPendingDirectives                                                 *)
RenderPending(directives) ==
  [i \in DOMAIN directives |->
     LET d == directives[i]
         entry == [verb |-> IF d.op = "delete" THEN "remove" ELSE d.op,
                   path |-> IF d.op \in {"copy", "copyIn"} THEN d.from ELSE d.path]
     IN CASE d.op = "create" -> With(entry, "kind", "rendered")
          [] d.op = "copyIn" -> With(entry, "kind", "copied")
          [] OTHER -> entry]

-----------------------------------------------------------------------------
(* The engine: a tree from paths, as written, to contents.                 *)

Destination(d) ==
  CASE d.op = "rename" -> IF Dirname(d.path) = <<".">> THEN d.newName ELSE Join(Dirname(d.path), d.newName)
    [] d.op = "move" -> Join(d.toDir, <<Basename(d.path)>>)
    [] d.op = "copy" -> d.to
    [] OTHER -> d.path

Without(tree, path) == [p \in DOMAIN tree \ {path} |-> tree[p]]

Forced(d) == "force" \in DOMAIN d /\ d.force = "true"

Collides(tree, d, source, to) ==
  /\ d.op \in {"create", "rename", "move", "copy"}
  /\ ~(d.op = "move" /\ to = source) /\ to \in DOMAIN tree /\ ~Forced(d)
CheckFrom(tree, d, source) ==
  IF d.op \notin {"create", "delete"} /\ source \notin DOMAIN tree THEN "not-found"
  ELSE IF Collides(tree, d, source, Destination(d)) THEN "collision" ELSE "ok"
Check(tree, d) == CheckFrom(tree, d, IF d.op = "copy" THEN d.from ELSE d.path)

Applied(tree, d) ==
  CASE d.op \in {"create", "modify"} -> With(tree, d.path, d.content)
    [] d.op = "delete" -> Without(tree, d.path)
    [] d.op \in {"rename", "move"} -> With(Without(tree, d.path), Destination(d), tree[d.path])
    [] OTHER -> With(tree, d.to, tree[d.from])

(* The batch is taken one directive after the other, until one is refused. *)
Took(run, d, code) ==
  IF code = "ok" THEN [run EXCEPT !.tree = Applied(@, d), !.done = @ + 1] ELSE [run EXCEPT !.code = code]
Take(run, d) == IF run.code = "ok" THEN Took(run, d, Check(run.tree, d)) ELSE run
Emit(tree, batch) ==
  LET Start(code) == [tree |-> tree, done |-> 0, code |-> code]
  IN IF \E i \in DOMAIN batch : "force" \in DOMAIN batch[i] /\ batch[i].force = Undefined
     THEN Start("unrepresentable") ELSE FoldLeft(Take, Start("ok"), batch)

(* Reference: what the chain of verbs means for the file it begins with.   *)
Text(content, calls) ==
  LET writes == {i \in DOMAIN calls : calls[i].verb = "replaceContent"}
  IN IF writes = {} THEN content ELSE calls[CHOOSE i \in writes : \A j \in writes : j <= i].content

Follows(tree, path, calls, handle, after) ==
  /\ handle.path # NoHandle /\ path \in DOMAIN tree =>
       handle.path \in DOMAIN after /\ after[handle.path] = Text(tree[path], calls)
  /\ calls # <<>> /\ handle.path = NoHandle => Last(RenderPending(handle.buffer)).path \notin DOMAIN after
  /\ \A p \in DOMAIN tree :
       \/ p \in DOMAIN after /\ after[p] = tree[p]
       \/ \E d \in ToSet(handle.buffer) :
            ("path" \in DOMAIN d /\ d.path = p) \/ (Forced(d) /\ Destination(d) = p)

IsListed(error, shown) == error.verb = shown.verb /\ error.path = shown.path

(* When the engine takes all that a chain of verbs has buffered, the       *)
(* handle that it ended with reads what the chain has made of the file, a  *)
(* directive without force overwrites nothing, and whatever else there was *)
(* is as before.  When it refuses one, the error names the verb and the    *)
(* path under which the author's own list shows the directive.             *)
HandleFollowsFile(tree, path, calls) ==
  IsLegal(path, calls) =>
    \E handle \in {Chain(path, calls)} : \E run \in {Emit(tree, handle.buffer)} :
      IF run.code = "ok" THEN Follows(tree, path, calls, handle, run.tree)
      ELSE /\ run.code \in {"not-found", "collision"}
           /\ IsListed(ToAuthoringError(EmitRejection(run.code, run.done, run.done), handle.buffer),
                       RenderPending(handle.buffer)[run.done + 1])

-----------------------------------------------------------------------------
(* Options.  A value is a kind, or <<"ref", n>> for the object n of a heap *)
(* in which an object has a class and the values it holds; "text" stands   *)
(* for all that JSON keeps, "nan" for numbers that are not finite.         *)

Lost == {"undefined", "function", "symbol", "bigint"}
Is(value, kind) == value[1] = kind
ClassOf(heap, value) == IF Is(value, "ref") THEN heap[value[2]].class ELSE "none"
Composite(heap, value) == ClassOf(heap, value) \in {"array", "object"}

(* The functions below take an object and those it was reached through,    *)
(* among which it is found again when it holds itself.                     *)
Visits(heap) == (SUBSET DOMAIN heap) \X DOMAIN heap

(* What holds no refused kind, at any depth, nothing but arrays and plain  *)
(* objects, and not itself; a value that is held twice is no cycle.        *)
Admits(heap, value, refused) ==
  LET inside[at \in Visits(heap)] ==
        /\ heap[at[2]].class \in {"array", "object"} /\ at[2] \notin at[1]
        /\ \A v \in ToSet(heap[at[2]].holds) :
              v[1] \notin refused /\ (Is(v, "ref") => inside[<<at[1] \cup {at[2]}, v[2]>>])
  IN value[1] \notin refused /\ (Is(value, "ref") => inside[<<{}, value[2]>>])

AssertEncodable(heap, value) == Admits(heap, value, Lost)

(* The JSON dialect takes no number that is not finite.                    *)
AssertJsonValue(heap, value) == Admits(heap, value, Lost \cup {"nan"})

(* JSON.parse(JSON.stringify(value)); a field that is dropped leaves Gone. *)
Gone == <<"gone">>
Plain(value) == IF Is(value, "nan") THEN <<"null">> ELSE value
Serialized(heap, value) ==
  LET text[at \in Visits(heap)] ==
        LET class == heap[at[2]].class
            Below(v) == IF Is(v, "ref") THEN text[<<at[1] \cup {at[2]}, v[2]>>] ELSE Plain(v)
            Kept(v) == IF v[1] \notin Lost THEN Below(v) ELSE IF class = "array" THEN <<"null">> ELSE Gone
        IN CASE class = "map" -> <<"object", <<>>>>
             [] class \in {"array", "object"} /\ at[2] \notin at[1] ->
                  <<class, [i \in DOMAIN heap[at[2]].holds |-> Kept(heap[at[2]].holds[i])]>>
             [] OTHER -> Gone
  IN IF Is(value, "ref") THEN text[<<{}, value[2]>>] ELSE Plain(value)

Bag(heap) == heap[1].holds

(* encodeOptions, of the object 1: what is composite travels as JSON text. *)
Refuses(heap) == \E v \in ToSet(Bag(heap)) : ~AssertEncodable(heap, v)

EncodeOptions(heap) ==
  [i \in DOMAIN Bag(heap) |->
     IF Composite(heap, Bag(heap)[i]) THEN <<"json", Serialized(heap, Bag(heap)[i])>> ELSE Bag(heap)[i]]

(* deepEqual with what came back from JSON, of the encoded options.        *)
RoundTrips(options) == \A i \in DOMAIN options : options[i][1] \notin Lost \cup {"nan", "ref"}

(* Reference: what can be reached from a value, and what it means.         *)
Next(heap, ids) ==
  {v[2] : v \in {w \in UNION {ToSet(heap[i].holds) : i \in ids} : Is(w, "ref")}}
Reached(heap, ids) ==
  CHOOSE S \in SUBSET DOMAIN heap :
    /\ ids \cup Next(heap, S) \subseteq S
    /\ \A T \in SUBSET S : ids \cup Next(heap, T) \subseteq T => T = S

From(heap, value) == IF Is(value, "ref") THEN Reached(heap, {value[2]}) ELSE {}
Holds(heap, value, kinds) ==
  value[1] \in kinds \/ \E i \in From(heap, value) : \E v \in ToSet(heap[i].holds) : v[1] \in kinds

HasNoJson(heap, value) ==
  \/ Holds(heap, value, Lost)
  \/ \E i \in From(heap, value) : heap[i].class = "map" \/ i \in Reached(heap, Next(heap, {i}))

Meant(heap, value) ==
  LET meaning[at \in Visits(heap)] ==
        LET object == heap[at[2]]
        IN <<object.class, IF at[2] \in at[1] THEN "itself" ELSE
              [i \in DOMAIN object.holds |->
                 IF Is(object.holds[i], "ref") THEN meaning[<<at[1] \cup {at[2]}, object.holds[i][2]>>]
                 ELSE Plain(object.holds[i])]>>
  IN IF Is(value, "ref") THEN meaning[<<{}, value[2]>>] ELSE Plain(value)

(* A bag of options is refused if it holds a value that has no JSON, at    *)
(* any depth, and only then; any other arrives whole, but for a number     *)
(* that is not finite, which the engine refuses at the top and which       *)
(* becomes null below.  The JSON dialect refuses the same values and, at   *)
(* any depth, those numbers.                                               *)
OptionsArrive(heap) ==
  LET sent == EncodeOptions(heap)
  IN /\ Refuses(heap) <=> \E v \in ToSet(Bag(heap)) : HasNoJson(heap, v)
     /\ ~Refuses(heap) =>
          /\ RoundTrips(sent) <=> <<"nan">> \notin ToSet(Bag(heap))
          /\ RoundTrips(sent) =>
               \A i \in DOMAIN sent :
                 (IF Is(sent[i], "json") THEN sent[i][2] ELSE sent[i]) = Meant(heap, Bag(heap)[i])
     /\ \A v \in ToSet(Bag(heap)) :
          AssertJsonValue(heap, v) <=> ~HasNoJson(heap, v) /\ ~Holds(heap, v, {"nan"})

-----------------------------------------------------------------------------
(* The slot of the process.  A realm is one copy of the SDK.               *)

Absent == <<"absent">>
Foreign == <<"foreign">>
Storage(realm) == <<"storage", realm>>
Failed == <<"error">>

(* resolveSessionAls                                                       *)
ResolveSessionAls(slot, realm) ==
  CASE slot = Absent -> Storage(realm)
    [] slot = Foreign -> Failed
    [] OTHER -> slot

(* getSessionAls, what it leaves in the slot.                              *)
Installed(slot, realm) == IF slot = Absent THEN ResolveSessionAls(slot, realm) ELSE slot

(* currentContext: running is the storage that the run is inside, if any.  *)
CurrentContext(slot, realm, running) ==
  IF ResolveSessionAls(slot, realm) = Failed THEN "occupied"
  ELSE IF ResolveSessionAls(slot, realm) = running THEN "session"
  ELSE "outside-session"

(* Whichever copies of the SDK load, run and call, and in whatever order   *)
(* they touched the slot, a verb finds the session of its run and finds    *)
(* none outside; a value that someone else put there stays as it is.       *)
OneSessionForAllRealms(slot, early, runner, caller) ==
  LET touched == Installed(slot, early)
      running == ResolveSessionAls(touched, runner)
      during == Installed(touched, runner)
  IN /\ slot = Foreign => during = Foreign /\ running = Failed
     /\ slot # Foreign =>
          /\ CurrentContext(slot, early, Absent) = "outside-session"
          /\ CurrentContext(during, caller, running) = "session"
          /\ during = touched
=============================================================================
