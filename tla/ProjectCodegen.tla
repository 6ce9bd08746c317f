--------------------------- MODULE ProjectCodegen ---------------------------
(***************************************************************************)
(* pbuilder-codegen (src/bin/pbuilder-codegen.ts): which packages of a     *)
(* project it finds (src/bin/project-codegen.ts), and for which of them it *)
(* writes schema.generated.ts.                                             *)
(*                                                                         *)
(* A file system maps paths, sequences of names, to nodes; what is in a    *)
(* file is given with its node.  Links form no cycles.                     *)
(***************************************************************************)
EXTENDS Naturals, Sequences, FiniteSets
LOCAL INSTANCE SequencesExt
LOCAL INSTANCE TLC

Folder == [kind |-> "folder"]
Link(to) == [kind |-> "link", to |-> to]
File(content) == [kind |-> "file", valid |-> TRUE, content |-> content]
Broken == [kind |-> "file", valid |-> FALSE]

Missing == <<"missing">>
Schema == "schema.json"
Output == "schema.generated.ts"
Config == "project-builder.json"

-----------------------------------------------------------------------------
(* The file system.                                                        *)

(* realpathSync                                                            *)
RECURSIVE Real(_, _)
Real(fs, path) ==
  LET Linked(at) == IF at \notin DOMAIN fs THEN Missing ELSE IF fs[at].kind = "link" THEN Real(fs, fs[at].to) ELSE at
      Within(parent) == IF parent = Missing THEN Missing ELSE Linked(Append(parent, Last(path)))
  IN IF path = <<>> THEN <<>> ELSE Within(Real(fs, Front(path)))

(* statSync follows links, lstatSync all but the last.                     *)
NodeAt(fs, real) ==
  IF real = <<>> THEN Folder ELSE IF real \notin DOMAIN fs THEN [kind |-> "missing"] ELSE fs[real]
Stat(fs, path) == NodeAt(fs, Real(fs, path))

LeafIn(fs, parent, name) ==
  IF parent = Missing THEN [kind |-> "missing"] ELSE NodeAt(fs, Append(parent, name))
LeafOf(fs, path) == LeafIn(fs, Real(fs, Front(path)), Last(path))

IsFile(fs, path) == Stat(fs, path).kind = "file"
Exists(fs, path) == Stat(fs, path).kind # "missing"

Deepest(path, depths) ==
  IF depths = {} THEN Missing ELSE SubSeq(path, 1, CHOOSE n \in depths : \A m \in depths : m <= n)
(* The nearest of a folder and those above it that holds a name.           *)
Nearest(path, Holds(_)) ==
  Deepest(path, {n \in 0..Len(path) : Holds(SubSeq(path, 1, n))})

Or(found, other) == IF found = Missing THEN other ELSE found
FindProjectRoot(fs, cwd) == Or(Nearest(cwd, LAMBDA dir : Exists(fs, Append(dir, "package.json"))), cwd)

RealOf(fs, there, path) == Real(fs, there) \o SubSeq(path, Len(there) + 1, Len(path))
RealpathNearestExisting(fs, path) == RealOf(fs, Nearest(path, LAMBDA p : Exists(fs, p)), path)

IsWithin(anchor, target) == IsPrefix(anchor, target)

OutputLeafIsSafe(fs, path) == LeafOf(fs, path).kind \in {"missing", "file"}

WriteContained(fs, dir, anchor) ==
  /\ IsWithin(anchor, RealpathNearestExisting(fs, dir))
  /\ OutputLeafIsSafe(fs, Append(dir, Output))
  /\ IsWithin(anchor, RealpathNearestExisting(fs, Append(dir, Output)))

-----------------------------------------------------------------------------
(* One package.  A schema is sufficient, insufficient or broken.           *)

Suffices(node) == node.kind = "file" /\ node.valid /\ node.content = "sufficient"
GenerateSchema(fs, dir) == Suffices(Stat(fs, Append(dir, Schema)))

(* runCli with a directory: the outputs written.                           *)
RunCli(fs, cwd, dir) ==
  IF WriteContained(fs, dir, Real(fs, FindProjectRoot(fs, cwd))) /\ GenerateSchema(fs, dir)
  THEN {Append(dir, Output)} ELSE {}

-----------------------------------------------------------------------------
(* The packages of a project.  A configuration is a sequence of            *)
(* collections in the order of their names; an entry is the directory of a *)
(* package, or Failure.                                                    *)

Failure == <<"failure">>

(* A slip: the directory as it is named, which a link may rename.          *)
ModuleTargetAsNamed(fs, path) == IF path # Failure /\ IsFile(fs, path) THEN Front(path) ELSE Failure

ModuleTarget(fs, path) ==
  IF path # Failure /\ IsFile(fs, path) THEN Front(Real(fs, path)) ELSE Failure

(* Exactly one factory, and no other node in the place of one.             *)
OnlyFile(fs, path, leaves) == Cardinality(leaves) = 1 /\ \A leaf \in leaves : IsFile(fs, Append(path, leaf))
DirectoryTarget(fs, path) ==
  IF /\ path # Failure /\ Stat(fs, path) = Folder
     /\ OnlyFile(fs, path, {leaf \in {"factory.ts", "factory.js"} : Exists(fs, Append(path, leaf))})
  THEN Real(fs, path) ELSE Failure

(* A collection names a manifest, whose schematics point at modules, by    *)
(* their paths or as Failure; or it holds its schematics, by directory,    *)
(* and those that are inline.                                              *)
Modules(fs, manifest) ==
  IF manifest.kind = "file" /\ manifest.valid
  THEN [i \in DOMAIN manifest.content |-> ModuleTarget(fs, manifest.content[i])] ELSE <<Failure>>
EntriesOf(fs, root, collection) ==
  CASE collection.kind = "odd" -> <<Failure>>
    [] collection.kind = "manifest" -> Modules(fs, Stat(fs, root \o collection.path))
    [] collection.kind = "direct" ->
         [i \in DOMAIN collection.schematics |->
            IF collection.schematics[i].inline THEN Failure
            ELSE DirectoryTarget(fs, root \o collection.schematics[i].path)]

NotFound == [ok |-> FALSE]

Configured(fs, root, config) ==
  IF config.kind # "file" THEN NotFound
  ELSE IF ~config.valid THEN NotFound
  ELSE [ok |-> TRUE, root |-> root,
        entries |-> FlattenSeq([i \in DOMAIN config.content |-> EntriesOf(fs, root, config.content[i])])]
ProjectAt(fs, root) == IF root = Missing THEN NotFound ELSE Configured(fs, root, Stat(fs, Append(root, Config)))
Discovered(fs, selected) == IF selected = Missing THEN NotFound ELSE ProjectAt(fs, Real(fs, selected))

DiscoverProject(fs, cwd, directory) ==
  Discovered(fs, Or(directory, Nearest(cwd, LAMBDA dir : LeafOf(fs, Append(dir, Config)).kind # "missing")))

Tally == [seen |-> {}, written |-> <<>>, failed |-> 0, duplicates |-> 0]

Process(fs, root, tally, entry) ==
  IF entry = Failure \/ ~WriteContained(fs, entry, root) THEN [tally EXCEPT !.failed = @ + 1]
  ELSE IF entry \in tally.seen THEN [tally EXCEPT !.duplicates = @ + 1]
  ELSE IF ~GenerateSchema(fs, entry)
  THEN [tally EXCEPT !.seen = @ \cup {entry}, !.failed = @ + 1]
  ELSE [tally EXCEPT !.seen = @ \cup {entry}, !.written = Append(@, Append(entry, Output))]

(* runProject                                                              *)
WithExit(tally) == tally @@ [exit |-> IF tally.failed > 0 THEN 1 ELSE 0]
RunDiscovered(fs, project) ==
  IF ~project.ok THEN Tally @@ [exit |-> 1]
  ELSE WithExit(FoldLeft(LAMBDA t, e : Process(fs, project.root, t, e), Tally, project.entries))
RunProject(fs, cwd, directory) == RunDiscovered(fs, DiscoverProject(fs, cwd, directory))

-----------------------------------------------------------------------------
IsAccountedFor(fs, project, result, written) ==
  /\ \A o \in written : IsPrefix(project.root, o) /\ Front(o) = Real(fs, Front(o)) /\ ~(o \in DOMAIN fs /\ fs[o].kind # "file")
  /\ Cardinality({Real(fs, Front(o)) : o \in written}) = Len(result.written)
  /\ project.ok =>
       /\ result.exit = 0 <=> \A e \in ToSet(project.entries) : Append(e, Output) \in written
       /\ \A e \in ToSet(project.entries) \ {Failure} :
             Append(e, Output) \in written <=> IsWithin(project.root, e) /\ RunCli(fs, e, e) # {}
       /\ Len(result.written) + result.failed + result.duplicates = Len(project.entries)

(* Each package of the project that can be generated is, once, whatever it *)
(* is called and whatever is wrong with the others; nothing is written     *)
(* outside the project or through a link; the exit code tells if a package *)
(* is missing; and each could have been generated by itself.               *)
ProjectIsAccountedFor(fs, cwd, directory) ==
  \E project \in {DiscoverProject(fs, cwd, directory)}, result \in {RunProject(fs, cwd, directory)} :
    IsAccountedFor(fs, project, result, ToSet(result.written))
=============================================================================
