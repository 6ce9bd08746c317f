--------------------------- MODULE RunnerManifest ---------------------------
(***************************************************************************)
(* The files that the runner consists of: the walk along static imports    *)
(* from its entry (scripts/derive-runner-closure.ts), the manifest of      *)
(* their digests that the build writes                                     *)
(* (scripts/generate-runner-manifest.ts), and the baseline of the graph    *)
(* (scripts/regen-closure-baseline.ts).                                    *)
(*                                                                         *)
(* A path is a number, its place in the order of bytes.  A tree maps the   *)
(* paths of the build to what is found there; a file is its static imports *)
(* and re-exports in order, how often it calls import(), and whether       *)
(* capability-admission.ts admits all that it does.                        *)
(***************************************************************************)
EXTENDS Naturals, Sequences, FiniteSets, SequencesExt

CONSTANTS
  Entry,       \* bin/pbuilder-runner.js
  Sanctioned,  \* transport/runner.js, which imports the author's module
  Anchor       \* transport/single-instance-probe.js

Violation(rule, file) == [rule |-> rule, file |-> file]

-----------------------------------------------------------------------------
(* One file.                                                               *)

(* The one import() of the closure is the first in the sanctioned file.    *)
Constraint2Violations(file, path) ==
  IF path = Sanctioned
  THEN {Violation("constraint-2-second-site", path) : i \in 2..file.dynamic}
  ELSE {Violation("constraint-2-dynamic-import", path) : i \in 1..file.dynamic}

CapabilityViolations(file, path) ==
  IF file.admitted THEN {} ELSE {Violation("constraint-4", path)}

(* A slip: re-exports are no imports.                                      *)
SitesOfImports(file) == file.imports

StaticSpecifierSites(file) == file.imports \o file.exports

Edge(from, specifier) == [from |-> from, to |-> specifier.to]
IsEdge(c) == "to" \in DOMAIN c

IsRelative(specifier) == specifier.form = "relative"
IsInside(file) == file.at # "outside"

(* A specifier is a builtin, an edge, or a violation; there is no other.   *)
ClassifySpecifier(tree, from, specifier) ==
  LET to == specifier.to IN
  CASE specifier.form = "node" -> [builtin |-> to]
    [] IsRelative(specifier) ->
         IF to \notin DOMAIN tree THEN Violation("unresolvable-specifier", from)
         ELSE IF ~IsInside(tree[to]) THEN Violation("symlink-escape", from)
         ELSE IF tree[to].at = "folder" THEN Violation("directory-specifier", from)
         ELSE Edge(from, specifier)
    [] specifier.form = "bare-builtin" -> Violation("constraint-3a-unprefixed-builtin", from)
    [] specifier.form = "bare" -> Violation("constraint-3-bare-specifier", from)
    [] OTHER -> Violation("unclassifiable-construct", from)

-----------------------------------------------------------------------------
(* The walk.                                                               *)

Start == [nodes |-> {}, edges |-> {}, builtins |-> {}, violations |-> {}, bytes |-> {}, queue |-> <<Entry>>]

Push(queue, c) == IF IsEdge(c) THEN Append(queue, c.to) ELSE queue

Visit(walk, tree) ==
  LET current == Head(walk.queue)
      file == tree[current]
      sites == StaticSpecifierSites(file)
      found == [i \in DOMAIN sites |-> ClassifySpecifier(tree, current, sites[i])]
      popped == [walk EXCEPT !.queue = Tail(@), !.nodes = @ \cup {current}]
  IN IF walk.queue = <<>> THEN walk
     ELSE IF current \in walk.nodes THEN [walk EXCEPT !.queue = Tail(@)]
     ELSE IF current \notin DOMAIN tree \/ file.at # "file" \/ ~file.readable
     THEN [popped EXCEPT !.violations = @ \cup {Violation("unreadable-file", current)}]
     ELSE [popped EXCEPT
             !.bytes = @ \cup {current},
             !.edges = @ \cup {c \in ToSet(found) : IsEdge(c)},
             !.queue = FoldLeft(Push, @, found),
             !.builtins = @ \cup {c.builtin : c \in {d \in ToSet(found) : "builtin" \in DOMAIN d}},
             !.violations = @ \cup Constraint2Violations(file, current)
                              \cup CapabilityViolations(file, current)
                              \cup {c \in ToSet(found) : "rule" \in DOMAIN c}]

(* The loop ends when the queue is empty, which it is after a visit for    *)
(* the entry and one for each specifier there is, if not before.           *)
Sites(tree) ==
  UNION {{f} \X DOMAIN StaticSpecifierSites(tree[f]) : f \in {g \in DOMAIN tree : tree[g].at = "file"}}

DeriveRunnerClosure(tree) ==
  FoldLeft(Visit, Start, [n \in 1..(1 + Cardinality(Sites(tree))) |-> tree])

(* The exemption of the anchor holds for a file of the closure only.       *)
FindAnchorDriftViolations(nodes) ==
  IF Anchor \in nodes THEN {} ELSE {Violation("unclassifiable-construct", Anchor)}

-----------------------------------------------------------------------------
(* The manifest.  A disk holds the manifest and the file it is written to  *)
(* first, each as None, Partial, or a sequence of paths.                   *)

None == <<0>>
Partial == <<1, 0>>
Package == 99       \* package.json, behind all that is in dist

InOrder(paths) == \A i, j \in DOMAIN paths : i < j => paths[i] < paths[j]

ManifestPaths(nodes) ==
  LET all == nodes \cup {Package}
  IN CHOOSE paths \in [1..Cardinality(all) -> all] : ToSet(paths) = all /\ InOrder(paths)

(* The one boundary that every failure ends at.                            *)
FailClosed(disk) == [manifest |-> None, temp |-> None, code |-> 1]

(* package tells what the version in package.json is like; writing may     *)
(* fail, after a part has been written, and so may the renaming.           *)
Generate(tree, disk, package, fault) ==
  LET closure == DeriveRunnerClosure(tree)
      written == [disk EXCEPT !.temp = ManifestPaths(closure.nodes)]
  IN IF \/ closure.violations # {}
        \/ FindAnchorDriftViolations(closure.nodes) # {}
        \/ package # "versioned"
     THEN FailClosed(disk)
     ELSE IF fault = "write" THEN FailClosed([disk EXCEPT !.temp = Partial])
     ELSE IF fault = "rename" THEN FailClosed(written)
     ELSE [manifest |-> written.temp, temp |-> None, code |-> 0]

(* The baseline is only written from a tree that can be built.             *)
RegenBaseline(tree, baseline) ==
  LET closure == DeriveRunnerClosure(tree)
  IN IF closure.violations # {} THEN baseline
     ELSE [nodes |-> closure.nodes, edges |-> closure.edges, builtins |-> closure.builtins]

-----------------------------------------------------------------------------
(* Reference: the files that loading the entry loads, but for the author's *)
(* module and what an import() brings.                                     *)
Loads(tree, from) ==
  IF from \notin DOMAIN tree \/ tree[from].at # "file" THEN {}
  ELSE {s.to : s \in {t \in ToSet(tree[from].imports \o tree[from].exports) : t.form = "relative"}}

Loaded(tree) ==
  LET closed == {S \in SUBSET (DOMAIN tree \cup {Entry}) :
                   Entry \in S /\ \A f \in S : Loads(tree, f) \cap DOMAIN tree \subseteq S}
  IN {f \in DOMAIN tree \cup {Entry} : \A S \in closed : f \in S}

(* A manifest names every file that the runner loads before the author's   *)
(* module, once and in order, and no such file imports anything else; and  *)
(* when a file cannot be accounted for, or the build fails at any step,    *)
(* there is no manifest, neither an old one nor a part of a new one.       *)
ManifestNamesWhatRuns(tree, disk, package, fault) ==
  LET after == Generate(tree, disk, package, fault)
      loaded == Loaded(tree)
  IN /\ after.temp = None
     /\ after.code = 0 <=> after.manifest # None
     /\ after.manifest # None =>
          /\ ToSet(after.manifest) = loaded \cup {Package}
          /\ InOrder(after.manifest)
          /\ \A f \in loaded :
                /\ tree[f].at = "file"
                /\ \A s \in ToSet(tree[f].imports \o tree[f].exports) : s.form = "node" \/ s.to \in loaded
                /\ tree[f].dynamic = 0 \/ (f = Sanctioned /\ tree[f].dynamic = 1)
          /\ RegenBaseline(tree, None).nodes = loaded
=============================================================================
