----------------------------- MODULE EngineStaging -----------------------------
(***************************************************************************)
(* The engine stand-in of the SDK (src/testing/contract-fake.ts): a seed   *)
(* of files, a staging tree laid over it, a set of staged deletions, and a *)
(* committed tree that only commit() writes.  Everything here is a pure    *)
(* operator on a staging record [tree, deleted]; the modules that compose  *)
(* it with a session keep that record in a variable.                       *)
(*                                                                         *)
(* A path is a pair <<directory, base name>>, which is all that rename     *)
(* (same directory, new name) and move (same name, new directory) take     *)
(* apart.  A file is a content or None, the absence of the file.           *)
(***************************************************************************)
EXTENDS Naturals, FiniteSets

CONSTANTS
  Dirs,             \* directory names
  Names,            \* base names
  Contents,         \* file contents (a template is stored as content)
  Unrepresentable,  \* the contents that do not survive a JSON round trip
  None,             \* the absence of a file
  Seed              \* the files on disk before the run: [Path -> File]

Path == Dirs \X Names
File == Contents \cup {None}

ASSUME StagingAssumption ==
  /\ None \notin Contents
  /\ Unrepresentable \subseteq Contents
  /\ Seed \in [Path -> File]

(* The seven wire directives.                                              *)
Directive ==
       [op: {"create"}, path: Path, content: Contents, force: BOOLEAN]
  \cup [op: {"modify"}, path: Path, content: Contents]
  \cup [op: {"delete"}, path: Path]
  \cup [op: {"rename"}, path: Path, newName: Names, force: BOOLEAN]
  \cup [op: {"move"},   path: Path, toDir: Dirs, force: BOOLEAN]
  \cup [op: {"copy"},   path: Path, to: Path, force: BOOLEAN]
  \cup [op: {"copyIn"}, to: Path, force: BOOLEAN]

Staging == [tree: [Path -> File], deleted: SUBSET Path]

EmptyStaging == [tree |-> [p \in Path |-> None], deleted |-> {}]

(* What read() serves: a staged deletion hides the path, then the staging  *)
(* tree, then the seed.  The committed tree is never consulted.            *)
Lookup(st, p) ==
  IF p \in st.deleted THEN None
  ELSE IF st.tree[p] # None THEN st.tree[p]
  ELSE Seed[p]

Exists(st, p) == Lookup(st, p) # None

(* The path a directive writes: rename keeps the directory, move the name. *)
Target(d) ==
  CASE d.op = "rename"           -> <<d.path[1], d.newName>>
    [] d.op = "move"             -> <<d.toDir, d.path[2]>>
    [] d.op \in {"copy","copyIn"} -> d.to
    [] OTHER                     -> d.path

NeedsSource(d) == d.op \in {"modify", "rename", "move", "copy"}

(* A self-move is exempt from the collision check, a self-rename is not.   *)
ChecksTarget(d) ==
  \/ d.op \in {"create", "rename", "copy", "copyIn"}
  \/ d.op = "move" /\ Target(d) # d.path

(* The checks #apply makes before it writes, in its order.                 *)
Verdict(st, d, envelopeForce) ==
  IF NeedsSource(d) /\ ~Exists(st, d.path) THEN "not-found"
  ELSE IF ChecksTarget(d) /\ Exists(st, Target(d)) /\ ~(envelopeForce \/ d.force)
       THEN "collision"
  ELSE "ok"

Put(st, p, c) == [tree |-> [st.tree EXCEPT ![p] = c], deleted |-> st.deleted \ {p}]

Drop(st, p) == [tree |-> [st.tree EXCEPT ![p] = None], deleted |-> st.deleted \cup {p}]

(* What an accepted directive does to staging.  copyIn checks its          *)
(* destination and writes nothing; delete of an absent path is no error.   *)
Effect(st, d) ==
  CASE d.op \in {"create", "modify"} -> Put(st, d.path, d.content)
    [] d.op = "delete"               -> Drop(st, d.path)
    [] d.op \in {"rename", "move"}   -> Put(Drop(st, d.path), Target(d), Lookup(st, d.path))
    [] d.op = "copy"                 -> Put(st, d.to, Lookup(st, d.path))
    [] d.op = "copyIn"               -> st

(* Whether a directive alone makes its whole batch fail before any apply.  *)
Representable(d) == d.op \in {"create", "modify"} => d.content \notin Unrepresentable

(* commit(): staged files overwrite, staged deletions remove.              *)
Promote(committed, st) ==
  [p \in Path |-> IF p \in st.deleted THEN None
                  ELSE IF st.tree[p] # None THEN st.tree[p]
                  ELSE committed[p]]

NothingCommitted == [p \in Path |-> None]

================================================================================
