----------------------------- MODULE RunVehicle -----------------------------
(***************************************************************************)
(* The transport on which the conformance suite runs its exercises         *)
(* (src/conformance/run-vehicle.ts): files in memory, to which a batch is  *)
(* applied as it is emitted.  EngineStaging is what it stands in for.      *)
(***************************************************************************)
EXTENDS EngineStaging, Sequences, SequencesExt

CONSTANT Root   \* one of Dirs: the directory of a path that is a bare name

Accepted(tree) == [ok |-> TRUE, tree |-> tree]
Rejected(tree) == [ok |-> FALSE, tree |-> tree]

Set(tree, p, c) == [tree EXCEPT ![p] = c]
Moved(tree, from, to) == IF tree[from] = None THEN tree ELSE Set(Set(tree, from, None), to, tree[from])

(* The new name of a file is taken for its path; a source that is missing  *)
(* is passed over; only copyIn looks at what is there.  A folder is put    *)
(* before the name as it is spelled, so that what is moved to the root, of *)
(* which no path names the folder, is under a key that no path reads.      *)
ApplyDirective(tree, d) ==
  CASE d.op \in {"create", "modify"} -> Accepted(Set(tree, d.path, d.content))
    [] d.op = "delete" -> Accepted(Set(tree, d.path, None))
    [] d.op = "rename" -> Accepted(Moved(tree, d.path, <<Root, d.newName>>))
    [] d.op = "move" -> Accepted(IF d.toDir = Root THEN Set(tree, d.path, None)
                                 ELSE Moved(tree, d.path, <<d.toDir, d.path[2]>>))
    [] d.op = "copy" -> Accepted(IF tree[d.path] = None THEN tree ELSE Set(tree, d.to, tree[d.path]))
    [] d.op = "copyIn" -> IF tree[d.to] # None /\ ~d.force THEN Rejected(tree) ELSE Accepted(tree)

EmitToVehicle(tree, directives) ==
  FoldLeft(LAMBDA r, d : IF r.ok THEN ApplyDirective(r.tree, d) ELSE r, Accepted(tree), directives)

EmitToFake(directives) ==
  FoldLeft(LAMBDA r, d : IF r.ok /\ Verdict(r.tree, d, FALSE) = "ok" THEN Accepted(Effect(r.tree, d))
                         ELSE Rejected(r.tree),
           Accepted(EmptyStaging), directives)

(* What the fake takes the vehicle takes, and both read the same           *)
(* afterwards, unless a file was renamed within a folder other than the    *)
(* root or moved to the root.                                              *)
VehicleReadsAlike(directives) ==
  LET there == EmitToFake(directives)
      here == EmitToVehicle(Seed, directives)
      leaves == \E d \in ToSet(directives) :
                   \/ d.op = "rename" /\ d.path[1] # Root
                   \/ d.op = "move" /\ d.toDir = Root
  IN there.ok /\ ~leaves => here.ok /\ \A p \in Path : here.tree[p] = Lookup(there.tree, p)
=============================================================================
