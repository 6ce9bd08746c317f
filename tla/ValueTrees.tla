----------------------------- MODULE ValueTrees -----------------------------
(***************************************************************************)
(* The values that a JSON or a YAML file holds, as the trees that the      *)
(* operations of the two dialects address by paths (dialects/json/ops.ts,  *)
(* dialects/yaml/paths.ts, core/deep-equal.ts).                            *)
(*                                                                         *)
(* A scalar is a number.  Keys are numbers, in the order of their text;    *)
(* the keys of a map are a sequence, as the file lists them.  Indices      *)
(* count from 1.  A node may carry an anchor, and an alias names one; only *)
(* YAML has them.                                                          *)
(***************************************************************************)
EXTENDS Naturals, Sequences, SequencesExt

None == 0

Node(t, n, keys, kids) == [t |-> t, n |-> n, keys |-> keys, kids |-> kids, anchor |-> None]

Nothing == Node("absent", 0, <<>>, <<>>)
Scalar(n) == Node("scalar", n, <<>>, <<>>)
Map(keys, kids) == Node("map", 0, keys, kids)
Seq_(kids) == Node("seq", 0, <<>>, kids)
Alias(name) == Node("alias", name, <<>>, <<>>)
Anchored(node, name) == [node EXCEPT !.anchor = name]

(* The segments of a path.                                                 *)
Key(k) == [in |-> "map", at |-> k]
Index(i) == [in |-> "seq", at |-> i]

Prefix(path, d) == SubSeq(path, 1, d)
Within(path, outer) == Len(path) > Len(outer) /\ Prefix(path, Len(outer)) = outer

-----------------------------------------------------------------------------
(* Reading.                                                                *)

Place(node, s) ==
  IF s.in = "map" THEN SelectInSeq(node.keys, LAMBDA k : k = s.at)
  ELSE IF s.at \in DOMAIN node.kids THEN s.at ELSE None

Child(node, s) ==
  IF node.t = s.in /\ Place(node, s) # None THEN node.kids[Place(node, s)] ELSE Nothing

RECURSIVE At(_, _)
At(tree, path) == IF path = <<>> THEN tree ELSE At(Child(tree, Head(path)), Tail(path))

(* A segment on the way does not fit the node it meets.                    *)
Lost(tree, path) ==
  \E d \in 1..Len(path) : At(tree, Prefix(path, d - 1)).t \notin {"absent", path[d].in}

(* deepEqual: the order of keys does not count.                            *)
RECURSIVE Same(_, _)
Same(a, b) ==
  /\ a.t = b.t /\ a.n = b.n /\ Len(a.kids) = Len(b.kids)
  /\ ToSet(a.keys) = ToSet(b.keys)
  /\ \A i \in DOMAIN a.kids :
        Same(a.kids[i], IF a.t = "map" THEN Child(b, Key(a.keys[i])) ELSE b.kids[i])

-----------------------------------------------------------------------------
(* Writing.                                                                *)

(* A new key goes to place p of a map, or into a new map where there is    *)
(* nothing; an item past the end leaves nothing in between.                *)
WithChild(node, s, p, value) ==
  IF Place(node, s) # None THEN [node EXCEPT !.kids[Place(node, s)] = value]
  ELSE IF s.in = "map"
  THEN Anchored(Map(InsertAt(node.keys, p, s.at), InsertAt(node.kids, p, value)), node.anchor)
  ELSE [node EXCEPT !.kids = [i \in 1..s.at |-> IF i = s.at THEN value
                                                ELSE IF i \in DOMAIN node.kids THEN node.kids[i] ELSE Nothing]]

(* The tree with value at path; what is missing on the way are maps.       *)
RECURSIVE Put(_, _, _)
Put(tree, path, value) ==
  IF path = <<>> THEN value
  ELSE WithChild(tree, Head(path), Len(tree.keys) + 1, Put(Child(tree, Head(path)), Tail(path), value))

PutAt(tree, path, p, value) ==
  Put(tree, Front(path), WithChild(At(tree, Front(path)), Last(path), p, value))

Detach(tree, path) ==
  IF path = <<>> THEN Nothing
  ELSE LET node == At(tree, Front(path))
           p == Place(node, Last(path))
       IN Put(tree, Front(path),
              [node EXCEPT !.keys = IF node.t = "map" THEN RemoveAt(@, p) ELSE @, !.kids = RemoveAt(@, p)])

WithItems(tree, path, items) == Put(tree, path, [At(tree, path) EXCEPT !.kids = items])

RECURSIVE Sorted(_, _)
Sorted(node, deep) ==
  LET kid(i) == IF deep THEN Sorted(node.kids[i], TRUE) ELSE node.kids[i]
      keys == SortSeq(node.keys, <)
  IN IF node.t = "map"
     THEN [node EXCEPT !.keys = keys, !.kids = [i \in DOMAIN keys |-> kid(Place(node, Key(keys[i])))]]
     ELSE [node EXCEPT !.kids = [i \in DOMAIN @ |-> kid(i)]]

(* An author may ask for a new key before or after another.                *)
Anywhere == [side |-> "none", key |-> None]
Before(k) == [side |-> "before", key |-> k]
After(k) == [side |-> "after", key |-> k]

PlaceFor(node, pos) ==
  IF pos.side = "none" THEN Len(node.keys) + 1
  ELSE Place(node, Key(pos.key)) + IF pos.side = "after" THEN 1 ELSE 0

HasSibling(node, pos) ==
  pos.side = "none" \/ (node.t = "map" /\ Place(node, Key(pos.key)) # None)
=============================================================================
