----------------------------- MODULE JsonEdits -----------------------------
(***************************************************************************)
(* What the operations of the JSON dialect make of a document's value      *)
(* (src/dialects/json/ops.ts); JsonLayout has what they make of its text.  *)
(* The checks of argument types are left out.                              *)
(***************************************************************************)
EXTENDS ValueTrees, FiniteSetsExt

Done(tree) == [doc |-> tree, ok |-> TRUE]
Refused(tree) == [doc |-> tree, ok |-> FALSE]

EndsInKey(path) == path # <<>> /\ Last(path).in = "map"

(* assertCreatable: only maps are created.                                 *)
Creatable(tree, path) ==
  \A d \in DOMAIN path : At(tree, Prefix(path, d)) = Nothing => path[d].in = "map"

Write(tree, path, value, pos) ==
  Done(IF path = <<>> THEN value
       ELSE PutAt(tree, path, PlaceFor(At(tree, Front(path)), pos), value))

Upsert(tree, path, value, pos) ==
  LET old == At(tree, path) IN
  IF Lost(tree, path) THEN Refused(tree)
  ELSE IF old # Nothing THEN IF Same(old, value) THEN Done(tree) ELSE Write(tree, path, value, pos)
  ELSE IF ~Creatable(tree, path) \/ (path # <<>> /\ ~HasSibling(At(tree, Front(path)), pos)) THEN Refused(tree)
  ELSE Write(tree, path, value, pos)

SetValue(tree, path, value, pos) ==
  IF pos # Anywhere /\ ~EndsInKey(path) THEN Refused(tree) ELSE Upsert(tree, path, value, pos)

AddKey(tree, path, value, pos) ==
  LET old == At(tree, path)
      parent == At(tree, Front(path))
  IN IF ~EndsInKey(path) \/ Lost(tree, path) THEN Refused(tree)
     ELSE IF old # Nothing THEN IF Same(old, value) THEN Done(tree) ELSE Refused(tree)
     ELSE IF parent = Nothing \/ ~HasSibling(parent, pos) THEN Refused(tree)
     ELSE Write(tree, path, value, pos)

RemoveKey(tree, path) ==
  IF ~EndsInKey(path) \/ Lost(tree, path) THEN Refused(tree)
  ELSE Done(IF At(tree, path) = Nothing THEN tree ELSE Detach(tree, path))

RenameKey(tree, path, new) ==
  LET node == At(tree, Front(path))
      old == Place(node, Last(path))
      taken == Place(node, Key(new)) # None
  IN IF ~EndsInKey(path) \/ Lost(tree, path) THEN Refused(tree)
     ELSE IF old = None THEN IF taken THEN Done(tree) ELSE Refused(tree)
     ELSE IF taken /\ new # Last(path).at THEN Refused(tree)
     ELSE Done(Put(tree, Front(path), [node EXCEPT !.keys[old] = new]))

-----------------------------------------------------------------------------
(* Items.                                                                  *)

NotArray(tree, path) == Lost(tree, path) \/ At(tree, path).t \notin {"seq", "absent"}

(* The operations on an array that must exist.                             *)
OnItems(tree, path, InRange(_), Edited(_)) ==
  LET items == At(tree, path).kids IN
  IF Lost(tree, path) \/ At(tree, path).t # "seq" THEN Refused(tree)
  ELSE IF ~InRange(Len(items)) THEN Refused(tree)
  ELSE Done(WithItems(tree, path, Edited(items)))

InsertItem(tree, path, i, value) ==
  OnItems(tree, path, LAMBDA n : i \in 1..(n + 1), LAMBDA items : InsertAt(items, i, value))

AppendItem(tree, path, value, unique) ==
  IF NotArray(tree, path) THEN Refused(tree)
  ELSE IF At(tree, path) = Nothing THEN Upsert(tree, path, Seq_(<<value>>), Anywhere)
  ELSE LET items == At(tree, path).kids IN
       IF unique /\ \E i \in DOMAIN items : Same(items[i], value) THEN Done(tree)
       ELSE Done(WithItems(tree, path, Append(items, value)))

RemoveItem(tree, path, i) ==
  OnItems(tree, path, LAMBDA n : i \in 1..n, LAMBDA items : RemoveAt(items, i))

RemoveValue(tree, path, value) ==
  IF NotArray(tree, path) THEN Refused(tree)
  ELSE IF At(tree, path) = Nothing THEN Done(tree)
  ELSE Done(WithItems(tree, path, SelectSeq(At(tree, path).kids, LAMBDA v : ~Same(v, value))))

ReplaceItem(tree, path, i, value) ==
  OnItems(tree, path, LAMBDA n : i \in 1..n,
          LAMBDA items : IF Same(items[i], value) THEN items ELSE [items EXCEPT ![i] = value])

MoveItem(tree, path, i, j) ==
  OnItems(tree, path, LAMBDA n : i \in 1..n /\ j \in 1..n,
          LAMBDA items : InsertAt(RemoveAt(items, i), j, items[i]))

-----------------------------------------------------------------------------
(* Whole values.                                                           *)

RECURSIVE MergeInto(_, _, _)
MergeInto(tree, path, value) ==
  FoldLeft(LAMBDA acc, k :
             LET at == Append(path, Key(k))
                 incoming == Child(value, Key(k))
             IN IF At(acc, at).t = "map" /\ incoming.t = "map" THEN MergeInto(acc, at, incoming)
                ELSE Upsert(acc, at, incoming, Anywhere).doc,
           tree, value.keys)

Merge(tree, path, value) ==
  IF Lost(tree, path) \/ value.t # "map" THEN Refused(tree)
  ELSE IF At(tree, path) = Nothing
  THEN IF Creatable(tree, path) THEN Write(tree, path, value, Anywhere) ELSE Refused(tree)
  ELSE IF At(tree, path).t # "map" THEN Refused(tree)
  ELSE Done(MergeInto(tree, path, value))

(* A slip: the source is removed from the live text, and stays removed     *)
(* when the destination is rejected.                                       *)
MoveOnLiveText(tree, from, to) ==
  LET value == At(tree, from)
      rest == Detach(tree, from)
  IN IF from = <<>> \/ Within(to, from) \/ Lost(tree, from) THEN Refused(tree)
     ELSE IF value = Nothing
     THEN IF ~Lost(tree, to) /\ At(tree, to) # Nothing THEN Done(tree) ELSE Refused(tree)
     ELSE IF from = to THEN Done(tree)
     ELSE IF EndsInKey(to) \/ to = <<>> THEN Upsert(rest, to, value, Anywhere)
     ELSE InsertItem(rest, Front(to), Last(to).at, value)

(* moveValue, on a scratch document.                                       *)
MoveValue(tree, from, to) ==
  LET moved == MoveOnLiveText(tree, from, to)
  IN IF moved.ok THEN moved ELSE Refused(tree)

CopyValue(tree, from, to) ==
  IF Lost(tree, from) \/ At(tree, from) = Nothing THEN Refused(tree)
  ELSE Upsert(tree, to, At(tree, from), Anywhere)

SortKeys(tree, path, deep) ==
  IF Lost(tree, path) \/ At(tree, path).t # "map" THEN Refused(tree)
  ELSE Done(Put(tree, path, Sorted(At(tree, path), deep)))

(* updateValue: fn answers with value, whatever it is given.               *)
UpdateValue(tree, path, value) ==
  IF Lost(tree, path) \/ ~Creatable(tree, path) THEN Refused(tree)
  ELSE Upsert(tree, path, value, Anywhere)
=============================================================================
