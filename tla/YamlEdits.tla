----------------------------- MODULE YamlEdits -----------------------------
(***************************************************************************)
(* The operations of the YAML dialect on a document's nodes                *)
(* (src/dialects/yaml/structural.ts, paths.ts, documents.ts, and the       *)
(* anchors of presentation.ts).  They edit the nodes in place: a refused   *)
(* operation may leave its first steps behind, and its result holds them.  *)
(* Comments, styles, tags, merge keys, empty values and the checks of      *)
(* argument types are left out; no two nodes carry the same anchor.        *)
(***************************************************************************)
EXTENDS ValueTrees

Done(doc) == [doc |-> doc, ok |-> TRUE]
Refused(doc) == [doc |-> doc, ok |-> FALSE]

EndsInKey(path) == path # <<>> /\ Last(path).in = "map"

-----------------------------------------------------------------------------
(* Anchors.                                                                *)

RECURSIVE Visit(_)
Visit(node) == <<node>> \o FlattenSeq([i \in DOMAIN node.kids |-> Visit(node.kids[i])])

FindAnchored(doc, name) ==
  LET nodes == SelectSeq(Visit(doc), LAMBDA node : node.anchor = name)
  IN IF nodes = <<>> THEN Nothing ELSE Last(nodes)

(* Every alias comes after the node it names.                              *)
AliasesResolve(doc) ==
  LET nodes == Visit(doc)
  IN \A i \in DOMAIN nodes :
        nodes[i].t = "alias" => \E j \in 1..(i - 1) : nodes[j].anchor = nodes[i].n

(* What the parser demands of a text: an anchor counts from where it is    *)
(* written on.                                                             *)
AliasesDefined(doc) ==
  LET Step(seen, node) ==
        IF node.t # "alias" THEN [seen EXCEPT !.anchors = @ \cup {node.anchor}]
        ELSE [seen EXCEPT !.ok = @ /\ node.n \in seen.anchors]
  IN FoldLeft(Step, [ok |-> TRUE, anchors |-> {}], Visit(doc)).ok

(* assertAliasesResolve, after the edit.                                   *)
Checked(r) == IF r.ok /\ ~AliasesResolve(r.doc) THEN Refused(r.doc) ELSE r

Follow(doc, node) == IF node.t = "alias" THEN FindAnchored(doc, node.n) ELSE node

(* toValue: the data of a node.                                            *)
RECURSIVE ToValue(_, _)
ToValue(doc, node) ==
  LET n == Follow(doc, node)
  IN [n EXCEPT !.anchor = None, !.kids = [i \in DOMAIN @ |-> ToValue(doc, @[i])]]

(* replacement: the new node keeps the anchor of the old.                  *)
Replacement(old, value) == IF old.t = "alias" THEN value ELSE Anchored(value, old.anchor)

-----------------------------------------------------------------------------
(* resolve.  To write, a path must not lead through an alias, which Lost   *)
(* covers; reading follows them.                                           *)

ReadAt(doc, path) == FoldLeft(LAMBDA node, s : Child(Follow(doc, node), s), doc, path)

ReadLost(doc, path) ==
  \E d \in DOMAIN path : Follow(doc, ReadAt(doc, Prefix(path, d - 1))).t \notin {"absent", path[d].in}

(* In mode create, what is missing on the way is put there first.          *)
Create(doc, path) ==
  LET step(acc, d) ==
        IF ~acc.ok \/ At(acc.doc, Prefix(path, d - 1)) # Nothing THEN acc
        ELSE IF path[d].in = "seq" THEN Refused(acc.doc)
        ELSE Done(Put(acc.doc, Prefix(path, d - 1), Map(<<>>, <<>>)))
  IN IF Lost(doc, path) THEN Refused(doc) ELSE FoldLeft(step, Done(doc), [d \in DOMAIN path |-> d])

PastTheEnd(doc, path) ==
  path # <<>> /\ Last(path).in = "seq" /\ Last(path).at > Len(At(doc, Front(path)).kids)

WriteSlot(doc, path, node, pos) ==
  IF path = <<>> THEN node ELSE PutAt(doc, path, PlaceFor(At(doc, Front(path)), pos), node)

(* A slip: the sibling must exist even when the key already does.          *)
MisplacedAlways(doc, path, pos) ==
  LET parent == Follow(doc, ReadAt(doc, Front(path)))
  IN /\ pos # Anywhere
     /\ ~EndsInKey(path) \/ ReadLost(doc, Front(path)) \/ ~HasSibling(parent, pos)

(* assertPosition fails.                                                   *)
Misplaced(doc, path, pos) ==
  LET parent == Follow(doc, ReadAt(doc, Front(path)))
  IN /\ pos # Anywhere
     /\ \/ ~EndsInKey(path) \/ ReadLost(doc, Front(path))
        \/ Child(parent, Last(path)) = Nothing /\ ~HasSibling(parent, pos)

Upsert(doc, path, value, pos) ==
  LET made == Create(doc, path)
      old == At(made.doc, path)
  IN IF Misplaced(doc, path, pos) THEN Refused(doc)
     ELSE IF ~made.ok THEN made
     ELSE IF old # Nothing /\ Same(ToValue(made.doc, old), value) THEN made
     ELSE IF PastTheEnd(made.doc, path) THEN Refused(made.doc)
     ELSE Done(WriteSlot(made.doc, path, Replacement(old, value), pos))

-----------------------------------------------------------------------------
(* Keys.                                                                   *)

SetValue(doc, path, value, pos) == Checked(Upsert(doc, path, value, pos))

AddKey(doc, path, value, pos) ==
  LET old == At(doc, path) IN
  IF ~EndsInKey(path) \/ Misplaced(doc, path, pos) \/ Lost(doc, path) THEN Refused(doc)
  ELSE IF At(doc, Front(path)) = Nothing THEN Refused(doc)
  ELSE IF old # Nothing THEN IF Same(ToValue(doc, old), value) THEN Done(doc) ELSE Refused(doc)
  ELSE Done(WriteSlot(doc, path, value, pos))

RemoveKey(doc, path) ==
  IF ~EndsInKey(path) \/ Lost(doc, path) THEN Refused(doc)
  ELSE IF At(doc, path) = Nothing THEN Done(doc)
  ELSE Checked(Done(Detach(doc, path)))

RenameKey(doc, path, new) ==
  LET map == At(doc, Front(path))
      taken == Child(map, Key(new)) # Nothing
  IN IF ~EndsInKey(path) \/ Lost(doc, path) THEN Refused(doc)
     ELSE IF At(doc, path) = Nothing THEN IF taken THEN Done(doc) ELSE Refused(doc)
     ELSE IF taken /\ new # Last(path).at THEN Refused(doc)
     ELSE Done(Put(doc, Front(path), [map EXCEPT !.keys[Place(map, Last(path))] = new]))

-----------------------------------------------------------------------------
(* Items.                                                                  *)

NotSequence(doc, path) == Lost(doc, path) \/ At(doc, path).t \notin {"seq", "absent"}

OnItems(doc, path, InRange(_), Edited(_)) ==
  LET items == At(doc, path).kids IN
  IF Lost(doc, path) \/ At(doc, path).t # "seq" THEN Refused(doc)
  ELSE IF ~InRange(Len(items)) THEN Refused(doc)
  ELSE Done(WithItems(doc, path, Edited(items)))

InsertItem(doc, path, i, value) ==
  OnItems(doc, path, LAMBDA n : i \in 1..(n + 1), LAMBDA items : InsertAt(items, i, value))

AppendItem(doc, path, value, unique) ==
  LET made == Create(doc, path)
      seq == IF At(made.doc, path) = Nothing THEN Seq_(<<>>) ELSE At(made.doc, path)
      there == WriteSlot(made.doc, path, seq, Anywhere)
  IN IF ~made.ok \/ seq.t # "seq" THEN Refused(made.doc)
     ELSE IF unique /\ \E i \in DOMAIN seq.kids : Same(ToValue(there, seq.kids[i]), value) THEN Done(there)
     ELSE Done(WithItems(there, path, Append(seq.kids, value)))

RemoveItem(doc, path, i) ==
  Checked(OnItems(doc, path, LAMBDA n : i \in 1..n, LAMBDA items : RemoveAt(items, i)))

RemoveValue(doc, path, value) ==
  LET kept == SelectSeq(At(doc, path).kids, LAMBDA v : ~Same(ToValue(doc, v), value)) IN
  IF NotSequence(doc, path) THEN Refused(doc)
  ELSE IF At(doc, path) = Nothing THEN Done(doc)
  ELSE Checked(Done(WithItems(doc, path, kept)))

ReplaceItem(doc, path, i, value) ==
  Checked(OnItems(doc, path, LAMBDA n : i \in 1..n,
                  LAMBDA items : IF Same(ToValue(doc, items[i]), value) THEN items
                                 ELSE [items EXCEPT ![i] = Replacement(items[i], value)]))

(* A slip: nobody looks whether an alias now comes before its anchor.      *)
MoveItemUnchecked(doc, path, i, j) ==
  OnItems(doc, path, LAMBDA n : i \in 1..n /\ j \in 1..n,
          LAMBDA items : InsertAt(RemoveAt(items, i), j, items[i]))

MoveItem(doc, path, i, j) == Checked(MoveItemUnchecked(doc, path, i, j))

-----------------------------------------------------------------------------
(* Whole values.                                                           *)

RECURSIVE Changes(_, _)
Changes(current, incoming) ==
  \/ current.t # "map"
  \/ \E k \in ToSet(incoming.keys) :
        LET new == Child(incoming, Key(k))
            old == Child(current, Key(k))
        IN IF new.t = "map" /\ old.t = "map" THEN Changes(old, new) ELSE ~Same(old, new)

RECURSIVE MergeInto(_, _, _)
MergeInto(r, path, value) ==
  FoldLeft(LAMBDA acc, k :
             LET at == Append(path, Key(k))
                 new == Child(value, Key(k))
                 node == At(acc.doc, at)
                 old == ToValue(acc.doc, node)
             IN IF ~acc.ok THEN acc
                ELSE IF node # Nothing /\ ~(IF new.t = "map" THEN Changes(old, new) ELSE ~Same(old, new)) THEN acc
                ELSE IF new.t = "map" /\ old.t = "map"
                THEN IF node.t = "alias" THEN Refused(acc.doc) ELSE MergeInto(acc, at, new)
                ELSE Done(Put(acc.doc, at, Replacement(node, new))),
           r, value.keys)

(* merge does not look at the aliases of what it has replaced.             *)
Merge(doc, path, value) ==
  LET made == Create(doc, path)
      node == At(made.doc, path)
      there == IF node = Nothing THEN WriteSlot(made.doc, path, Map(<<>>, <<>>), Anywhere) ELSE made.doc
  IN IF value.t # "map" THEN Refused(doc)
     ELSE IF ~made.ok THEN made
     ELSE IF node # Nothing /\ ~Changes(ToValue(made.doc, node), value) THEN made
     ELSE IF node.t \notin {"map", "absent"} THEN Refused(made.doc)
     ELSE MergeInto(Done(there), path, value)

MoveValue(doc, from, to) ==
  LET node == At(doc, from)
      rest == Detach(doc, from)
      made == Create(rest, to)
  IN IF Within(to, from) THEN Refused(doc)
     ELSE IF from = to THEN Done(doc)
     ELSE IF Lost(doc, from) THEN Refused(doc)
     ELSE IF node = Nothing
     THEN IF ~ReadLost(doc, to) /\ ReadAt(doc, to) # Nothing THEN Done(doc) ELSE Refused(doc)
     ELSE IF to # <<>> /\ Last(to).in = "seq" THEN Checked(InsertItem(rest, Front(to), Last(to).at, node))
     ELSE IF ~made.ok THEN made
     ELSE Checked(Done(WriteSlot(made.doc, to, node, Anywhere)))

CopyValue(doc, from, to) ==
  IF ReadLost(doc, from) \/ ReadAt(doc, from) = Nothing THEN Refused(doc)
  ELSE Checked(Upsert(doc, to, ToValue(doc, ReadAt(doc, from)), Anywhere))

SortKeys(doc, path, deep) ==
  IF Lost(doc, path) \/ At(doc, path).t # "map" THEN Refused(doc)
  ELSE Checked(Done(Put(doc, path, Sorted(At(doc, path), deep))))

UpdateValue(doc, path, value) ==
  IF ReadLost(doc, path) THEN Refused(doc) ELSE Checked(Upsert(doc, path, value, Anywhere))

-----------------------------------------------------------------------------
(* Anchors and aliases.                                                    *)

RECURSIVE MapAliases(_, _, _)
MapAliases(node, name, with) ==
  IF node.t = "alias" /\ node.n = name THEN with
  ELSE [node EXCEPT !.kids = [i \in DOMAIN @ |-> MapAliases(@[i], name, with)]]

RECURSIVE Bare(_)
Bare(node) == [node EXCEPT !.anchor = None, !.kids = [i \in DOMAIN @ |-> Bare(@[i])]]

SetAnchor(doc, path, name) ==
  LET node == At(doc, path)
      pointed == IF node.anchor = None THEN doc ELSE MapAliases(doc, node.anchor, Alias(name))
  IN IF Lost(doc, path) \/ node.t \in {"absent", "alias"} THEN Refused(doc)
     ELSE IF node.anchor = name THEN Done(doc)
     ELSE IF FindAnchored(doc, name) # Nothing THEN Refused(doc)
     ELSE Done(Put(pointed, path, Anchored(At(pointed, path), name)))

RemoveAnchor(doc, path) ==
  LET node == At(doc, path)
      copied == MapAliases(doc, node.anchor, Bare(node))
  IN IF Lost(doc, path) \/ node.t \in {"absent", "alias"} THEN Refused(doc)
     ELSE IF node.anchor = None THEN Done(doc)
     ELSE Done(Put(copied, path, Anchored(At(copied, path), None)))

SetAlias(doc, path, name) ==
  LET made == Create(doc, path)
      old == At(made.doc, path)
      aliased == WriteSlot(made.doc, path, Alias(name), Anywhere)
  IN IF FindAnchored(doc, name) = Nothing THEN Refused(doc)
     ELSE IF ~made.ok THEN made
     ELSE IF old = Alias(name) THEN made
     ELSE IF PastTheEnd(made.doc, path) THEN Refused(made.doc)
     ELSE IF FindAnchored(aliased, name) = Nothing THEN Refused(aliased)
     ELSE Checked(Done(aliased))

-----------------------------------------------------------------------------
(* Streams of documents.                                                   *)

(* selectDocument; an empty stream gets its first document on demand.      *)
Select(stream, d, create, Op(_)) ==
  LET fresh == create /\ d = 1 /\ stream = <<>>
      r == Op(IF fresh THEN Nothing ELSE stream[d])
  IN IF ~fresh /\ d \notin DOMAIN stream THEN [stream |-> stream, ok |-> FALSE]
     ELSE [stream |-> IF fresh THEN <<r.doc>> ELSE [stream EXCEPT ![d] = r.doc], ok |-> r.ok]

AddDocument(stream, value, d) ==
  IF d \in 1..(Len(stream) + 1) THEN [stream |-> InsertAt(stream, d, value), ok |-> TRUE]
  ELSE [stream |-> stream, ok |-> FALSE]

RemoveDocument(stream, d) ==
  IF d \in DOMAIN stream THEN [stream |-> RemoveAt(stream, d), ok |-> TRUE]
  ELSE [stream |-> stream, ok |-> FALSE]
=============================================================================
