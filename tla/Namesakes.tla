----------------------------- MODULE Namesakes -----------------------------
(***************************************************************************)
(* The operations that the JSON and the YAML dialect both have, side by    *)
(* side on the same value, and the anchors that only YAML has.             *)
(***************************************************************************)
EXTENDS ValueTrees

CONSTANTS Paths, Values, Positions, Names   \* what an author may ask for

JSON == INSTANCE JsonEdits
YAML == INSTANCE YamlEdits

(* An operation on the only document of a YAML file, which has none when   *)
(* it is empty.                                                            *)
InStream(tree, create, Op(_)) ==
  LET r == YAML!Select(IF tree = Nothing THEN <<>> ELSE <<tree>>, 1, create, Op)
  IN [doc |-> IF r.stream = <<>> THEN Nothing ELSE r.stream[1], ok |-> r.ok]

Fewer(paths) == {p \in paths : Len(p) < 3}

(* What each makes of a request to edit at path, where the value is on.    *)
Answer(op, from, path, on, json, yaml) ==
  [op |-> op, from |-> from, at |-> path, on |-> on, json |-> json, yaml |-> yaml]
Asked(tree, op, path, json, yaml) == Answer(op, path, path, tree, json, yaml)

(* Every request, with what each dialect answers.                          *)
Answers(tree) ==
  {Asked(tree, "setValue", p,
         JSON!SetValue(tree, p, v, pos),
         InStream(tree, TRUE, LAMBDA d : YAML!SetValue(d, p, v, pos))) :
      p \in Paths, v \in Values, pos \in Positions}
  \cup
  {Asked(tree, "addKey", p,
         JSON!AddKey(tree, p, v, pos),
         InStream(tree, FALSE, LAMBDA d : YAML!AddKey(d, p, v, pos))) :
      p \in Paths, v \in Values, pos \in Positions}
  \cup
  {Asked(tree, "updateValue", p,
         JSON!UpdateValue(tree, p, v),
         InStream(tree, TRUE, LAMBDA d : YAML!UpdateValue(d, p, v))) : p \in Paths, v \in Values}
  \cup
  {Asked(tree, "merge", p,
         JSON!Merge(tree, p, v),
         InStream(tree, TRUE, LAMBDA d : YAML!Merge(d, p, v))) : p \in Paths, v \in Values}
  \cup
  {Asked(tree, "appendItem", p,
         JSON!AppendItem(tree, p, v, u),
         InStream(tree, TRUE, LAMBDA d : YAML!AppendItem(d, p, v, u))) :
      p \in Paths, v \in Values, u \in BOOLEAN}
  \cup
  {Asked(tree, "removeValue", p,
         JSON!RemoveValue(tree, p, v),
         InStream(tree, FALSE, LAMBDA d : YAML!RemoveValue(d, p, v))) : p \in Paths, v \in Values}
  \cup
  {Asked(tree, "insertItem", p,
         JSON!InsertItem(tree, p, i, v),
         InStream(tree, FALSE, LAMBDA d : YAML!InsertItem(d, p, i, v))) :
      p \in Fewer(Paths), v \in Values, i \in 1..3}
  \cup
  {Asked(tree, "replaceItem", p,
         JSON!ReplaceItem(tree, p, i, v),
         InStream(tree, FALSE, LAMBDA d : YAML!ReplaceItem(d, p, i, v))) :
      p \in Fewer(Paths), v \in Values, i \in 1..3}
  \cup
  {Asked(tree, "removeKey", p,
         JSON!RemoveKey(tree, p),
         InStream(tree, FALSE, LAMBDA d : YAML!RemoveKey(d, p))) : p \in Paths}
  \cup
  {Asked(tree, "renameKey", p,
         JSON!RenameKey(tree, p, k),
         InStream(tree, FALSE, LAMBDA d : YAML!RenameKey(d, p, k))) : p \in Paths, k \in 1..3}
  \cup
  {Asked(tree, "removeItem", p,
         JSON!RemoveItem(tree, p, i),
         InStream(tree, FALSE, LAMBDA d : YAML!RemoveItem(d, p, i))) : p \in Fewer(Paths), i \in 1..3}
  \cup
  {Asked(tree, "moveItem", p,
         JSON!MoveItem(tree, p, i, j),
         InStream(tree, FALSE, LAMBDA d : YAML!MoveItem(d, p, i, j))) :
      p \in Fewer(Paths), i \in 1..3, j \in 1..3}
  \cup
  {Answer("moveValue", p, q, IF p = q THEN tree ELSE Detach(tree, p),
          JSON!MoveValue(tree, p, q),
          InStream(tree, FALSE, LAMBDA d : YAML!MoveValue(d, p, q))) : p \in Paths, q \in Paths}
  \cup
  {Asked(tree, "copyValue", q,
         JSON!CopyValue(tree, p, q),
         InStream(tree, FALSE, LAMBDA d : YAML!CopyValue(d, p, q))) : p \in Paths, q \in Paths}
  \cup
  {Asked(tree, "sortKeys", p,
         JSON!SortKeys(tree, p, deep),
         InStream(tree, FALSE, LAMBDA d : YAML!SortKeys(d, p, deep))) : p \in Paths, deep \in BOOLEAN}

-----------------------------------------------------------------------------
(* Where the two differ.                                                   *)

Agree(a) == a.json.ok = a.yaml.ok /\ (a.json.ok => a.json.doc = a.yaml.doc)

(* The path leads past the end of a list: JSON refuses, YAML leaves a gap. *)
Gap(a) ==
  /\ ~a.json.ok
  /\ \E d \in DOMAIN a.at : /\ a.at[d].in = "seq" /\ At(a.on, Prefix(a.at, d)) = Nothing
                            /\ At(a.on, Prefix(a.at, d - 1)).t = "seq"

(* An empty file has no document for YAML to remove nothing from.          *)
NoDocument(a) == a.on = Nothing /\ a.op \in {"removeKey", "removeValue"} /\ ~a.yaml.ok

(* Moving a value to where it is: JSON looks whether it is there.          *)
SamePlace(a) == a.op = "moveValue" /\ a.from = a.at /\ a.yaml.ok

NamesakesAgree(tree) ==
  \A a \in Answers(tree) : Agree(a) \/ Gap(a) \/ NoDocument(a) \/ SamePlace(a)

(* The text that a refused operation leaves is the one it got.             *)
RefusalsChangeNothing(tree) ==
  \A a \in Answers(tree) : ~a.json.ok => a.json.doc = tree

-----------------------------------------------------------------------------
(* Anchors.                                                                *)

Anchorings(tree) ==
  {YAML!SetAnchor(tree, p, n) : p \in Paths, n \in Names}
  \cup {YAML!RemoveAnchor(tree, p) : p \in Paths}

(* A value that holds an alias of itself is left out.                      *)
Aliasings(tree) ==
  {YAML!SetAlias(tree, p, n) : p \in Paths,
     n \in {m \in Names : \A q \in Paths : At(tree, q).anchor = m => \A r \in Paths : ~Within(r, q)}}

(* What an edit leaves can be parsed again.  Merge alone does not look.    *)
AliasesStayResolved(tree) ==
  /\ \A a \in Answers(tree) : a.op # "merge" /\ a.yaml.ok => YAML!AliasesDefined(a.yaml.doc)
  /\ \A r \in Aliasings(tree) \cup Anchorings(tree) : r.ok => YAML!AliasesDefined(r.doc)

AnchorsKeepTheData(tree) ==
  \A r \in Anchorings(tree) :
     YAML!AliasesDefined(r.doc) /\ YAML!ToValue(r.doc, r.doc) = YAML!ToValue(tree, tree)
=============================================================================
