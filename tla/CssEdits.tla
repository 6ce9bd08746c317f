------------------------------ MODULE CssEdits ------------------------------
(***************************************************************************)
(* The operations of the CSS dialect (src/dialects/css/ops.ts) on one      *)
(* declaration of one block.                                               *)
(*                                                                         *)
(* A stylesheet is the sequence of its top-level nodes.  A text is a       *)
(* sequence of words; blanks around it, and what would end a node, are     *)
(* words of their own.  Every node knows what stands before it: a number   *)
(* of line breaks, and an indentation.  Comments are left out.             *)
(***************************************************************************)
EXTENDS Naturals, Sequences, FiniteSets
LOCAL INSTANCE SequencesExt

CONSTANTS
  Lower,      \* a function: names with capitals, and the same in lower case
  Custom,     \* the property names that begin with "--"
  BadNames    \* no property name, or no name of an at-rule

Blank == " "
Important == "!important"
Ends == {";", "{", "}"}
Absent == <<"undefined">>   \* a text that is not given
NoName == "undefined"        \* a name that is not given

Done(f) == [ok |-> TRUE, as |-> f]
Refused(f) == [ok |-> FALSE, as |-> f]

Lowered(name) == IF name \in DOMAIN Lower THEN Lower[name] ELSE name
Trim(text) ==
  LET first == SelectInSeq(text, LAMBDA w : w # Blank)
  IN IF first = 0 THEN <<>> ELSE SubSeq(text, first, SelectLastInSeq(text, LAMBDA w : w # Blank))

Before(lines, indent) == [lines |-> lines, indent |-> indent]
Declaration(prop, value, important, before) ==
  [kind |-> "decl", prop |-> prop, value |-> value, important |-> important, before |-> before]
Rule(selector, nodes, before, closing) ==
  [kind |-> "rule", name |-> "", text |-> selector, body |-> TRUE, nodes |-> nodes, before |-> before, closing |-> closing]
AtRule(name, params, body, nodes, before, closing) ==
  [kind |-> "atrule", name |-> name, text |-> params, body |-> body, nodes |-> nodes, before |-> before, closing |-> closing]

-----------------------------------------------------------------------------
(* The arguments: a text read back alone must be one node with that text.  *)

OneNode(text) == ToSet(text) \cap Ends = {}

AssertTarget(target) ==
  /\ target.params # Absent => target.atRule # NoName
  /\ target.selector # Absent \/ target.atRule # NoName
  /\ target.atRule # NoName => target.atRule \notin BadNames
  /\ target.params # Absent => OneNode(target.params)
  /\ target.selector # Absent => OneNode(target.selector) /\ Trim(target.selector) # <<>>

AssertProperty(property) == property \notin BadNames
AssertValue(value) == OneNode(value) /\ Trim(value) # <<>> /\ Last(Trim(value)) # Important
AssertOptions(options) ==
  /\ options.before = NoName \/ options.after = NoName
  /\ \A anchor \in {options.before, options.after} \ {NoName} : AssertProperty(anchor)

-----------------------------------------------------------------------------
(* Finding: a block by the indices that lead to it, a declaration by its   *)
(* own.                                                                    *)

Nodes(root, path) ==
  CASE Len(path) = 0 -> root
    [] Len(path) = 1 -> root[path[1]].nodes
    [] Len(path) = 2 -> root[path[1]].nodes[path[2]].nodes

WithNodes(root, path, nodes) ==
  CASE Len(path) = 0 -> nodes
    [] Len(path) = 1 -> [root EXCEPT ![path[1]].nodes = nodes]
    [] Len(path) = 2 -> [root EXCEPT ![path[1]].nodes[path[2]].nodes = nodes]

None == <<0>>
Ambiguous == <<0, 0>>
Only(found) ==
  CASE found = {} -> None [] Cardinality(found) = 1 -> CHOOSE p \in found : TRUE [] OTHER -> Ambiguous

Params(target) == IF target.params = Absent THEN <<>> ELSE Trim(target.params)

FindAtRule(root, target) ==
  Only({<<i>> : i \in {j \in DOMAIN root : /\ root[j].kind = "atrule" /\ root[j].body
                                          /\ Lowered(root[j].name) = Lowered(target.atRule)
                                          /\ root[j].text = Params(target)}})

FindRule(nodes, scope, selector) ==
  Only({Append(scope, i) : i \in {j \in DOMAIN nodes : nodes[j].kind = "rule" /\ nodes[j].text = selector}})

FindWithin(root, scope, target) ==
  IF scope \in {None, Ambiguous} \/ target.selector = Absent THEN scope
  ELSE FindRule(Nodes(root, scope), scope, Trim(target.selector))

ScopeOf(root, target) == IF target.atRule = NoName THEN <<>> ELSE FindAtRule(root, target)
FindBlock(root, target) == FindWithin(root, ScopeOf(root, target), target)

Same(property, prop) ==
  IF property \in Custom THEN prop = property ELSE Lowered(prop) = Lowered(property)

FindDeclaration(nodes, property) ==
  Only({<<i>> : i \in {j \in DOMAIN nodes : nodes[j].kind = "decl" /\ Same(property, nodes[j].prop)}})

(* The same, in a block that may be missing.                               *)
FindIn(root, block, property) ==
  IF block \in {None, Ambiguous} THEN block ELSE FindDeclaration(Nodes(root, block), property)

-----------------------------------------------------------------------------
(* Placing a node last in its parent, as the file itself would.            *)

StyleOf(root) ==
  LET Direct(node) == node.kind # "decl" /\ \E i \in DOMAIN node.nodes : node.nodes[i].kind = "decl"
      block == SelectInSeq(root, Direct)
      first == SelectSeq(root[block].nodes, LAMBDA n : n.kind = "decl")[1].before
  IN IF block = 0 \/ first.lines = 0 \/ first.indent = 0 THEN 2 ELSE first.indent

(* A declaration is laid out like the sibling before it.                   *)
Layout(nodes, child, level, style) ==
  IF nodes = <<>> THEN Before(IF level = 0 THEN 0 ELSE 1, level * style)
  ELSE IF child.kind = "decl" THEN Last(nodes).before ELSE Before(2, level * style)

Closed(root, path, style) ==
  LET closing == Before(1, (Len(path) - 1) * style)
  IN CASE Len(path) = 0 -> root
       [] Len(path) = 1 -> [root EXCEPT ![path[1]].closing = closing]
       [] Len(path) = 2 -> [root EXCEPT ![path[1]].nodes[path[2]].closing = closing]

PlaceAmong(nodes, root, path, child, style) ==
  WithNodes(IF nodes = <<>> THEN Closed(root, path, style) ELSE root, path,
            Append(nodes, [child EXCEPT !.before = Layout(nodes, child, Len(path), style)]))
Place(root, path, child, style) == PlaceAmong(Nodes(root, path), root, path, child, style)

NoLayout == Before(0, 0)
Made(root, at) == [root |-> root, at |-> at]

CreateRule(root, parent, target, style) ==
  IF target.selector = Absent THEN Made(root, parent)
  ELSE Made(Place(root, parent, Rule(Trim(target.selector), <<>>, NoLayout, NoLayout), style),
            Append(parent, Len(Nodes(root, parent)) + 1))

CreateIn(root, scope, target, style) ==
  IF scope # None THEN CreateRule(root, scope, target, style)
  ELSE CreateRule(Place(root, <<>>, AtRule(target.atRule, Params(target), TRUE, <<>>, NoLayout, NoLayout), style),
                  <<Len(root) + 1>>, target, style)
CreateBlock(root, target) == CreateIn(root, ScopeOf(root, target), target, StyleOf(root))

-----------------------------------------------------------------------------
(* The operations.                                                         *)

Update(root, block, i, value, important) ==
  WithNodes(root, block, [Nodes(root, block) EXCEPT ![i].value = IF Trim(@) # value THEN value ELSE @,
                                                    ![i].important = important])

AnchorOf(options) == IF options.before # NoName THEN options.before ELSE options.after
Beside(root, block, anchor, child, options) ==
  LET nodes == Nodes(root, block)
  IN WithNodes(root, block,
       InsertAt(nodes, IF options.before # NoName THEN anchor ELSE anchor + 1, [child EXCEPT !.before = nodes[anchor].before]))

PlaceLast(made, child) == Place(made.root, made.at, child, StyleOf(made.root))

(* A declaration that the block has not yet.                               *)
AddTo(root, target, block, anchor, child, options) ==
  IF AnchorOf(options) = NoName
  THEN Done(PlaceLast(IF block = None THEN CreateBlock(root, target) ELSE Made(root, block), child))
  ELSE IF anchor \in {None, Ambiguous} THEN Refused(root)
  ELSE Done(Beside(root, block, anchor[1], child, options))

SetIn(root, target, block, found, child, options) ==
  IF found = Ambiguous THEN Refused(root)
  ELSE IF found # None THEN Done(Update(root, block, found[1], child.value, child.important))
  ELSE AddTo(root, target, block, FindIn(root, block, AnchorOf(options)), child, options)

SetInBlock(root, target, block, child, options) ==
  SetIn(root, target, block, FindIn(root, block, child.prop), child, options)

AssertArguments(target, property, value, options) ==
  AssertTarget(target) /\ AssertProperty(property) /\ AssertValue(value) /\ AssertOptions(options)

SetDeclaration(root, target, property, value, options) ==
  IF ~AssertArguments(target, property, value, options) THEN Refused(root)
  ELSE SetInBlock(root, target, FindBlock(root, target),
                  Declaration(property, Trim(value), options.important, NoLayout), options)

RemoveAtOf(root, block, found) ==
  IF found = Ambiguous THEN Refused(root)
  ELSE IF found = None THEN Done(root)
  ELSE Done(WithNodes(root, block, RemoveAt(Nodes(root, block), found[1])))
RemoveIn(root, block, property) == RemoveAtOf(root, block, FindIn(root, block, property))

RemoveDeclaration(root, target, property) ==
  IF ~AssertTarget(target) \/ ~AssertProperty(property) THEN Refused(root)
  ELSE RemoveIn(root, FindBlock(root, target), property)

(* Nothing, or the value and whether it is important.                      *)
Read(nodes, found) ==
  IF found \in {None, Ambiguous} THEN found ELSE <<Trim(nodes[found[1]].value), nodes[found[1]].important>>
GetIn(root, block, property) == Read(Nodes(root, block), FindIn(root, block, property))
GetDeclaration(root, target, property) == GetIn(root, FindBlock(root, target), property)

-----------------------------------------------------------------------------
(* What a stylesheet says: its declarations in order, each under the texts *)
(* of the blocks around it; and whether every node has a line of its own,  *)
(* as deep as it is nested.                                                *)

Block(node) == <<node.kind, Lowered(node.name), node.text>>

RECURSIVE Says(_, _)
Says(nodes, where) ==
  FlattenSeq([i \in DOMAIN nodes |->
    IF nodes[i].kind = "decl"
    THEN <<[where |-> where, prop |-> nodes[i].prop, value |-> nodes[i].value, important |-> nodes[i].important]>>
    ELSE Says(nodes[i].nodes, Append(where, Block(nodes[i])))])

Named(target) ==
  (IF target.atRule = NoName THEN <<>> ELSE <<<<"atrule", Lowered(target.atRule), Params(target)>>>>)
  \o (IF target.selector = Absent THEN <<>> ELSE <<<<"rule", "", Trim(target.selector)>>>>)

Blocks(root) ==
  LET Of(nodes) == {i \in DOMAIN nodes : nodes[i].kind # "decl"}
  IN {<<>>} \cup {<<i>> : i \in Of(root)} \cup UNION {{<<i, j>> : j \in Of(root[i].nodes)} : i \in Of(root)}

Neat(root, style) ==
  \A path \in Blocks(root) :
    /\ \A i \in DOMAIN Nodes(root, path) :
         LET before == Nodes(root, path)[i].before
         IN before.indent = Len(path) * style /\ (before.lines > 0 <=> path # <<>> \/ i > 1)
    /\ path # <<>> /\ Nodes(root, path) # <<>> =>
         Nodes(root, Front(path))[Last(path)].closing = Before(1, (Len(path) - 1) * style)

Others(root, target, property) ==
  SelectSeq(Says(root, <<>>), LAMBDA d : d.where # Named(target) \/ ~Same(property, d.prop))

AtAnchor(nodes, property, options) ==
  \E at \in {FindDeclaration(nodes, property)[1]} :
    Same(AnchorOf(options), nodes[IF options.before # NoName THEN at + 1 ELSE at - 1].prop)

IsSet(root, set, target, property, value, options) ==
  /\ SetDeclaration(set, target, property, value, options) = Done(set)
  /\ GetDeclaration(set, target, property) = <<Trim(value), options.important>>
  /\ AnchorOf(options) # NoName /\ GetDeclaration(root, target, property) = None =>
       AtAnchor(Nodes(set, FindBlock(set, target)), property, options)
  /\ Others(set, target, property) = Others(root, target, property)
  /\ Cardinality(Blocks(set)) - Cardinality(Blocks(root)) \in 0..Len(Named(target))
  /\ \E style \in {StyleOf(root)} : Neat(root, style) => Neat(set, style)

IsRemoved(set, removed, target, property) ==
  /\ removed.ok /\ GetDeclaration(removed.as, target, property) = None
  /\ Others(removed.as, target, property) = Others(set, target, property)
  /\ Cardinality(Blocks(removed.as)) = Cardinality(Blocks(set))
  /\ RemoveDeclaration(removed.as, target, property) = removed

(* An edit is taken up or refused as a whole, refused for want of an anchor *)
(* or for what cannot be told apart, and a second time it is idle.  Taken   *)
(* up, a declaration reads back as it was set, however its name is spelt,   *)
(* and at the anchor if it is new; removed, it is gone.  All others stay    *)
(* what and in the order they were, at most the two blocks that were        *)
(* missing are new, and a neat file stays neat.                             *)
OneDeclarationIsEdited(root, target, property, value, options) ==
  \E set \in {SetDeclaration(root, target, property, value, options)} :
    IF set.ok
    THEN /\ IsSet(root, set.as, target, property, value, options)
         /\ IsRemoved(set.as, RemoveDeclaration(set.as, target, property), target, property)
    ELSE /\ set.as = root
         /\ AssertArguments(target, property, value, options) =>
              \/ GetDeclaration(root, target, property) = Ambiguous
              \/ /\ AnchorOf(options) # NoName
                 /\ GetDeclaration(root, target, AnchorOf(options)) \in {None, Ambiguous}
=============================================================================
