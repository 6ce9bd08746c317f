------------------------------ MODULE JsxEdits ------------------------------
(***************************************************************************)
(* The operations of the React dialect (src/dialects/react/ops.ts): on one *)
(* JSX element that a tag and some props pick out, and on one component.   *)
(*                                                                         *)
(* An element has an opening and a closing tag, its attributes in order,   *)
(* and children.  A fragment, or a JavaScript expression, around elements  *)
(* is an element that no target and no wrapper names.  Text, layout and    *)
(* what an expression says are left out.                                   *)
(***************************************************************************)
EXTENDS Naturals, Sequences, FiniteSets
LOCAL INSTANCE SequencesExt

CONSTANTS
  BadTags,     \* tags that assertValidElementName refuses
  BadNames     \* bindings that assertValidImportBinding refuses

SelfClosing == "/>"
Container == "{}"
Spread == "..."
AnyValue == "true"   \* a target's prop with any value

Element(open, close, attrs, children) ==
  [open |-> open, close |-> close, attrs |-> attrs, children |-> children]
Done(r) == [ok |-> TRUE, as |-> r]
Refused(r) == [ok |-> FALSE, as |-> r]

-----------------------------------------------------------------------------
(* Finding the one element.                                                *)

RECURSIVE Paths(_)
Paths(e) == {<<>>} \cup UNION {{<<i>> \o p : p \in Paths(e.children[i])} : i \in DOMAIN e.children}

RECURSIVE At(_, _)
At(e, path) == IF path = <<>> THEN e ELSE At(e.children[Head(path)], Tail(path))

RECURSIVE Put(_, _, _)
Put(e, path, new) ==
  IF path = <<>> THEN new ELSE [e EXCEPT !.children[Head(path)] = Put(@, Tail(path), new)]

Attribute(e, name) == SelectInSeq(e.attrs, LAMBDA a : a.name = name)
HasProp(e, name, value) ==
  LET i == Attribute(e, name) IN i # 0 /\ value \in {AnyValue, e.attrs[i].value}

Matches(file, target) ==
  {p \in Paths(file) : /\ At(file, p).open = target.tag
                       /\ \A name \in DOMAIN target.props : HasProp(At(file, p), name, target.props[name])}

TargetElement(file, target) == IF Cardinality(Matches(file, target)) = 1 THEN Matches(file, target) ELSE {}

AssertValidTarget(target) == target.tag \notin BadTags

-----------------------------------------------------------------------------
(* The operations, at the path of the target.                              *)

SetJsxProp(file, path, op) ==
  LET e == At(file, path)
      i == Attribute(e, op.name)
  IN Put(file, path, IF i # 0 THEN [e EXCEPT !.attrs[i].value = op.value]
                     ELSE [e EXCEPT !.attrs = Append(@, [name |-> op.name, value |-> op.value])])

RemoveJsxProp(file, path, op) ==
  LET e == At(file, path)
      i == Attribute(e, op.name)
  IN IF i = 0 THEN file ELSE Put(file, path, [e EXCEPT !.attrs = RemoveAt(@, i)])

AddJsxChild(file, path, op) ==
  LET e == At(file, path)
  IN IF e.close = SelfClosing
     THEN Put(file, path, [e EXCEPT !.close = e.open, !.children = <<op.node>>])
     ELSE IF op.node \in ToSet(e.children) THEN file
     ELSE Put(file, path, [e EXCEPT !.children = Append(@, op.node)])

WrapJsxElement(file, path, op) ==
  IF At(file, Front(path)).open = op.node.open THEN file
  ELSE Put(file, path, [op.node EXCEPT !.close = op.node.open, !.children = <<At(file, path)>>])

RenameJsxElement(file, path, op) ==
  LET e == At(file, path)
  IN Put(file, path, [e EXCEPT !.open = op.name, !.close = IF e.close = SelfClosing THEN @ ELSE op.name])

(* What stands for `jsx` must parse as one element, for `wrapper` as one   *)
(* that closes itself; a name must be one.                                 *)
AssertArguments(op) ==
  CASE op.verb = "addJsxChild" -> Len(op.parsed) = 1
    [] op.verb = "wrapJsxElement" -> Len(op.parsed) = 1 /\ op.node.close = SelfClosing
    [] op.verb = "renameJsxElement" -> op.name \notin BadTags
    [] OTHER -> TRUE

Edit(file, path, op) ==
  CASE op.verb = "setJsxProp" -> SetJsxProp(file, path, op)
    [] op.verb = "removeJsxProp" -> RemoveJsxProp(file, path, op)
    [] op.verb = "addJsxChild" -> AddJsxChild(file, path, op)
    [] op.verb = "wrapJsxElement" -> WrapJsxElement(file, path, op)
    [] op.verb = "renameJsxElement" -> RenameJsxElement(file, path, op)

(* validatedOp: all arguments are looked at before the file is.            *)
Do(file, target, op) ==
  LET found == TargetElement(file, target)
  IN IF ~AssertValidTarget(target) \/ ~AssertArguments(op) \/ found = {} THEN Refused(file)
     ELSE Done(Edit(file, CHOOSE p \in found : TRUE, op))

-----------------------------------------------------------------------------
(* What a file is to React.                                                *)

Balanced(e) ==
  \A p \in Paths(e) : LET x == At(e, p) IN IF x.close = SelfClosing THEN x.children = <<>> ELSE x.close = x.open

(* What React sees: the last attribute of a name, unless a spread follows. *)
Effective(e, name) ==
  LET i == SelectLastInSeq(e.attrs, LAMBDA a : a.name \in {name, Spread})
  IN IF i = 0 THEN <<>> ELSE <<e.attrs[i].name, e.attrs[i].value>>
NamesOnce(file) ==
  \A p \in Paths(file) : \A i, j \in DOMAIN At(file, p).attrs :
    i # j => LET a == At(file, p).attrs IN a[i].name = Spread \/ a[i].name # a[j].name

(* All else is as it was: the elements beside the target, those around it, *)
(* and what the target has beside the attribute of that name.              *)
Untouched(old, new, path) ==
  \A p \in Paths(old) :
    /\ ~IsPrefix(p, path) /\ ~IsPrefix(path, p) => At(new, p) = At(old, p)
    /\ IsStrictPrefix(p, path) =>
         /\ At(new, p).open = At(old, p).open /\ At(new, p).attrs = At(old, p).attrs
         /\ Len(At(new, p).children) = Len(At(old, p).children)
Others(e, name) == SelectSeq(e.attrs, LAMBDA a : a.name # name)
OnlyProp(old, new, name) ==
  [new EXCEPT !.attrs = <<>>] = [old EXCEPT !.attrs = <<>>] /\ Others(new, name) = Others(old, name)

(* A file stays balanced through an edit; no more than one element of it   *)
(* is touched; what was asked for is so, as React sees it, unless a spread *)
(* follows; and a second time the same edit is idle or refused.            *)
OneElementIsEdited(file, target, op) ==
  LET once == Do(file, target, op)
      again == Do(once.as, target, op)
      path == CHOOSE p \in TargetElement(file, target) : TRUE
      e == At(once.as, path)
      before == At(file, path)
  IN NamesOnce(file) /\ Balanced(file) /\ once.ok =>
       /\ Balanced(once.as)
       /\ again.as = once.as
       /\ Untouched(file, once.as, path)
       /\ op.verb \in {"setJsxProp", "removeJsxProp"} => OnlyProp(before, e, op.name)
       /\ CASE op.verb = "setJsxProp" -> Effective(e, op.name) \in {<<op.name, op.value>>, <<Spread, AnyValue>>}
            [] op.verb = "removeJsxProp" -> Effective(e, op.name) \in {<<>>, <<Spread, AnyValue>>}
            [] op.verb = "addJsxChild" -> /\ op.node \in ToSet(e.children) /\ IsPrefix(before.children, e.children)
                                         /\ e.open = before.open /\ e.attrs = before.attrs
            [] op.verb = "wrapJsxElement" ->
                 \/ e.open = op.node.open /\ e.children = <<before>>
                 \/ once.as = file /\ At(file, Front(path)).open = op.node.open
            [] op.verb = "renameJsxElement" -> e = [before EXCEPT !.open = op.name, !.close = e.close]

-----------------------------------------------------------------------------
(* Components.  A file has functions and named types; a parameter has a    *)
(* type, inline or by name, and perhaps a destructuring pattern.           *)

NoPattern == <<[prop |-> "none", local |-> ""]>>
NoParameter == [type |-> "absent", members |-> <<>>, pattern |-> NoPattern]
ExpressionBody == <<[text |-> "none", hook |-> FALSE]>>

ComponentFunction(file, name) ==
  LET named == {i \in DOMAIN file.functions : file.functions[i].name = name}
  IN IF Cardinality(named) = 1 THEN CHOOSE i \in named : TRUE ELSE 0

AddHookCall(file, component, statement) ==
  LET i == ComponentFunction(file, component)
      body == file.functions[i].body
      others == SelectInSeq(body, LAMBDA s : ~s.hook)
      place == IF others = 0 THEN Len(body) + 1 ELSE others
  IN IF component \in BadNames \/ i = 0 THEN Refused(file)
     ELSE IF body = ExpressionBody THEN Refused(file)
     ELSE Done(IF statement \in ToSet(body) THEN file
               ELSE [file EXCEPT !.functions[i].body = InsertAt(body, place, statement)])

(* The members of the parameter's type, wherever it is declared.           *)
PropsType(file, parameter) ==
  CASE parameter.type = "inline" -> parameter.members
    [] parameter.type \in DOMAIN file.types -> file.types[parameter.type]
    [] OTHER -> <<>>
HasPropsType(file, parameter) == parameter.type = "inline" \/ parameter.type \in DOMAIN file.types

AddPropsMember(file, i, member) ==
  LET parameter == file.functions[i].parameter
  IN IF parameter.type = "inline" THEN [file EXCEPT !.functions[i].parameter.members = Append(@, member)]
     ELSE [file EXCEPT !.types[parameter.type] = Append(@, member)]

Rest(e) == e.prop = Spread

AddDestructuredName(pattern, name) ==
  LET rest == SelectInSeq(pattern, Rest)
  IN IF pattern = NoPattern \/ \E e \in ToSet(pattern) : e.local = name THEN pattern
     ELSE InsertAt(pattern, IF rest = 0 THEN Len(pattern) + 1 ELSE rest, [prop |-> name, local |-> name])

AddComponentProp(file, component, name, type) ==
  LET i == ComponentFunction(file, component)
      parameter == file.functions[i].parameter
      props == PropsType(file, parameter)
      existing == SelectInSeq(props, LAMBDA m : m.name = name /\ ~m.method)
      member == [name |-> name, type |-> type, method |-> FALSE]
      extended == AddPropsMember(file, i, member)
  IN IF {component, name} \cap BadNames # {} \/ i = 0 THEN Refused(file)
     ELSE IF parameter = NoParameter
     THEN Done([file EXCEPT !.functions[i].parameter =
                  [type |-> "inline", members |-> <<member>>, pattern |-> <<[prop |-> name, local |-> name]>>]])
     ELSE IF ~HasPropsType(file, parameter) THEN Refused(file)
     ELSE IF existing # 0 THEN (IF props[existing].type = type THEN Done(file) ELSE Refused(file))
     ELSE Done([extended EXCEPT !.functions[i].parameter.pattern = AddDestructuredName(@, name)])

(* Hooks run in the order they were added in and before all else, a second *)
(* time the same one is idle; and the statements there are keep theirs.    *)
HooksLead(file, component, first, second) ==
  LET one == AddHookCall(file, component, first)
      two == AddHookCall(one.as, component, second)
      i == ComponentFunction(file, component)
      old == file.functions[i].body
      new == two.as.functions[i].body
      Leading(body) == SelectInSeq(body, LAMBDA s : ~s.hook) - 1
      added == {first, second} \ ToSet(old)
      Where(s) == SelectInSeq(new, LAMBDA t : t = s)
  IN one.ok /\ two.ok =>
       /\ AddHookCall(two.as, component, first) = two /\ AddHookCall(two.as, component, second) = two
       /\ SelectSeq(new, LAMBDA s : s \notin added) = old
       /\ \A s \in added : \A j \in 1..(Where(s) - 1) : new[j].hook \/ new[j] \in added
       /\ first.hook /\ added = {first, second} => Where(first) <= Where(second)

(* A prop that is added is in the props once and, where they are taken     *)
(* apart, has its name; the rest stays the rest, and without it; other     *)
(* components keep their parameters; a second time nothing happens.        *)
PropIsTaken(file, component, name, type) ==
  LET added == AddComponentProp(file, component, name, type)
      i == ComponentFunction(file, component)
      old == file.functions[i].parameter
      new == added.as.functions[i].parameter
      props == PropsType(added.as, new)
      Known(ms) == \E m \in ToSet(ms) : m.name = name
      RestIsLast(p) == \A j \in DOMAIN p : Rest(p[j]) => j = Len(p)
  IN added.ok =>
       /\ AddComponentProp(added.as, component, name, type) = added
       /\ \A j \in DOMAIN file.functions : j # i => added.as.functions[j] = file.functions[j]
       /\ \E m \in ToSet(props) : m.name = name /\ m.type = type
       /\ RestIsLast(old.pattern) => RestIsLast(new.pattern)
       /\ ~Known(PropsType(file, old)) =>
            /\ Cardinality({j \in DOMAIN props : props[j].name = name}) = 1
            /\ new.pattern # NoPattern => \E e \in ToSet(new.pattern) : e.local = name
=============================================================================
