---------------------------- MODULE LiteralEdits ----------------------------
(***************************************************************************)
(* addArrayElement and addClassProperty of the TypeScript dialect          *)
(* (src/dialects/typescript/array-element.ts, class-property.ts), with the *)
(* names that they admit (src/core/jsx-name-validator.ts).                 *)
(*                                                                         *)
(* An expression is a name or a string, an array of expressions, an object *)
(* of members, or one of these within `as`, parentheses and the like.      *)
(* Comments, trailing commas and layout are left out, but where two        *)
(* elements are compared by their tokens.                                  *)
(***************************************************************************)
EXTENDS Naturals, Sequences, FiniteSets
LOCAL INSTANCE SequencesExt

CONSTANTS
  Misspelt,   \* names that are no identifier
  Words,      \* reserved words
  Denied      \* JSX_NAME_DENYLIST

Expr(kind, text, parts) == [kind |-> kind, text |-> text, parts |-> parts]
Name(text) == Expr("name", text, <<>>)
Str(text) == Expr("string", text, <<>>)
Array(elements) == Expr("array", "", elements)
Object(members) == Expr("object", "", members)
Wrapped(e) == Expr("as", "", <<e>>)

(* A member: "assignment", "method", "spread" or "computed".               *)
Member(kind, key, value) == [kind |-> kind, key |-> key, value |-> value]

Nothing == Expr("none", "", <<>>)
Done(e) == [ok |-> TRUE, as |-> e]
Refused == [ok |-> FALSE, as |-> Nothing]

-----------------------------------------------------------------------------
(* Names.                                                                  *)

AssertValidPropertyKey(key) == key \notin Misspelt \cup Denied
AssertValidImportBinding(name) == name \notin Misspelt \cup Words \cup Denied

-----------------------------------------------------------------------------
(* What an author passes.                                                  *)

Key(k) == [key |-> k, is |-> Nothing]
Match(k, v) == [key |-> k, is |-> Str(v)]
IsKey(segment) == segment.is = Nothing

AssertLocator(locator) ==
  /\ AssertValidImportBinding(locator.name)
  /\ \A segment \in ToSet(locator.path) : AssertValidPropertyKey(segment.key)

(* `text` is what stands between the brackets of `[text]`, parsed.         *)
ParseElement(text) ==
  IF text.statements = 1 /\ Len(text.elements) = 1 /\ Head(text.elements).kind \notin {"spread", "omitted"}
  THEN Head(text.elements) ELSE Nothing

-----------------------------------------------------------------------------
(* Where the element goes.                                                 *)

RECURSIVE Unwrap(_)
Unwrap(e) == IF e.kind = "as" THEN Unwrap(e.parts[1]) ELSE e

PropertyKey(m, key) == m.kind \in {"assignment", "method"} /\ m.key = key
IsOpaque(m) == m.kind \in {"spread", "computed"}

RECURSIVE Nested(_, _)
Nested(keys, item) ==
  IF keys = <<>> THEN Array(<<item>>)
  ELSE Object(<<Member("assignment", Head(keys).key, Nested(Tail(keys), item))>>)

(* Only keys can be created.                                               *)
MissingLevels(keys, item) ==
  IF \A segment \in ToSet(keys) : IsKey(segment) THEN Done(Nested(keys, item)) ELSE Refused

StringValue(e) == LET s == Unwrap(e) IN IF s.kind = "string" THEN s ELSE Nothing

(* The first property with the key counts.                                 *)
Selects(segment, e) ==
  LET o == Unwrap(e)
      i == SelectInSeq(o.parts, LAMBDA m : PropertyKey(m, segment.key))
  IN /\ o.kind = "object"
     /\ i # 0 /\ o.parts[i].kind = "assignment" /\ StringValue(o.parts[i].value) = segment.is

(* A slip: a key is created though a spread may give it.                   *)
CreatesBesideSpread(object, path, item) ==
  LET made == MissingLevels(Tail(path), item)
  IN IF ~made.ok THEN Refused
     ELSE Done([object EXCEPT !.parts = Append(@, Member("assignment", Head(path).key, made.as))])

AddProperty(object, path, item) ==
  LET made == MissingLevels(Tail(path), item)
  IN IF ~made.ok \/ \E m \in ToSet(object.parts) : IsOpaque(m) THEN Refused
     ELSE Done([object EXCEPT !.parts = Append(@, Member("assignment", Head(path).key, made.as))])

AppendEntry(array, item) ==
  Done(IF item \in ToSet(array.parts) THEN array ELSE [array EXCEPT !.parts = Append(@, item)])

(* The expression with the item added below it, along the path.            *)
RECURSIVE Locate(_, _, _)
Locate(e, path, item) ==
  LET Part(i) == Locate(e.parts[i], Tail(path), item)
      Value(i) == Locate(e.parts[i].value, Tail(path), item)
      chosen == {i \in DOMAIN e.parts :
                   IF IsKey(Head(path)) THEN PropertyKey(e.parts[i], Head(path).key)
                   ELSE Selects(Head(path), e.parts[i])}
      i == CHOOSE c \in chosen : TRUE
  IN CASE e.kind = "as" ->
            LET inner == Locate(e.parts[1], path, item)
            IN IF inner.ok THEN Done(Wrapped(inner.as)) ELSE Refused
       [] e.kind # "as" /\ path = <<>> -> IF e.kind = "array" THEN AppendEntry(e, item) ELSE Refused
       [] e.kind = "object" /\ path # <<>> ->
            IF ~IsKey(Head(path)) \/ Cardinality(chosen) > 1 THEN Refused
            ELSE IF chosen = {} THEN AddProperty(e, path, item)
            ELSE IF e.parts[i].kind = "assignment" /\ Value(i).ok
            THEN Done([e EXCEPT !.parts[i].value = Value(i).as]) ELSE Refused
       [] e.kind = "array" /\ path # <<>> ->
            IF ~IsKey(Head(path)) /\ Cardinality(chosen) = 1 /\ Part(i).ok
            THEN Done([e EXCEPT !.parts[i] = Part(i).as]) ELSE Refused
       [] OTHER -> Refused

(* The one variable, call or decorator of the name; a variable has one     *)
(* argument, its initializer, or none; a decorator may lack parentheses.   *)
LocateRoot(file, locator) ==
  LET named == {i \in DOMAIN file : file[i].root = locator.root /\ file[i].name = locator.name}
  IN IF Cardinality(named) # 1 THEN 0 ELSE CHOOSE i \in named : TRUE

AddArgument(owner, locator, item) ==
  LET made == MissingLevels(locator.path, item)
  IN IF owner.root = "variable" \/ locator.argument # Len(owner.args) + 1 \/ ~made.ok THEN Refused
     ELSE Done([owner EXCEPT !.args = Append(@, made.as)])

WithArgument(owner, n, edited) == IF edited.ok THEN Done([owner EXCEPT !.args[n] = edited.as]) ELSE Refused

Below(owner, locator, item) ==
  IF locator.argument > Len(owner.args) THEN AddArgument(owner, locator, item)
  ELSE WithArgument(owner, locator.argument, Locate(owner.args[locator.argument], locator.path, item))

WithOwner(file, i, edited) == IF edited.ok THEN Done([file EXCEPT ![i] = edited.as]) ELSE Refused
AddElementAt(file, i, locator, item) ==
  IF item = Nothing \/ i = 0 THEN Refused
  ELSE IF ~file[i].factory THEN Refused ELSE WithOwner(file, i, Below(file[i], locator, item))

AddArrayElement(file, locator, text) ==
  IF ~AssertLocator(locator) THEN Refused
  ELSE AddElementAt(file, LocateRoot(file, locator), locator, ParseElement(text))

-----------------------------------------------------------------------------
(* Reference: what the literals come to when they are run.  A spread or a  *)
(* computed key gives the members `others`; the last of a key counts.      *)

RECURSIVE Meaning(_, _)
Meaning(e, others) ==
  LET Give(got, m) == IF IsOpaque(m) THEN [k \in DOMAIN got \cup DOMAIN others |->
                                             IF k \in DOMAIN others THEN others[k] ELSE got[k]]
                      ELSE [k \in DOMAIN got \cup {m.key} |->
                              IF k = m.key THEN Meaning(m.value, others) ELSE got[k]]
  IN CASE e.kind = "as" -> Meaning(e.parts[1], others)
       [] e.kind = "array" ->
            [kind |-> "array", text |-> "", at |-> [i \in DOMAIN e.parts |-> Meaning(e.parts[i], others)]]
       [] e.kind = "object" ->
            [kind |-> "object", text |-> "", at |-> FoldLeft(Give, [k \in {} |-> Nothing], e.parts)]
       [] OTHER -> [kind |-> e.kind, text |-> e.text, at |-> <<>>]

(* The new value is the old one with at most one entry more, at one place. *)
RECURSIVE Grown(_, _)
Grown(old, new) ==
  \/ old = new
  \/ /\ old.kind = new.kind /\ DOMAIN old.at \subseteq DOMAIN new.at
     /\ LET moved == {k \in DOMAIN old.at : old.at[k] # new.at[k]}
            added == DOMAIN new.at \ DOMAIN old.at
        IN Cardinality(moved) + Cardinality(added) = 1 /\ \A k \in moved : Grown(old.at[k], new.at[k])

RECURSIVE Reaches(_, _, _)
Reaches(value, path, item) ==
  IF path = <<>> THEN value.kind = "array" /\ \E i \in DOMAIN value.at : value.at[i] = item
  ELSE LET here == {k \in DOMAIN value.at :
                      IF IsKey(Head(path)) THEN value.kind = "object" /\ k = Head(path).key
                      ELSE /\ value.kind = "array" /\ value.at[k].kind = "object"
                           /\ Head(path).key \in DOMAIN value.at[k].at
                           /\ value.at[k].at[Head(path).key] = Meaning(Head(path).is, <<>>)}
       IN Cardinality(here) = 1 /\ \A k \in here : Reaches(value.at[k], Tail(path), item)

(* No object gives a key twice; for of these the code looks at the first,  *)
(* where the last counts.                                                  *)
RECURSIVE GivesKeysOnce(_)
GivesKeysOnce(e) ==
  IF e.kind = "object"
  THEN \A i, j \in DOMAIN e.parts :
         ~IsOpaque(e.parts[i]) => GivesKeysOnce(e.parts[i].value) /\ (i # j => e.parts[i].key # e.parts[j].key)
  ELSE \A i \in DOMAIN e.parts : GivesKeysOnce(e.parts[i])

MeansMore(old, new, others) == \A o \in {<<>>, others} : Grown(Meaning(old, o), Meaning(new, o))

(* An element that an author adds is, once, where his path leads when the  *)
(* file is run; nothing that was in the file is lost or hidden, whatever a *)
(* spread or a computed key may give; and to add it again changes nothing. *)
ElementIsListed(file, locator, text, others) ==
  \A added \in {AddArrayElement(file, locator, text)} : added.ok =>
    /\ AddArrayElement(added.as, locator, text) = added
    /\ \A k \in DOMAIN locator.path : locator.path[k].key \notin Denied
    /\ \E i \in {LocateRoot(file, locator)} :
         /\ \A j \in DOMAIN file : j # i => added.as[j] = file[j]
         /\ MeansMore(Array(file[i].args), Array(added.as[i].args), others)
         /\ GivesKeysOnce(Array(file[i].args)) =>
              Reaches(Meaning(added.as[i].args[locator.argument], <<>>), locator.path, Meaning(ParseElement(text), <<>>))

-----------------------------------------------------------------------------
(* Equal elements: an element as its tokens, with comments among them.     *)

Closers == {")", "]", "}"}

TokensOf(text) ==
  LET tokens == SelectSeq(text, LAMBDA t : t # "comment")
      BeforeCloser(i) == tokens[i] = "," /\ i < Len(tokens) /\ tokens[i + 1] \in Closers
      kept == SelectSeq([i \in DOMAIN tokens |-> i], LAMBDA i : ~BeforeCloser(i))
  IN [k \in DOMAIN kept |-> tokens[kept[k]]]

IsSameElement(text, other) == TokensOf(text) = TokensOf(other)

(* Reference: an element as it may be written, with a comma after the last *)
(* part or not, and comments or not.  An omitted part needs its comma.     *)
RECURSIVE Written(_, _)
Written(e, style) ==
  LET n == Len(e.parts)
      Comma(i) == IF i < n \/ style.trailing \/ e.parts[i].kind = "omitted" THEN <<",">> ELSE <<>>
      Note == IF style.noted THEN <<"comment">> ELSE <<>>
      inner == FlattenSeq([i \in 1..n |-> Note \o Written(e.parts[i], style) \o Comma(i)]) \o Note
  IN CASE e.kind = "array" -> <<"[">> \o inner \o <<"]">>
       [] e.kind = "call" -> <<e.text, "(">> \o inner \o <<")">>
       [] OTHER -> IF e.kind = "omitted" THEN <<>> ELSE <<e.text>>

Omitted == Expr("omitted", "", <<>>)

(* The one pair that the tokens do not tell apart: `[,]` and `[]`.         *)
RECURSIVE Unhollowed(_)
Unhollowed(e) ==
  IF e = Array(<<Omitted>>) THEN Array(<<>>)
  ELSE [e EXCEPT !.parts = [i \in DOMAIN @ |-> Unhollowed(@[i])]]

(* Two elements count as the same exactly when they are the same           *)
(* expression, in whatever style each of them is written.                  *)
ElementsAreToldApart(e, f) ==
  \A s, t \in [trailing: BOOLEAN, noted: BOOLEAN] :
     IsSameElement(Written(e, s), Written(f, t)) <=> Unhollowed(e) = Unhollowed(f)

-----------------------------------------------------------------------------
(* Properties of a class.                                                  *)

(* insertClassProperty: after the last property, else before all members.  *)
Place(members) == SelectLastInSeq(members, LAMBDA m : m.kind = "property") + 1

InsertClassProperty(members, p) ==
  LET named == {i \in DOMAIN members : members[i].name = p.name}
  IN IF named = {} THEN Done(InsertAt(members, Place(members), p))
     ELSE IF Cardinality(named) = 1 /\ \A i \in named : members[i] = p THEN Done(members) ELSE Refused

WithMembers(classes, i, edited) == IF edited.ok THEN Done([classes EXCEPT ![i].members = edited.as]) ELSE Refused
AddPropertyTo(classes, named, p) ==
  IF Cardinality(named) # 1 THEN Refused
  ELSE LET i == CHOOSE n \in named : TRUE
       IN WithMembers(classes, i, InsertClassProperty(classes[i].members, p))

AddClassProperty(classes, class, p) ==
  IF AssertValidImportBinding(class) /\ AssertValidImportBinding(p.name) /\ ParseElement(p.value) # Nothing
  THEN AddPropertyTo(classes, {i \in DOMAIN classes : classes[i].name = class}, p) ELSE Refused

(* A property is added once, its initializer runs after those of all that  *)
(* were there, the members keep their order and the properties their place *)
(* before the rest; one that is there is left as it is, or is refused.     *)
PropertyIsInitialised(classes, class, first, second) ==
  LET Fields(cs) == FlattenSeq([i \in DOMAIN cs |-> SelectSeq(cs[i].members, LAMBDA m : m.kind = "property")])
      Rest(cs) == [i \in DOMAIN cs |-> SelectSeq(cs[i].members, LAMBDA m : m \notin {first, second})]
      Has(p) == \E c \in ToSet(classes) : c.name = class /\ p \in ToSet(c.members)
      FieldsFirst(ms) == \A j \in DOMAIN ms : ms[j].kind = "property" => \A k \in 1..j : ms[k].kind = "property"
  IN \A one \in {AddClassProperty(classes, class, first)} : one.ok =>
       \A two \in {AddClassProperty(one.as, class, second)} : two.ok =>
         /\ first = second => two = one
         /\ Rest(two.as) = Rest(classes)
         /\ \A i \in DOMAIN classes : FieldsFirst(classes[i].members) => FieldsFirst(two.as[i].members)
         /\ Len(classes) = 1 /\ first # second =>
              Fields(two.as) = Fields(classes) \o SelectSeq(<<first, second>>, LAMBDA p : ~Has(p))
=============================================================================
