---------------------------- MODULE AngularEdits ----------------------------
(***************************************************************************)
(* The operations of the Angular dialect that add a member to a component, *)
(* an element to a list of its metadata, or a route                        *)
(* (src/dialects/angular/ops.ts).                                          *)
(*                                                                         *)
(* A file is what the operations look at: its owners of lists (see         *)
(* LiteralEdits), with the declared type of a variable and the names its   *)
(* arguments are given by; its classes; and the names it binds, each with  *)
(* the module it is imported from.  What an author passes carries the type *)
(* that JavaScript finds it to have.                                       *)
(***************************************************************************)
EXTENDS LiteralEdits
LOCAL INSTANCE SequencesExt

CONSTANTS
  Angular,   \* the module "@angular/core"
  Rooted     \* paths that begin with a slash

Edited(file) == [ok |-> TRUE, as |-> file]
Left(file) == [ok |-> FALSE, as |-> file]

Of(type, value) == [type |-> type, value |-> value]
None == [k \in {} |-> Of("undefined", 0)]

Given(options, key) == IF key \in DOMAIN options THEN options[key] ELSE Of("undefined", 0)

-----------------------------------------------------------------------------
(* What an author passes.                                                  *)

AssertImports(imports) ==
  \/ imports.type = "undefined"
  \/ /\ imports.type = "list"
     /\ \A entry \in ToSet(imports.value) :
          DOMAIN entry = {"name", "from"} /\ AssertValidImportBinding(entry.name)
Entries(imports) == IF imports.type = "list" THEN imports.value ELSE <<>>

Scopes == {"public", "protected", "private"}
AssertOptions(options, keys) ==
  /\ \A key \in DOMAIN options :
       /\ key \in keys
       /\ CASE key = "required" -> options[key].type = "boolean"
            [] key = "scope" -> options[key].type = "string" /\ options[key].value \in Scopes
            [] key = "imports" -> TRUE
            [] OTHER -> options[key].type = "string"
  /\ AssertImports(Given(options, "imports"))

(* A type, as it parses behind `let x:`: one declaration, all of the text. *)
TypeArgument(type) ==
  IF type.type = "undefined" THEN Edited(<<>>)
  ELSE IF type.value.statements = 1 /\ type.value.declarations = 1 /\ type.value.whole
  THEN Edited(<<type.value.text>>) ELSE Left(<<>>)

(* elementNode: code that is one expression, or just an identifier.        *)
NamedBy(node) == IF AssertValidImportBinding(node.text) THEN node ELSE Nothing
ElementNode(element) ==
  CASE element.type = "string" -> NamedBy(ParseElement(element.value))
    [] element.type = "expression" -> ParseElement(element.value)
    [] OTHER -> Nothing

-----------------------------------------------------------------------------
(* Imports, as ModuleEdits!AddImport has them.                             *)

AddImport(file, name, from) ==
  IF name \in DOMAIN file.bound THEN IF file.bound[name] = from THEN Edited(file) ELSE Left(file)
  ELSE Edited([file EXCEPT !.bound = [n \in DOMAIN @ \cup {name} |-> IF n = name THEN from ELSE @[n]]])

(* One by one; those before a refused one stay.                            *)
AddImports(file, entries) ==
  FoldLeft(LAMBDA done, entry : IF done.ok THEN AddImport(done.as, entry.name, entry.from) ELSE done,
           Edited(file), entries)

-----------------------------------------------------------------------------
(* Members.                                                                *)

View == {"Component", "Directive"}
Injectable == View \cup {"Pipe", "Injectable", "Service"}

DecoratedClass(file, decorators) ==
  LET found == {i \in DOMAIN file.classes : file.classes[i].decorators \cap decorators # {}}
  IN IF Cardinality(found) # 1 THEN 0 ELSE CHOOSE i \in found : TRUE

Member_(name, scope, fn, generic, args) ==
  [kind |-> "property", name |-> name, scope |-> scope, readonly |-> TRUE,
   value |-> [fn |-> fn, generic |-> generic, args |-> args]]

WithClass(file, i, inserted, needed) ==
  IF inserted.ok THEN AddImports([file EXCEPT !.classes[i].members = inserted.as], needed) ELSE Left(file)
AddMemberTo(file, i, member, needed) ==
  IF i = 0 THEN Left(file) ELSE WithClass(file, i, InsertClassProperty(file.classes[i].members, member), needed)

AddMember(file, decorators, member, core, imports) ==
  AddMemberTo(file, DecoratedClass(file, decorators), member, <<[name |-> core, from |-> Angular]>> \o Entries(imports))

Scope(options, default) ==
  IF "scope" \in DOMAIN options THEN options["scope"].value ELSE default

(* signalInputOp, for `input` and `model`.                                 *)
SignalInput(file, fn, name, options) ==
  LET generic == TypeArgument(Given(options, "type"))
      initial == Given(options, "initial")
      args == IF initial.type = "undefined" THEN <<>> ELSE <<ElementNode(Of("expression", initial.value))>>
      required == "required" \in DOMAIN options /\ options["required"].value
      call == IF required THEN <<fn, "required">> ELSE <<fn>>
  IN IF \/ ~AssertValidImportBinding(name)
        \/ ~AssertOptions(options, {"type", "initial", "required", "imports"})
        \/ required /\ "initial" \in DOMAIN options
        \/ ~generic.ok \/ Nothing \in ToSet(args)
     THEN Left(file)
     ELSE AddMember(file, View, Member_(name, "none", call, generic.as, IF required THEN <<>> ELSE args),
                    fn, Given(options, "imports"))

AddOutput(file, name, options) ==
  LET generic == TypeArgument(Given(options, "type")) IN
  IF ~AssertValidImportBinding(name) \/ ~AssertOptions(options, {"type", "imports"}) \/ ~generic.ok THEN Left(file)
  ELSE AddMember(file, View, Member_(name, "none", <<"output">>, generic.as, <<>>),
                 "output", Given(options, "imports"))

AddInjection(file, name, token, options) ==
  LET arg == ElementNode(token) IN
  IF ~AssertValidImportBinding(name) \/ ~AssertOptions(options, {"scope", "imports"}) \/ arg = Nothing THEN Left(file)
  ELSE AddMember(file, Injectable, Member_(name, Scope(options, "private"), <<"inject">>, <<>>, <<arg>>),
                 "inject", Given(options, "imports"))

(* An object that an arrow function returns needs parentheses, or it is    *)
(* read as a block.                                                        *)
Arrow(body) == Expr("arrow", "", <<IF body.kind = "object" THEN Wrapped(body) ELSE body>>)

(* addSignal and addComputed.                                              *)
AddState(file, fn, name, expression, options) ==
  LET generic == TypeArgument(Given(options, "type"))
      body == ElementNode(Of("expression", expression))
      arg == IF fn = "computed" THEN Arrow(body) ELSE body
  IN IF \/ ~AssertValidImportBinding(name) \/ ~AssertOptions(options, {"type", "scope", "imports"})
        \/ ~generic.ok \/ body = Nothing
     THEN Left(file)
     ELSE AddMember(file, View, Member_(name, Scope(options, "protected"), <<fn>>, generic.as, <<arg>>),
                    fn, Given(options, "imports"))

-----------------------------------------------------------------------------
(* Elements.                                                               *)

Owners(file, root) == {i \in DOMAIN file.owners : file.owners[i].root = root}
TypedVariables(file, types) == {i \in Owners(file, "variable") : file.owners[i].type \in types}
BootCalls(file) == {i \in Owners(file, "call") : file.owners[i].name = "bootstrapApplication"}

NoLocator == [root |-> "none", name |-> "", argument |-> 1, path |-> <<>>]
ListOf(root, name, argument, key) == [root |-> root, name |-> name, argument |-> argument, path |-> <<Key(key)>>]

(* rootProviders: a configuration passed by name is in another file.       *)
ProvidersIn(file, configs, calls) ==
  LET ByName(i) == Len(file.owners[i].args) >= 2 /\ file.owners[i].args[2].kind = "name"
  IN IF Cardinality(configs) = 1
     THEN ListOf("variable", file.owners[CHOOSE i \in configs : TRUE].name, 1, "providers")
     ELSE IF configs # {} \/ calls = {} \/ (Cardinality(calls) = 1 /\ \A i \in calls : ByName(i)) THEN NoLocator
     ELSE ListOf("call", "bootstrapApplication", 2, "providers")
RootProviders(file) == ProvidersIn(file, TypedVariables(file, {"ApplicationConfig"}), BootCalls(file))

(* appendArrayElement.                                                     *)
WithOwners(file, edited) == IF edited.ok THEN Edited([file EXCEPT !.owners = edited.as]) ELSE Left(file)
AppendArrayElement(file, locator, item) ==
  WithOwners(file, AddElementAt(file.owners, LocateRoot(file.owners, locator), locator, item))

(* insertOp: the list first, and then what the element needs.              *)
AndImports(inserted, imports) == IF inserted.ok THEN AddImports(inserted.as, Entries(imports)) ELSE inserted
InsertOp(file, locator, element, imports) ==
  IF ~AssertImports(imports) \/ locator = NoLocator THEN Left(file)
  ELSE AndImports(AppendArrayElement(file, locator, ElementNode(element)), imports)

Decorators == {"Component", "NgModule"}

(* addRootProvider, and the operations on the metadata of a decorator.     *)
AddElement(file, op, element, imports) ==
  LET list == ListOf("decorator", op.decorator, 1, op.list)
  IN InsertOp(file, IF op.decorator \in Decorators THEN list ELSE RootProviders(file), element, imports)

-----------------------------------------------------------------------------
(* Routes.                                                                 *)

IsStringRecord(value, required, optional) ==
  /\ required \subseteq DOMAIN value /\ DOMAIN value \subseteq required \cup optional
  /\ \A key \in DOMAIN value : value[key].type = "string"

(* pathOf: the first property counts, and only if it is a plain string.    *)
TextAt(members, i) ==
  IF i = 0 THEN Nothing
  ELSE IF members[i].kind = "assignment" /\ members[i].value.kind = "string" THEN members[i].value ELSE Nothing
PathIn(route) ==
  IF route.kind # "object" THEN Nothing
  ELSE TextAt(route.parts, SelectInSeq(route.parts, LAMBDA m : PropertyKey(m, "path")))
PathOf(element) == PathIn(Unwrap(element))

(* routesList: the owner of the list, or 0.                                *)
TheOnly(found) == IF Cardinality(found) = 1 THEN CHOOSE i \in found : TRUE ELSE 0
CalledRoutes(file, call) ==
  IF call = 0 THEN 0
  ELSE LET args == file.owners[call].args IN
       IF args = <<>> THEN 0
       ELSE IF args[1].kind # "name" THEN call
       ELSE TheOnly({i \in Owners(file, "variable") : file.owners[i].name = args[1].text})
OwnerOfRoutes(file, typed) ==
  IF typed # {} THEN TheOnly(typed)
  ELSE CalledRoutes(file, TheOnly({i \in Owners(file, "call") :
                                     file.owners[i].name \in {"RouterModule.forRoot", "RouterModule.forChild"}}))
ListAt(file, owner) ==
  IF owner = 0 THEN 0
  ELSE IF file.owners[owner].args = <<>> THEN 0
  ELSE IF Unwrap(file.owners[owner].args[1]).kind = "array" THEN owner ELSE 0
RoutesList(file) == ListAt(file, OwnerOfRoutes(file, TypedVariables(file, {"Routes", "Route[]"})))

RECURSIVE Rewrapped(_, _)
Rewrapped(e, list) == IF e.kind = "as" THEN Wrapped(Rewrapped(e.parts[1], list)) ELSE list

(* Where a path is first matched, or 0.                                    *)
At(routes, path) == SelectInSeq(routes, LAMBDA r : PathOf(r) = Str(path))
Inserted(routes, wildcard, route) == InsertAt(routes, IF wildcard = 0 THEN Len(routes) + 1 ELSE wildcard, route)

InsertBelow(file, i, routes, same, route) ==
  IF same # 0 THEN IF routes[same] = route THEN Edited(file) ELSE Left(file)
  ELSE Edited([file EXCEPT !.owners[i].args[1] = Rewrapped(@, Array(Inserted(routes, At(routes, "**"), route)))])
InsertIn(file, i, path, routes, route) == InsertBelow(file, i, routes, At(routes, path), route)
InsertRouteAt(file, i, path, route) ==
  IF i = 0 THEN Left(file) ELSE InsertIn(file, i, path, Unwrap(file.owners[i].args[1]).parts, route)

InsertRoute(file, path, route) ==
  IF path \in Rooted THEN Left(file) ELSE InsertRouteAt(file, RoutesList(file), path, route)

RouteTo(path, key, value) == Object(<<Member("assignment", "path", Str(path)), Member("assignment", key, value)>>)

AndImport(inserted, name, from) == IF inserted.ok THEN AddImport(inserted.as, name, from) ELSE inserted
AddRoute(file, route) ==
  LET component == route["component"].value IN
  IF ~IsStringRecord(route, {"path", "component", "from"}, {}) THEN Left(file)
  ELSE IF ~AssertValidImportBinding(component) THEN Left(file)
  ELSE AndImport(InsertRoute(file, route["path"].value, RouteTo(route["path"].value, "component", Name(component))),
                 component, route["from"].value)

(* The loader, with the export that is taken from the module.              *)
Loader(from, then) == Expr("import", from, then)

AddLazyRoute(file, route) ==
  LET kinds == {"loadComponent", "loadChildren"} \cap DOMAIN route
      kind == CHOOSE k \in kinds : TRUE
      then == IF "export" \in DOMAIN route THEN <<Name(route["export"].value)>> ELSE <<>>
  IN IF ~IsStringRecord(route, {"path"}, {"loadComponent", "loadChildren", "export"}) \/ Cardinality(kinds) # 1
     THEN Left(file)
     ELSE IF then # <<>> /\ ~AssertValidImportBinding(route["export"].value) THEN Left(file)
     ELSE InsertRoute(file, route["path"].value, RouteTo(route["path"].value, kind, Loader(route[kind].value, then)))

-----------------------------------------------------------------------------
(* What an author may ask for, and what comes of it.                       *)

Ask(op, name, given, options) == [op |-> op, name |-> name, given |-> given, options |-> options]

Do(file, ask) ==
  CASE ask.op \in {"input", "model"} -> SignalInput(file, ask.op, ask.name, ask.options)
    [] ask.op = "output" -> AddOutput(file, ask.name, ask.options)
    [] ask.op = "inject" -> AddInjection(file, ask.name, Of("expression", ask.given), ask.options)
    [] ask.op \in {"signal", "computed"} -> AddState(file, ask.op, ask.name, ask.given, ask.options)

(* Whoever may see a member that nobody asked to be seen otherwise.        *)
DefaultScope(op) ==
  CASE op = "inject" -> "private" [] op \in {"signal", "computed"} -> "protected" [] OTHER -> "none"

Binds(old, new, entries) ==
  /\ \A n \in DOMAIN old.bound : new.bound[n] = old.bound[n]
  /\ \A e \in ToSet(entries) : new.bound[e.name] = e.from
  /\ DOMAIN new.bound = DOMAIN old.bound \cup {e.name : e \in ToSet(entries)}
Clash(file, entries) ==
  \/ \E e \in ToSet(entries) : e.name \in DOMAIN file.bound /\ file.bound[e.name] # e.from
  \/ \E e, f \in ToSet(entries) : e.name = f.name /\ e.from # f.from

Returned(arg) == IF arg.kind = "arrow" THEN arg.parts[1] ELSE arg
GivenFor(ask) ==
  IF "initial" \in DOMAIN ask.options THEN ToSet(ask.options["initial"].value.elements)
  ELSE IF ask.op \in {"inject", "signal", "computed"} THEN ToSet(ask.given.elements) ELSE {}

IsMember(m, ask) ==
  /\ m.kind = "property" /\ m.readonly /\ Head(m.value.fn) = ask.op
  /\ m.scope = Scope(ask.options, DefaultScope(ask.op))
  /\ (Len(m.value.fn) = 2) = ("required" \in DOMAIN ask.options /\ ask.options["required"].value)
  /\ Len(m.value.fn) = 2 => m.value.args = <<>>
  /\ \A arg \in ToSet(m.value.args) : arg.kind = "arrow" => Returned(arg).kind # "object"
  /\ \A e \in GivenFor(ask) : Unwrap(Returned(m.value.args[1])) = Unwrap(e)

(* A member that is added is the only one of its name, in the only class   *)
(* that Angular takes it from; it is what was asked for, and a value that  *)
(* is required is never given too; the class can call its function, and to *)
(* ask again changes nothing.  A refusal leaves nothing behind, but the    *)
(* member whose import was refused.                                        *)
MemberIsDeclared(file, ask) ==
  \E done \in {Do(file, ask)},
     entries \in {<<[name |-> ask.op, from |-> Angular]>> \o Entries(Given(ask.options, "imports"))},
     holders \in {{i \in DOMAIN file.classes :
                     file.classes[i].decorators \cap (IF ask.op = "inject" THEN Injectable ELSE View) # {}}} :
    IF done.ok
    THEN LET Others(cs) == [i \in DOMAIN cs |-> SelectSeq(cs[i].members, LAMBDA m : i \notin holders \/ m.name # ask.name)]
         IN /\ Do(done.as, ask) = done /\ Binds(file, done.as, entries)
            /\ Others(done.as.classes) = Others(file.classes)
            /\ Cardinality(holders) = 1
            /\ \A i \in holders :
                 \E named \in {SelectSeq(done.as.classes[i].members, LAMBDA m : m.name = ask.name)} :
                   Len(named) = 1 /\ IsMember(named[1], ask)
    ELSE done.as # file => Clash(file, entries)

HasGained(old, new, at, path, element) ==
  \E after \in {Meaning(new, <<>>)} :
    Grown(Meaning(old, <<>>), after) /\ Reaches(after.at[at], path, Meaning(element, <<>>))

(* An element that is added is in the list that Angular reads: of the only *)
(* decorator, of the only configuration that is typed as one, or of the    *)
(* only bootstrap call, never beside a configuration from another file;    *)
(* and every name that it needs is imported.                               *)
ElementIsProvided(file, op, element, imports) ==
  \E done \in {AddElement(file, op, element, imports)}, configs \in {TypedVariables(file, {"ApplicationConfig"})} :
    IF done.ok
    THEN /\ AddElement(done.as, op, element, imports) = done /\ Binds(file, done.as, Entries(imports))
         /\ LET holders == IF op.decorator \in Decorators
                           THEN {i \in Owners(file, "decorator") : file.owners[i].name = op.decorator}
                           ELSE IF configs # {} THEN configs ELSE BootCalls(file)
                at == IF op.decorator \notin Decorators /\ configs = {} THEN 2 ELSE 1
            IN \E i \in DOMAIN file.owners :
                 /\ holders = {i}
                 /\ \A j \in DOMAIN file.owners \ {i} : done.as.owners[j] = file.owners[j]
                 /\ HasGained(Array(file.owners[i].args), Array(done.as.owners[i].args), at,
                              <<Key(op.list)>>, ElementNode(element))
    ELSE done.as # file => Clash(file, Entries(imports))

Add(file, route) == IF "component" \in DOMAIN route THEN AddRoute(file, route) ELSE AddLazyRoute(file, route)
NeededBy(route) ==
  IF "component" \in DOMAIN route THEN <<[name |-> route["component"].value, from |-> route["from"].value]>> ELSE <<>>

Leads(element, route) ==
  element.kind = "object" /\ \E m \in ToSet(element.parts) :
    /\ m.key \in DOMAIN route \ {"path"}
    /\ m.value = IF m.key = "component" THEN Name(route["component"].value)
                 ELSE Loader(route[m.key].value,
                             IF "export" \in DOMAIN route THEN <<Name(route["export"].value)>> ELSE <<>>)

TakesRoute(old, new, route) ==
  \E added \in {SelectSeq(new, LAMBDA r : r \notin ToSet(old))} :
    /\ Len(added) <= 1 /\ SelectSeq(new, LAMBDA r : r \notin ToSet(added)) = old
    /\ added # <<>> =>
         new[SelectInSeq(new, LAMBDA r : PathOf(r) \in {Str(route["path"].value), Str("**")})] = added[1]
    /\ \E r \in ToSet(new) : PathOf(r) = Str(route["path"].value) /\ Leads(r, route)

(* A route that is added is the first that matches its path, so that the   *)
(* router takes it; the routes that were there keep their order; and it    *)
(* goes where the router looks for routes, with its component imported.    *)
RouteIsTaken(file, route) ==
  \E done \in {Add(file, route)}, i \in {RoutesList(file)} :
    IF done.ok
    THEN /\ Add(done.as, route) = done /\ Binds(file, done.as, NeededBy(route))
         /\ \A j \in DOMAIN file.owners : j # i => done.as.owners[j] = file.owners[j]
         /\ TakesRoute(Unwrap(file.owners[i].args[1]).parts, Unwrap(done.as.owners[i].args[1]).parts, route)
    ELSE done.as # file => Clash(file, NeededBy(route))
=============================================================================
