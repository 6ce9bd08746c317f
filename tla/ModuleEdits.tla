---------------------------- MODULE ModuleEdits ----------------------------
(***************************************************************************)
(* The import and export operations of the TypeScript dialect              *)
(* (src/dialects/typescript/ops.ts, import-order.ts), and the operations   *)
(* of the NestJS and Angular dialects that combine one of them with an     *)
(* edit of a list, a route table or a class (nestjs/ops.ts,                *)
(* angular/ops.ts, typescript/class-property.ts).                          *)
(*                                                                         *)
(* A file is what these operations look at: whether directives ("use       *)
(* client") lead it, its import declarations in order, its top-level       *)
(* names, its export declarations, one list of entries in a decorator, one *)
(* route table and one class.  Names are numbers, ordered as the code      *)
(* orders their text; a module specifier is the sequence of its segments,  *)
(* 0 first for a package and 1 for a relative path.  The validation of     *)
(* names, type-only re-exports, comments and layout are left out.          *)
(***************************************************************************)
EXTENDS Naturals, Sequences, FiniteSets, SequencesExt

CONSTANTS
  Names,     \* names an author may ask for; 0 is none
  Modules,   \* module specifiers, sequences of numbers
  Core,      \* the module of the framework
  Start,     \* the files an author may start from
  MaxEdits   \* bound: edits of one file

VARIABLES file, edits

Absent == 0
Wildcard == 9

Plain(n) == [name |-> n, as |-> Absent, type |-> FALSE]
NoBraces == <<Plain(Absent)>>
InBraces(named) == IF named = NoBraces THEN <<>> ELSE named

Decl(m, type, def, ns, named) ==
  [from |-> m, type |-> type, def |-> def, ns |-> ns, braces |-> named # NoBraces, named |-> InBraces(named)]

ModuleName == Seq(Nat) \ {<<>>}
Specifier == [name: Nat \ {0}, as: Nat, type: BOOLEAN]
Declaration == [from: ModuleName, type: BOOLEAN, def: Nat, ns: Nat, braces: BOOLEAN, named: Seq(Specifier)]
Export == [from: ModuleName, ns: Nat, star: BOOLEAN, named: Seq(Specifier)]
File ==
  [prologue: BOOLEAN, imports: Seq(Declaration), exports: Seq(Export),
   locals: SUBSET [name: Nat \ {0}, value: BOOLEAN, exported: BOOLEAN],
   list: [usable: BOOLEAN, names: SUBSET Nat],
   routes: Seq([path: Nat, to: Nat]),
   members: SUBSET [name: Nat, call: Nat]]

Done(f) == [file |-> f, ok |-> TRUE]
Refused(f) == [file |-> f, ok |-> FALSE]

-----------------------------------------------------------------------------
(* What a file binds and exports.                                          *)

Visible(s) == IF s.as = Absent THEN s.name ELSE s.as

(* boundNamesIn: whole is a default or namespace import, plain a name that *)
(* is the one the module exports.                                          *)
BoundNames(d) ==
  {[local |-> n, whole |-> TRUE, plain |-> TRUE, value |-> ~d.type] : n \in {d.def, d.ns} \ {Absent}}
  \cup {[local |-> Visible(s), whole |-> FALSE, plain |-> s.as \in {Absent, s.name},
         value |-> ~d.type /\ ~s.type] : s \in ToSet(d.named)}

Bare(d) == d.def = Absent /\ d.ns = Absent /\ ~d.braces

(* The declarations of a module; the first place of an element of S, or 0. *)
Of(decls, m) == {d \in ToSet(decls) : d.from = m}
First(s, S) == IF S \cap ToSet(s) = {} THEN 0 ELSE Min({i \in DOMAIN s : s[i] \in S})

(* isBindingClaimed: an import of any kind, or a top-level value.          *)
Claimed(f, n) ==
  \/ \E d \in ToSet(f.imports) : \E b \in BoundNames(d) : b.local = n
  \/ \E v \in f.locals : v.name = n /\ v.value

(* exportedNamesOf.                                                        *)
ExportedNames(f) ==
  (UNION {{Visible(s) : s \in ToSet(e.named)} \cup ({e.ns} \ {Absent}) : e \in ToSet(f.exports)})
  \cup {v.name : v \in {w \in f.locals : w.exported}}

-----------------------------------------------------------------------------
(* Where a new import goes.                                                *)

(* compareModules, packages first.                                         *)
Precedes(a, b) ==
  \E k \in 1..Len(b) :
     /\ Len(a) >= k - 1 /\ \A i \in 1..(k - 1) : a[i] = b[i]
     /\ Len(a) < k \/ a[k] < b[k]

(* One plus the segments in common, or 0 between packages and paths.       *)
Kinship(a, b) ==
  IF Head(a) # Head(b) THEN 0
  ELSE Max({k \in 1..Len(a) : k <= Len(b) /\ \A i \in 1..k : a[i] = b[i]})

(* sortedPlacement: the place before the first of the closest kin that     *)
(* sorts after it, else after the last of them.                            *)
SortedPlace(imports, m) ==
  LET closest == Max({Kinship(d.from, m) : d \in ToSet(imports)})
      kin == {i \in DOMAIN imports : Kinship(imports[i].from, m) = closest}
      after == {i \in kin : Precedes(m, imports[i].from)}
  IN IF imports = <<>> THEN 1 ELSE IF after = {} THEN Max(kin) + 1 ELSE Min(after)

(* insertImport: by default below the imports there are, but right below   *)
(* the directives of a file that is led by some.                           *)
InsertImport(f, d, place) == [f EXCEPT !.imports = InsertAt(@, place, d)]
DefaultPlace(f) == IF f.prologue THEN 1 ELSE Len(f.imports) + 1
AppendImport(f, d) == InsertImport(f, d, DefaultPlace(f))

SpecifierPlace(named, n) ==
  LET after == {i \in DOMAIN named : named[i].name > n}
  IN IF after = {} THEN Len(named) + 1 ELSE Min(after)

-----------------------------------------------------------------------------
(* Imports.                                                                *)

(* addImport: nothing if the module already gives the value under that     *)
(* name; refused if the name is taken; into the first braces that import   *)
(* values, else a declaration of its own.                                  *)
AddImport(f, n, m, sorted) ==
  LET bound == \E d \in Of(f.imports, m) :
                  \E b \in BoundNames(d) : b.local = n /\ b.value /\ b.plain
      i == First(f.imports, {d \in Of(f.imports, m) : ~d.type /\ d.braces})
      fresh == Decl(m, FALSE, Absent, Absent, <<Plain(n)>>)
  IN IF bound THEN Done(f)
     ELSE IF Claimed(f, n) THEN Refused(f)
     ELSE IF i # 0
     THEN LET place == IF sorted THEN SpecifierPlace(f.imports[i].named, n)
                       ELSE Len(f.imports[i].named) + 1
          IN Done([f EXCEPT !.imports[i].named = InsertAt(@, place, Plain(n))])
     ELSE Done(IF sorted THEN InsertImport(f, fresh, SortedPlace(f.imports, m))
               ELSE AppendImport(f, fresh))

(* The name by which value imports of m have the default or namespace.     *)
Existing(f, m, field) ==
  LET i == First(f.imports, {d \in Of(f.imports, m) : ~d.type /\ d[field] # Absent})
  IN IF i = 0 THEN Absent ELSE f.imports[i][field]

(* addDefaultImport.                                                       *)
AddDefault(f, n, m) ==
  LET i == First(f.imports, {d \in Of(f.imports, m) : ~d.type /\ ~Bare(d)})
  IN IF Existing(f, m, "def") = n THEN Done(f)
     ELSE IF Existing(f, m, "def") # Absent \/ Claimed(f, n) THEN Refused(f)
     ELSE IF i # 0 THEN Done([f EXCEPT !.imports[i].def = n])
     ELSE Done(AppendImport(f, Decl(m, FALSE, n, Absent, NoBraces)))

AddNamespaceAnywhere(f, n, m) ==
  LET i == First(f.imports, {d \in Of(f.imports, m) : ~d.type /\ d.def # Absent})
  IN IF Existing(f, m, "ns") = n THEN Done(f)
     ELSE IF Existing(f, m, "ns") # Absent \/ Claimed(f, n) THEN Refused(f)
     ELSE IF i # 0 THEN Done([f EXCEPT !.imports[i].ns = n])
     ELSE Done(AppendImport(f, Decl(m, FALSE, Absent, n, NoBraces)))

(* addNamespaceImport: only beside a default that has no braces.            *)
AddNamespace(f, n, m) ==
  LET i == First(f.imports, {d \in Of(f.imports, m) : ~d.type /\ d.def # Absent /\ d.ns = Absent /\ ~d.braces})
  IN IF Existing(f, m, "ns") = n THEN Done(f)
     ELSE IF Existing(f, m, "ns") # Absent \/ Claimed(f, n) THEN Refused(f)
     ELSE IF i # 0 THEN Done([f EXCEPT !.imports[i].ns = n])
     ELSE Done(AppendImport(f, Decl(m, FALSE, Absent, n, NoBraces)))

(* addTypeImport: a value import gives the type too; a local type of that  *)
(* name is in the way.                                                     *)
AddType(f, n, m) ==
  LET bound == \E d \in Of(f.imports, m) :
                  \E b \in BoundNames(d) : b.local = n /\ ~b.whole /\ b.plain
  IN IF bound THEN Done(f)
     ELSE IF Claimed(f, n) \/ \E v \in f.locals : v.name = n THEN Refused(f)
     ELSE Done(AppendImport(f, Decl(m, TRUE, Absent, Absent, <<Plain(n)>>)))

AddSideEffect(f, m) ==
  IF \E d \in Of(f.imports, m) : Bare(d) THEN Done(f)
  ELSE Done(AppendImport(f, Decl(m, FALSE, Absent, Absent, NoBraces)))

RemoveImportBySpecifierOnly(f, n, m) ==
  LET i == First(f.imports, {d \in Of(f.imports, m) : \E s \in ToSet(d.named) : s.name = n})
      k == First(f.imports[i].named, {s \in ToSet(f.imports[i].named) : s.name = n})
  IN IF i = 0 THEN Done(f)
     ELSE IF Len(f.imports[i].named) = 1 THEN Done([f EXCEPT !.imports = RemoveAt(@, i)])
     ELSE Done([f EXCEPT !.imports[i].named = RemoveAt(@, k)])

(* removeImport, by the exported name; with its last name a declaration    *)
(* goes, or, if it has a default, only its braces.  (A slip, in            *)
(* RemoveImportBySpecifierOnly: it does not look for a default.)           *)
RemoveImport(f, n, m) ==
  LET i == First(f.imports, {d \in Of(f.imports, m) : \E s \in ToSet(d.named) : s.name = n})
      d == f.imports[i]
      k == First(d.named, {s \in ToSet(d.named) : s.name = n})
  IN IF i = 0 THEN Done(f)
     ELSE IF Len(d.named) = 1 /\ d.def = Absent /\ d.ns = Absent
     THEN Done([f EXCEPT !.imports = RemoveAt(@, i)])
     ELSE Done([f EXCEPT !.imports[i] = [d EXCEPT !.named = RemoveAt(@, k), !.braces = Len(d.named) > 1]])

(* A sequence in the order in which ahead[j] are the places before j.      *)
Arranged(s, ahead) ==
  [i \in DOMAIN s |-> s[CHOOSE j \in DOMAIN s : Cardinality(ahead[j]) = i - 1]]

(* Declarations move by their module, but never across a side-effect       *)
(* import; where there is nothing to choose they stay in order.            *)
Apart(decls, k, j) == \E b \in DOMAIN decls : Bare(decls[b]) /\ ((k <= b /\ b <= j) \/ (j <= b /\ b <= k))
ImportOrder(decls) ==
  [j \in DOMAIN decls |->
     {k \in DOMAIN decls : IF Apart(decls, k, j) \/ decls[k].from = decls[j].from THEN k < j
                           ELSE Precedes(decls[k].from, decls[j].from)}]

NameOrder(named) ==
  [j \in DOMAIN named |->
     {k \in DOMAIN named : named[k].name < named[j].name \/ (named[k].name = named[j].name /\ k < j)}]

(* sortImports: the declarations, then the names inside the braces.        *)
SortImports(f) ==
  LET placed == Arranged(f.imports, ImportOrder(f.imports))
  IN Done([f EXCEPT !.imports =
             [i \in DOMAIN placed |-> [placed[i] EXCEPT !.named = Arranged(@, NameOrder(@))]]])

-----------------------------------------------------------------------------
(* Declarations and exports.                                               *)

(* addFunction, addVariable, addClass.                                     *)
Declare(f, n, exported) ==
  IF Claimed(f, n) THEN Refused(f)
  ELSE Done([f EXCEPT !.locals = @ \cup {[name |-> n, value |-> TRUE, exported |-> exported]}])

ExportDecl(m, ns, named) == [from |-> m, ns |-> ns, star |-> named = NoBraces,
                             named |-> InBraces(named)]

(* addReExport, matched by the name in the module.                         *)
AddReExport(f, n, m) ==
  LET there == \E e \in Of(f.exports, m) : \E s \in ToSet(e.named) : s.name = n
      i == First(f.exports, {e \in Of(f.exports, m) : ~e.star})
  IN IF there THEN Done(f)
     ELSE IF n \in ExportedNames(f) THEN Refused(f)
     ELSE IF i # 0 THEN Done([f EXCEPT !.exports[i].named = Append(@, Plain(n))])
     ELSE Done([f EXCEPT !.exports = Append(@, ExportDecl(m, Absent, <<Plain(n)>>))])

(* addExportAll, `export *` or `export * as ns`.                           *)
AddExportAll(f, m, ns) ==
  IF \E e \in Of(f.exports, m) : e.star /\ e.ns = ns THEN Done(f)
  ELSE IF ns # Absent /\ ns \in ExportedNames(f) THEN Refused(f)
  ELSE Done([f EXCEPT !.exports = Append(@, ExportDecl(m, ns, NoBraces))])

RemoveReExport(f, n, m) ==
  LET i == First(f.exports, {e \in Of(f.exports, m) : \E s \in ToSet(e.named) : s.name = n})
      k == First(f.exports[i].named, {s \in ToSet(f.exports[i].named) : s.name = n})
  IN IF i = 0 THEN Done(f)
     ELSE IF Len(f.exports[i].named) = 1 THEN Done([f EXCEPT !.exports = RemoveAt(@, i)])
     ELSE Done([f EXCEPT !.exports[i].named = RemoveAt(@, k)])

RemoveExportAll(f, m, ns) ==
  LET i == First(f.exports, {e \in Of(f.exports, m) : e.star /\ e.ns = ns})
  IN Done(IF i = 0 THEN f ELSE [f EXCEPT !.exports = RemoveAt(@, i)])

-----------------------------------------------------------------------------
(* Operations of the other dialects, each with an import.                  *)

(* moduleArrayOp of nestjs: a list that cannot be used is noticed before   *)
(* the import, which may still be refused, and the entry is written last.  *)
AddEntry(f, n, m) ==
  LET imported == AddImport(f, n, m, FALSE)
  IN IF ~f.list.usable \/ ~imported.ok THEN Refused(f)
     ELSE Done([imported.file EXCEPT !.list.names = @ \cup {n}])

(* insertOp of angular has it the other way round, so that a refused       *)
(* import leaves the entry behind: the handle is poisoned by then.         *)
AddElement(f, n, m) ==
  IF ~f.list.usable THEN Refused(f)
  ELSE AddImport([f EXCEPT !.list.names = @ \cup {n}], n, m, FALSE)

RouteAtTheEnd(f, path, n, m) ==
  LET route == [path |-> path, to |-> n]
  IN IF route \in ToSet(f.routes) THEN AddImport(f, n, m, FALSE)
     ELSE IF \E r \in ToSet(f.routes) : r.path = path THEN Refused(f)
     ELSE AddImport([f EXCEPT !.routes = Append(@, route)], n, m, FALSE)

(* insertRoute and addRoute: before the first wildcard, as the first route *)
(* that matches wins.  (A slip, in RouteAtTheEnd: after it.)               *)
AddRoute(f, path, n, m) ==
  LET route == [path |-> path, to |-> n]
      i == First(f.routes, {r \in ToSet(f.routes) : r.path = Wildcard})
      place == IF i = 0 THEN Len(f.routes) + 1 ELSE i
  IN IF route \in ToSet(f.routes) THEN AddImport(f, n, m, FALSE)
     ELSE IF \E r \in ToSet(f.routes) : r.path = path THEN Refused(f)
     ELSE AddImport([f EXCEPT !.routes = InsertAt(@, place, route)], n, m, FALSE)

(* insertClassProperty and addMember: the same declaration is left alone,  *)
(* another member of that name is in the way; then the function it calls   *)
(* is imported.                                                            *)
AddMember(f, n, call) ==
  LET member == [name |-> n, call |-> call]
  IN IF \E x \in f.members : x.name = n /\ x # member THEN Refused(f)
     ELSE AddImport([f EXCEPT !.members = @ \cup {member}], call, Core, FALSE)

-----------------------------------------------------------------------------
(* What the author may ask.                                                *)

Ask(verb, n, m, x) == [verb |-> verb, name |-> n, from |-> m, with |-> x]

Asks ==
  {Ask(v, n, m, 0) : v \in {"import", "sorted", "default", "namespace", "type", "remove",
                            "reexport", "unexport", "entry", "element"},
                     n \in Names, m \in Modules}
  \cup {Ask(v, Absent, m, x) : v \in {"star", "unstar"}, m \in Modules, x \in Names \cup {Absent}}
  \cup {Ask("effect", Absent, m, 0) : m \in Modules}
  \cup {Ask("declare", n, Core, x) : n \in Names, x \in {0, 1}}
  \cup {Ask("route", n, Core, p) : n \in Names, p \in {1, Wildcard}}
  \cup {Ask("member", n, Core, x) : n \in Names, x \in Names}
  \cup {Ask("sort", Absent, Core, 0)}

Apply(f, a) ==
  CASE a.verb = "import" -> AddImport(f, a.name, a.from, FALSE)
    [] a.verb = "sorted" -> AddImport(f, a.name, a.from, TRUE)
    [] a.verb = "default" -> AddDefault(f, a.name, a.from)
    [] a.verb = "namespace" -> AddNamespace(f, a.name, a.from)
    [] a.verb = "type" -> AddType(f, a.name, a.from)
    [] a.verb = "effect" -> AddSideEffect(f, a.from)
    [] a.verb = "remove" -> RemoveImport(f, a.name, a.from)
    [] a.verb = "declare" -> Declare(f, a.name, a.with = 1)
    [] a.verb = "reexport" -> AddReExport(f, a.name, a.from)
    [] a.verb = "unexport" -> RemoveReExport(f, a.name, a.from)
    [] a.verb = "star" -> AddExportAll(f, a.from, a.with)
    [] a.verb = "unstar" -> RemoveExportAll(f, a.from, a.with)
    [] a.verb = "entry" -> AddEntry(f, a.name, a.from)
    [] a.verb = "element" -> AddElement(f, a.name, a.from)
    [] a.verb = "route" -> AddRoute(f, a.with, a.name, a.from)
    [] a.verb = "member" -> AddMember(f, a.name, a.with)
    [] a.verb = "sort" -> SortImports(f)

(* An exported declaration is not asked for under a name that is already   *)
(* re-exported: the code does not look, and the file would export it twice.*)
Sensible(f, a) == ~(a.verb = "declare" /\ a.with = 1 /\ a.name \in ExportedNames(f))

Init == file \in Start /\ edits = 0

(* A refused operation poisons the handle: there is no edit after it.      *)
Edit(a) ==
  /\ edits < MaxEdits /\ Sensible(file, a)
  /\ \E r \in {Apply(file, a)} : r.ok /\ file' = r.file
  /\ edits' = edits + 1

Next == \E a \in Asks : Edit(a)
Editing == Init /\ [][Next]_<<file, edits>>

-----------------------------------------------------------------------------
(* Properties.                                                             *)

(* What a file means: which name stands for what of which module, what it  *)
(* exports, what it declares, lists, routes and has as members.            *)
Imported(d) ==
  {[local |-> d.def, from |-> d.from, what |-> <<"default">>, value |-> ~d.type] : n \in {d.def} \ {Absent}}
  \cup {[local |-> d.ns, from |-> d.from, what |-> <<"all">>, value |-> ~d.type] : n \in {d.ns} \ {Absent}}
  \cup {[local |-> Visible(s), from |-> d.from, what |-> <<"name", s.name>>,
         value |-> ~d.type /\ ~s.type] : s \in ToSet(d.named)}

Reexported(e) ==
  {[visible |-> Visible(s), from |-> e.from, what |-> <<"name", s.name>>] : s \in ToSet(e.named)}
  \cup {[visible |-> e.ns, from |-> e.from, what |-> <<"all">>] : n \in {TRUE} \cap {e.star}}

Bindings(f) == UNION {Imported(d) : d \in ToSet(f.imports)}
Reexports(f) == UNION {Reexported(e) : e \in ToSet(f.exports)}
Meaning(f) ==
  [imports |-> Bindings(f), exports |-> Reexports(f), locals |-> f.locals,
   effects |-> {f.imports[i].from : i \in {j \in DOMAIN f.imports : Bare(f.imports[j])}},
   list |-> f.list.names, routes |-> ToSet(f.routes), members |-> f.members]

(* A file the compiler takes: no two bindings of one name, no names        *)
(* without braces, no declaration with a namespace and braces, or with a   *)
(* type-only default and more, no two values and no two exports of one     *)
(* name.                                                                   *)
Distinct(named) == \A k, l \in DOMAIN named : Visible(named[k]) = Visible(named[l]) => k = l
Allowed(d) ==
  /\ Distinct(d.named) /\ (~d.braces => d.named = <<>>) /\ ~(d.ns # Absent /\ d.braces)
  /\ d.type => ~(d.def # Absent /\ (d.braces \/ d.ns # Absent))

BoundOnce(decls) ==
  \A i, j \in DOMAIN decls : \A b \in Imported(decls[i]), c \in Imported(decls[j]) :
     b.local = c.local => i = j /\ b = c
ExportedOnce(decls) ==
  \A i, j \in DOMAIN decls : \A x \in Reexported(decls[i]), y \in Reexported(decls[j]) :
     x.visible = y.visible /\ x.visible # Absent => i = j /\ x = y

Compilable(f) ==
  /\ BoundOnce(f.imports) /\ \A d \in ToSet(f.imports) : Allowed(d)
  /\ ExportedOnce(f.exports) /\ \A e \in ToSet(f.exports) : Distinct(e.named)
  /\ \A v, w \in f.locals : v.value /\ w.value /\ v.name = w.name => v = w
  /\ \A b \in Bindings(f), v \in f.locals : v.value => b.local # v.name
  /\ \A x \in Reexports(f), v \in f.locals : v.exported => x.visible # v.name

ASSUME ModuleAssumption ==
  /\ Names \subseteq Nat \ {0} /\ Modules \subseteq ModuleName /\ Core \in Modules /\ MaxEdits \in Nat
  /\ \A f \in Start : f \in File /\ Compilable(f)

(* However the operations are combined, the file stays one the compiler    *)
(* takes, with no name bound or exported twice.                            *)
NoNameTwice == Compilable(file)

Gives(new, a, what, value) ==
  \E b \in Bindings(new) : b.local = a.name /\ b.from = a.from /\ b.what \in what /\ (value => b.value)
NamedAs(f, a) == {b \in Bindings(f) : b.from = a.from /\ b.what = <<"name", a.name>>}

IsDone(a, new) ==
  LET named == <<"name", a.name>> IN
  CASE a.verb \in {"import", "sorted"} -> Gives(new, a, {named, <<"default">>, <<"all">>}, TRUE)
    [] a.verb = "default" -> Gives(new, a, {<<"default">>}, TRUE)
    [] a.verb = "namespace" -> Gives(new, a, {<<"all">>}, TRUE)
    [] a.verb = "type" -> Gives(new, a, {named}, FALSE)
    [] a.verb = "effect" -> \E d \in ToSet(new.imports) : Bare(d) /\ d.from = a.from
    [] a.verb = "remove" -> NamedAs(file, a) \cap NamedAs(new, a) # {} => \E b, c \in NamedAs(file, a) : b # c
    [] a.verb = "reexport" -> \E x \in Reexports(new) : x.from = a.from /\ x.what = named
    [] a.verb = "star" -> \E x \in Reexports(new) : x.from = a.from /\ x.visible = a.with
    [] a.verb \in {"entry", "element"} ->
         a.name \in new.list.names /\ Gives(new, a, {named, <<"default">>, <<"all">>}, TRUE)
    [] a.verb = "route" ->
         \E i \in DOMAIN new.routes :
            /\ new.routes[i] = [path |-> a.with, to |-> a.name]
            /\ a.with # Wildcard /\ new.routes[i] \notin ToSet(file.routes)
                 => \A j \in 1..i : new.routes[j].path # Wildcard
    [] OTHER -> TRUE

(* An operation that is not refused has done what it says, whatever the    *)
(* file was; a name imported under two aliases loses one of them.          *)
AskedIsDone == \A a \in Asks : \E r \in {Apply(file, a)} : r.ok => IsDone(a, r.file)

Froms(f) == [i \in DOMAIN f.imports |-> f.imports[i].from]

Gains(old, new) ==
  \A k \in DOMAIN old : old[k] \subseteq new[k] /\ \A x, y \in new[k] \ old[k] : x = y
LosesOnly(a, old, new) ==
  /\ \A k \in DOMAIN old \ {"imports", "exports"} : new[k] = old[k]
  /\ new.imports \subseteq old.imports /\ new.exports \subseteq old.exports
  /\ \A b \in old.imports \ new.imports :
        a.verb = "remove" /\ b.from = a.from /\ b.what = <<"name", a.name>>
  /\ \A x \in old.exports \ new.exports : a.verb # "remove" /\ x.from = a.from

(* A name under two aliases is removed one by one, and so is a module      *)
(* exported from twice; a declaration asked for again is refused.          *)
AtOnce(f, a) ==
  /\ a.verb \notin {"declare", "remove", "unexport"}
  /\ a.verb = "unstar" => \A i, j \in DOMAIN f.exports :
       {f.exports[i], f.exports[j]} \subseteq {e \in Of(f.exports, a.from) : e.star /\ e.ns = a.with} => i = j

OnlyAsked(a, old, from, r, new, from2) ==
  /\ AtOnce(file, a) => Apply(r.file, a) = r
  /\ IF a.verb \in {"remove", "unexport", "unstar"} THEN LosesOnly(a, old, new) ELSE Gains(old, new)
  /\ a.verb \notin {"sort", "remove"} => from2 = from \/ \E i \in DOMAIN from2 : RemoveAt(from2, i) = from
  /\ a.verb = "sort" => \A i \in {j \in DOMAIN from : Bare(file.imports[j])} :
       /\ r.file.imports[i] = file.imports[i]
       /\ {from2[j] : j \in 1..i} = {from[j] : j \in 1..i}

(* It has done nothing else: every other meaning the file had, it keeps,   *)
(* and it gains no other; imports stay in order, and sorting them moves    *)
(* none across a side-effect import.  A refused operation has changed      *)
(* nothing, but for those of angular that fail after their own edit; and   *)
(* doing it again changes nothing, where it is done at once.               *)
NothingElseChanges ==
  \E old \in {Meaning(file)}, from \in {Froms(file)} : \A a \in Asks : \E r \in {Apply(file, a)} :
    r.file # file =>
      /\ r.ok \/ a.verb \in {"element", "route", "member"}
      /\ r.ok => OnlyAsked(a, old, from, r, Meaning(r.file), Froms(r.file))
==============================================================================
