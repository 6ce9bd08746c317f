------------------------------- MODULE MCEdits -------------------------------
(* The sources and the calls on which the operations of LiteralEdits,      *)
(* JsxEdits, AngularEdits, CssEdits and YamlPresentation are tried, and     *)
(* what the conformance suite and its vehicle are tried on.                 *)
EXTENDS Naturals, Sequences, TLC

-----------------------------------------------------------------------------
(* Literals three levels deep, and classes of up to three members.          *)
Literal == INSTANCE LiteralEdits WITH Misspelt <- {"a-b"}, Words <- {"default"}, Denied <- {"constructor"}

Simple == {Literal!Name("x"), Literal!Str("v"), Literal!Array(<<>>), Literal!Array(<<Literal!Name("x")>>)}
MembersOf(keys, values) ==
  {Literal!Member("assignment", k, v) : k \in keys, v \in values}
  \cup {Literal!Member("method", "k", Literal!Nothing), Literal!Member("spread", "", Literal!Nothing)}
ObjectsOf(keys, values) == {Literal!Object(ms) : ms \in UNION {[1..n -> MembersOf(keys, values)] : n \in 0..2}}
Flat == ObjectsOf({"k", "a"}, Simple)
Elements == {Literal!Object(<<>>), Literal!Name("y"), Literal!Expr("spread", "y", <<>>)}
            \cup {Literal!Object(<<Literal!Member("assignment", "k", Literal!Str("v")), m>>) :
                    m \in MembersOf({"k", "a"}, Simple)}
Literals ==
  Simple \cup Flat \cup {Literal!Wrapped(e) : e \in Flat}
  \cup {Literal!Array(es) : es \in UNION {[1..n -> Elements] : n \in 1..2}}
  \cup {Literal!Object(<<Literal!Member("assignment", "k", e)>>) : e \in Flat}
  \cup {Literal!Object(<<Literal!Member("assignment", "a", Literal!Array(<<e, Literal!Wrapped(f)>>))>>) : e, f \in Elements}

(* Arrays with omitted parts, and calls, within one another.                *)
Bits ==
  {Literal!Name("x"), Literal!Omitted, Literal!Array(<<>>), Literal!Array(<<Literal!Omitted>>),
   Literal!Array(<<Literal!Name("x")>>), Literal!Expr("call", "x", <<Literal!Name("x")>>)}
Spelled ==
  UNION {{Literal!Array(es), Literal!Expr("call", "x", SelectSeq(es, LAMBDA e : e # Literal!Omitted))} :
           es \in UNION {[1..n -> Bits] : n \in 0..2}}

Segments == {Literal!Key("k"), Literal!Key("a"), Literal!Match("k", "v")}
Locators ==
  [root: {"call"}, name: {"f"}, argument: {1}, path: UNION {[1..n -> Segments] : n \in 0..2}
     \cup {<<Literal!Key("a"), Literal!Match("k", "v"), Literal!Key("k")>>, <<Literal!Key("default")>>}
     \cup {<<Literal!Key(k)>> : k \in {"a-b", "constructor"}}]
Owner(root, name, args) == [root |-> root, name |-> name, args |-> args, factory |-> TRUE]
Called == {<<Owner("call", "f", <<e>>)>> : e \in Literals}

Owners ==
  {Owner(r, "f", args) : r \in {"call", "variable", "decorator"},
                         args \in {<<>>, <<Literal!Name("y")>>, <<Literal!Array(<<>>)>>}}
  \cup {[Owner("decorator", "f", <<>>) EXCEPT !.factory = FALSE]}
Roots == UNION {[1..n -> Owners] : n \in 0..2}
RootLocators ==
  [root: {"call", "variable", "decorator"}, name: {"f", "default"}, argument: 1..3,
   path: {<<>>, <<Literal!Key("k")>>, <<Literal!Match("k", "v")>>}]
Written == {[statements |-> 1, elements |-> <<e>>] :
              e \in {Literal!Name("x"), Literal!Object(<<>>), Literal!Expr("spread", "x", <<>>)}}
           \cup {[statements |-> n, elements |-> <<Literal!Name("x"), Literal!Name("x")>>] : n \in 0..2}
Supplied == [k |-> Literal!Array(<<Literal!Name("hidden")>>)]

ClassMember(kind, name, value) == [kind |-> kind, name |-> name, value |-> [statements |-> 1, elements |-> <<value>>]]
ClassMembers == {ClassMember("property", "p", Literal!Name("x")), ClassMember("property", "q", Literal!Name("x")),
                 ClassMember("method", "p", Literal!Name("x")), ClassMember("method", "", Literal!Name("x"))}
Added == {ClassMember("property", n, v) :
            n \in {"p", "q", "default"}, v \in {Literal!Name("x"), Literal!Expr("spread", "x", <<>>)}}
Classes == [name: {"C"}, members: UNION {[1..n -> ClassMembers] : n \in 0..3}]

-----------------------------------------------------------------------------
(* Elements three levels deep, and files of up to two components.           *)
Jsx == INSTANCE JsxEdits WITH BadTags <- {"1a", "constructor"}, BadNames <- {"default", "a-b"}

Attr(name, value) == [name |-> name, value |-> value]
AttrLists == {<<>>, <<Attr("x", "1")>>, <<Attr("x", "2"), Attr("...", "true")>>, <<Attr("...", "true"), Attr("x", "")>>}
Leaves == {Jsx!Element(t, Jsx!SelfClosing, a, <<>>) : t \in {"A", "B"}, a \in AttrLists}
Around(t, children) == Jsx!Element(t, t, <<>>, children)
JsxTrees ==
  Leaves \cup {Around(t, cs) : t \in {"A", "{}", "W"}, cs \in UNION {[1..n -> Leaves] : n \in 0..2}}
  \cup {Around("B", <<Around("{}", <<e>>), f>>) : e, f \in Leaves}
JsxFiles == {Around("{}", <<e>>) : e \in JsxTrees} \cup {Around("{}", <<e, f>>) : e, f \in Leaves \cup {Around("A", <<>>)}}
Props == {<<>>} \cup {[k \in {"x"} |-> v] : v \in {"1", "2", "true"}}
JsxTargets == [tag: {"A", "W"}, props: Props] \cup [tag: {"1a"}, props: {<<>>}]
JsxCalls ==
  [verb: {"setJsxProp"}, name: {"x", "y"}, value: {"", "2"}, node: {<<>>}, parsed: {<<>>}]
  \cup [verb: {"removeJsxProp"}, name: {"x", "y"}, value: {""}, node: {<<>>}, parsed: {<<>>}]
  \cup [verb: {"addJsxChild", "wrapJsxElement"}, name: {""}, value: {""}, parsed: {<<1>>, <<1, 2>>},
        node: {Jsx!Element("A", Jsx!SelfClosing, <<>>, <<>>), Jsx!Element("B", Jsx!SelfClosing, <<Attr("x", "1")>>, <<>>),
               Jsx!Element("W", Jsx!SelfClosing, <<>>, <<>>), Around("B", <<>>)}]
  \cup [verb: {"renameJsxElement"}, name: {"A", "B", "1a"}, value: {""}, node: {<<>>}, parsed: {<<>>}]

Said(text) == [text |-> text, hook |-> text[1] = "use"]
Statements == {Said(t) : t \in {<<"use", "a">>, <<"use", "b">>, <<"do", "c">>, <<"do", "d">>}}
Bodies == {Jsx!ExpressionBody} \cup UNION {[1..n -> Statements] : n \in 0..3}
ParameterPatterns == {Jsx!NoPattern} \cup
  UNION {{p, Append(p, [prop |-> "...", local |-> "rest"])} :
           p \in UNION {[1..n -> {[prop |-> "p", local |-> "p"], [prop |-> "q", local |-> "p"], [prop |-> "p", local |-> "r"]}] : n \in 0..1}}
PropMembers == UNION {[1..n -> [name: {"p", "q"}, type: {"T", "U"}, method: BOOLEAN]] : n \in 0..2}
Parameters ==
  {Jsx!NoParameter} \cup [type: {"inline"}, members: PropMembers, pattern: ParameterPatterns]
  \cup [type: {"Props", "Imported"}, members: {<<>>}, pattern: ParameterPatterns]
Function(name, body, parameter) == [name |-> name, body |-> body, parameter |-> parameter]
Hooked == {[functions |-> <<Function("C", b, Jsx!NoParameter)>>, types |-> <<>>] : b \in Bodies}
Named == [type |-> "Props", members |-> <<>>, pattern |-> Jsx!NoPattern]
Typed(p, ms, n) ==
  [functions |-> <<Function("C", <<>>, p), Function(n, <<>>, Named)>>, types |-> [k \in {"Props"} |-> ms]]
Propped ==
  {Typed(p, <<>>, n) : p \in Parameters, n \in {"C", "D"}}
  \cup {Typed([Named EXCEPT !.pattern = p], ms, "D") : p \in ParameterPatterns, ms \in PropMembers}

-----------------------------------------------------------------------------
(* Stylesheets of up to two top-level nodes and three levels, neat or not;  *)
(* names in two spellings, a custom property among them, and texts with     *)
(* blanks around them or with what would end their node.                    *)
Css == INSTANCE CssEdits WITH
  Lower <- "Color" :> "color" @@ "Theme" :> "theme" @@ "--C" :> "--c", Custom <- {"--c", "--C"}, BadNames <- {"1", "@a"}

Line(depth) == Css!Before(1, 2 * depth)
Declared(prop, v, depth) == Css!Declaration(prop, v, FALSE, Line(depth))
DeclarationsAt(depth) ==
  {<<>>} \cup {<<Declared(p, <<"red">>, depth)>> : p \in {"Color", "--c", "--C"}}
  \cup {<<Declared(p, <<"red">>, depth), Declared("color", <<" ", "blue">>, depth)>> : p \in {"color", "--c"}}
Inner == {Css!Rule(<<"a">>, nodes, Line(1), Line(1)) : nodes \in DeclarationsAt(2)}
CssNodes ==
  {Css!Rule(<<"a">>, nodes, Css!Before(0, 0), Line(0)) : nodes \in DeclarationsAt(1)}
  \cup {Css!AtRule("Theme", ps, TRUE, nodes \o inner, Css!Before(0, 0), Line(0)) :
           ps \in {<<>>, <<"p">>}, nodes \in DeclarationsAt(1), inner \in {<<>>} \cup {<<r>> : r \in Inner}}
  \cup {Css!AtRule("theme", <<"p">>, FALSE, <<>>, Css!Before(0, 0), Line(0)), Declared("color", <<"red">>, 0)}
Second == {[n EXCEPT !.before = Css!Before(2, 0)] : n \in {m \in CssNodes : m.kind # "atrule" \/ (m.text = <<>> /\ Len(m.nodes) = 1)}}
Stylesheets == {<<>>} \cup {<<n>> : n \in CssNodes} \cup {<<n, m>> : n \in CssNodes, m \in Second}

CssTargets ==
  [selector: {Css!Absent, <<" ", "a">>, <<"b">>}, atRule: {Css!NoName, "theme"}, params: {Css!Absent, <<" ", "p">>}]
  \cup [selector: {<<"a", "{">>, <<" ">>}, atRule: {Css!NoName, "@a"}, params: {<<"p", "}">>, Css!Absent}]
CssValues == {<<"red">>, <<" ", "blue", " ">>, <<"red", ";">>, <<"red", "!important">>}
CssOptions ==
  [before: {Css!NoName, "color", "1"}, after: {Css!NoName, "--c"}, important: BOOLEAN]

-----------------------------------------------------------------------------
(* Documents up to three levels deep, with comments, anchors, sources that  *)
(* a map is merged with, and a key without a value.                         *)
Yaml == INSTANCE YamlPresentation WITH MergeKey <- 9, Handles <- "!e!" :> "tag:e,1:", BadSuffixes <- {" "}

ScalarOf(n) == Yaml!ShownScalar(n, {"double", "folded"}, {"double", "literal"})
MapOf(keys, kids) == Yaml!Shown("map", 0, keys, kids)
NamedMap(name, keys, kids) == [MapOf(keys, kids) EXCEPT !.anchor = name]
Commented(node) == [node EXCEPT !.before = <<<<" ", "c">>>>, !.comment = <<<<" ", "d">>>>]
FewKids ==
  {ScalarOf(1), Commented(ScalarOf(2)), Yaml!Valueless, MapOf(<<1>>, <<ScalarOf(1)>>), Yaml!ShownSeq(<<>>, TRUE)}
YamlKids ==
  FewKids
  \cup {Yaml!ShownSeq(<<a, b>>, f) :
          a, b \in {ScalarOf(1), Commented(ScalarOf(2)), MapOf(<<1>>, <<ScalarOf(2)>>)}, f \in BOOLEAN}
Merging == {MapOf(<<9, 2>>, <<Yaml!ShownAlias(1), ScalarOf(4)>>), MapOf(<<>>, <<>>),
            [MapOf(<<3>>, <<ScalarOf(3)>>) EXCEPT !.keyBefore = <<<<<<" ", "k">>>>>>],
            MapOf(<<2, 9>>, <<ScalarOf(4), Yaml!ShownSeq(<<Yaml!ShownAlias(1), MapOf(<<4>>, <<ScalarOf(5)>>)>>, TRUE)>>)}
YamlRoots ==
  {MapOf(<<1, 2>>, <<a, b>>) : a \in FewKids, b \in YamlKids}
  \cup {MapOf(<<1, 2>>, <<b, ScalarOf(1)>>) : b \in YamlKids}
  \cup {Commented(Yaml!ShownSeq(<<a>>, FALSE)) : a \in YamlKids}
  \cup {MapOf(<<1, 2, 3>>, <<NamedMap(1, <<1, 2>>, <<ScalarOf(1), ScalarOf(1)>>), m, NamedMap(2, <<1, 3, 4>>, <<ScalarOf(2), ScalarOf(2), b>>)>>) :
          m \in Merging, b \in {ScalarOf(2), MapOf(<<>>, <<>>)}}
  \cup {MapOf(<<1, 2, 3>>, <<NamedMap(1, <<1>>, <<ScalarOf(1)>>), NamedMap(2, <<1, 3>>, <<ScalarOf(2), ScalarOf(2)>>), m>>) : m \in Merging}
YamlDocuments == {Yaml!Document(b, Yaml!AttachLeadingComments(r)) : b \in {<<>>, <<<<" ", "h">>>>}, r \in YamlRoots}

(* Comments above collections, one within another.                          *)
Remarked(node, n) == [node EXCEPT !.before = <<<<" ", n>>>>]
Deep(f, n) ==
  {Remarked(ScalarOf(1), n)} \cup
  {Remarked(Yaml!ShownSeq(<<Remarked(ScalarOf(1), "s"), ScalarOf(2)>>, f), n), Remarked(Yaml!ShownSeq(<<>>, f), n),
   [MapOf(<<1, 2>>, <<Remarked(ScalarOf(1), "v"), ScalarOf(2)>>)
      EXCEPT !.before = <<<<" ", n>>>>, !.flow = f, !.keyBefore[1] = <<<<" ", "k">>>>]}
Commenting ==
  UNION {{Remarked(Yaml!ShownSeq(<<a, b>>, f), "r"), [MapOf(<<1, 2>>, <<a, b>>) EXCEPT !.before = <<<<" ", "r">>>>]} :
           a \in UNION {Deep(g, "a") : g \in BOOLEAN}, b \in Deep(FALSE, "b"), f \in BOOLEAN}

YamlPaths ==
  {<<>>, <<Yaml!Key(1)>>, <<Yaml!Key(2)>>, <<Yaml!Key(3)>>, <<Yaml!Index(1)>>, <<Yaml!Key(1), Yaml!Index(1)>>,
   <<Yaml!Key(1), Yaml!Key(1)>>, <<Yaml!Key(2), Yaml!Index(2)>>, <<Yaml!Key(2), Yaml!Index(2), Yaml!Key(1)>>,
   <<Yaml!Key(3), Yaml!Key(4)>>}
Tags == {Yaml!NullTag, Yaml!Tag("standard", "", "str"), Yaml!Tag("named", "!e!", "t"), Yaml!Tag("named", "!f!", "t"),
         Yaml!Tag("local", "", "t"), Yaml!Tag("local", "", " ")}
Bodies_ == {<<>>} \cup UNION {[1..n -> {Yaml!Mark, Yaml!Line, "a"}] : n \in 1..6}
SomeBodies == {b \in Bodies_ : \A i \in DOMAIN b : /\ b[i] = Yaml!Mark => i = 1 \/ b[i - 1] = Yaml!Line
                                                   /\ b[i] = Yaml!Mark => i = Len(b) \/ b[i + 1] = Yaml!Line
                                                   /\ b[i] = "a" /\ i < Len(b) => b[i + 1] = Yaml!Line}
Splices == [verb: {"add", "remove"}, at: 1..3] \cup {[verb |-> "none", at |-> 0]}

-----------------------------------------------------------------------------
(* Files of up to two classes or lists, and members and elements for them.  *)
Ng == INSTANCE AngularEdits WITH Misspelt <- {"a-b"}, Words <- {"default"}, Denied <- {"constructor"}, Angular <- "core",
                                  Rooted <- {"/a"}

NgFile(owners, classes, bound) == [owners |-> owners, classes |-> classes, bound |-> bound]
NgMembers == {Ng!Member_("p", "none", <<"input">>, <<>>, <<>>),
              [Ng!Member_("p", "none", <<"input">>, <<>>, <<>>) EXCEPT !.kind = "method"],
              Ng!Member_("q", "private", <<"inject">>, <<>>, <<Literal!Name("x")>>)}
NgClass(decorators, members) == [decorators |-> decorators, members |-> members]
DecoratorSets == {{}, {"Component"}, {"Pipe"}, {"Directive", "Other"}}
NgClasses ==
  {<<NgClass(d, ms)>> : d \in DecoratorSets, ms \in UNION {[1..n -> NgMembers] : n \in 0..1}}
  \cup {<<NgClass({"Component"}, <<m, n>>)>> : m, n \in NgMembers}
  \cup {<<NgClass(d, <<>>), NgClass(e, <<>>)>> : d, e \in DecoratorSets}
Bounds == {<<>>, "input" :> "core" @@ "x" :> "m", "signal" :> "other", "inject" :> "other" @@ "input" :> "other"}
MemberFiles == {NgFile(<<>>, cs, b) : cs \in NgClasses, b \in Bounds}

TypeText(n, d, whole) == Ng!Of("string", [statements |-> n, declarations |-> d, whole |-> whole, text |-> "T"])
OneElement(e) == [statements |-> 1, elements |-> <<e>>]
Initial(e) == Ng!Of("string", OneElement(e))
Imported(name, from) == [name |-> name, from |-> from]
ImportLists ==
  {Ng!Of("list", entries) :
     entries \in {<<>>, <<Imported("x", "m")>>, <<Imported("x", "n")>>, <<Imported("default", "m")>>, <<[name |-> "x"]>>,
                  <<Imported("y", "m"), Imported("y", "n")>>}} \cup {Ng!Of("string", <<>>)}
NgOptions ==
  {<<>>, "odd" :> Ng!Of("string", "x")}
  \cup {"type" :> t : t \in {TypeText(1, 1, TRUE), TypeText(2, 1, TRUE), TypeText(1, 1, FALSE),
                            [TypeText(1, 1, TRUE) EXCEPT !.type = "number"]}}
  \cup {"required" :> Ng!Of("boolean", b) @@ rest :
          b \in BOOLEAN, rest \in {<<>>, "initial" :> Initial(Literal!Name("v")), "type" :> TypeText(1, 1, TRUE)}}
  \cup {"initial" :> i : i \in {Initial(Literal!Object(<<>>)), Initial(Literal!Expr("spread", "x", <<>>)),
                               [Initial(Literal!Name("v")) EXCEPT !.type = "number"]}}
  \cup {"scope" :> Ng!Of("string", s) : s \in {"public", "odd"}} \cup {"imports" :> l : l \in ImportLists}
NgAsks ==
  {Ng!Ask(op, n, OneElement(Literal!Name("x")), o) :
     op \in {"input", "model", "output", "inject", "signal", "computed"}, n \in {"p", "q", "default"}, o \in NgOptions}
  \cup {Ng!Ask(op, "r", OneElement(e), o) :
          op \in {"inject", "signal", "computed"}, o \in NgOptions,
          e \in {Literal!Object(<<>>), Literal!Wrapped(Literal!Name("x")), Literal!Expr("omitted", "", <<>>)}}

Metadata ==
  {Literal!Object(<<>>), Literal!Name("y"), Literal!Object(<<Literal!Member("spread", "", Literal!Nothing)>>),
   Literal!Wrapped(Literal!Object(<<>>))}
  \cup {Literal!Object(<<Literal!Member("assignment", k, v)>>) :
          k \in {"imports", "providers"}, v \in {Literal!Array(<<>>), Literal!Array(<<Literal!Name("x")>>), Literal!Name("y")}}
NgOwner(root, name, type, args) == [root |-> root, name |-> name, type |-> type, args |-> args, factory |-> TRUE]
NgOwners ==
  {NgOwner("decorator", d, "none", args) : d \in {"Component", "NgModule"}, args \in {<<>>} \cup {<<e>> : e \in Metadata}}
  \cup {NgOwner("variable", n, t, <<e>>) : n \in {"c", "d"}, t \in {"none", "ApplicationConfig"}, e \in Metadata}
  \cup {NgOwner("call", "bootstrapApplication", "none", <<Literal!Name("App")>> \o rest) :
          rest \in {<<>>} \cup {<<e>> : e \in Metadata}}
  \cup {[NgOwner("decorator", "Component", "none", <<>>) EXCEPT !.factory = FALSE]}
ElementFiles ==
  {NgFile(os, <<>>, b) : os \in {<<>>} \cup {<<o>> : o \in NgOwners}, b \in Bounds}
PairFiles == {NgFile(<<o, p>>, <<>>, "x" :> "m") : o, p \in NgOwners}
ElementOps ==
  {[decorator |-> "Component", list |-> "imports"], [decorator |-> "Component", list |-> "providers"],
   [decorator |-> "NgModule", list |-> "exports"], [decorator |-> "none", list |-> "providers"]}
NgElements == {Ng!Of("string", OneElement(Literal!Name(n))) : n \in {"x", "default"}}
              \cup {Ng!Of("expression", OneElement(e)) : e \in {Literal!Object(<<>>), Literal!Expr("spread", "x", <<>>)}}

RouteAt(path, key) == Literal!Object(<<Literal!Member("assignment", "path", Literal!Str(path)),
                                       Literal!Member("assignment", key, Literal!Name("X"))>>)
RouteEntries == {RouteAt(p, "component") : p \in {"a", "b", "**"}} \cup {Literal!Name("y"), Literal!Wrapped(RouteAt("a", "children"))}
RouteLists ==
  {Literal!Array(rs) : rs \in UNION {[1..n -> RouteEntries] : n \in 0..3}}
  \cup {Literal!Name("c"), Literal!Wrapped(Literal!Array(<<RouteAt("**", "component")>>))}
RouteOwners ==
  {NgOwner("variable", n, t, args) : n \in {"c", "d"}, t \in {"none", "Routes"},
                                   args \in {<<>>, <<Literal!Array(<<>>)>>, <<Literal!Name("y")>>}}
  \cup {NgOwner("call", "RouterModule.forRoot", "none", args) :
          args \in {<<>>, <<Literal!Array(<<>>)>>, <<Literal!Name("c")>>}}
RouteFiles ==
  {NgFile(<<NgOwner("variable", "c", "Routes", <<l>>)>>, <<>>, b) : l \in RouteLists, b \in {<<>>, "X" :> "n"}}
  \cup {NgFile(os, <<>>, <<>>) : os \in UNION {[1..n -> RouteOwners] : n \in 0..2}}
Text(s) == Ng!Of("string", s)
RouteSpecs ==
  {"path" :> Text(p) @@ "component" :> Text(c) @@ "from" :> Text("m") : p \in {"a", "b", "**", "/a"}, c \in {"X", "default"}}
  \cup {"path" :> Text(p) @@ k :> Text("m") @@ rest :
          p \in {"a", "**"}, k \in {"loadComponent", "loadChildren"},
          rest \in {<<>>, "export" :> Text("X"), "export" :> Text("default"), "loadChildren" :> Text("n")}}
  \cup {"path" :> Text("a") @@ "component" :> Ng!Of("number", "X") @@ "from" :> Text("m"), "path" :> Text("a")}

-----------------------------------------------------------------------------
(* Dialects with a fault, chains of up to three operations, and directives  *)
(* in pairs.                                                                *)
Suite == INSTANCE Conformance WITH Large <- 3, Unprintable <- {"node"}

Faults ==
  {"drops the mark", "unifies line ends", "fills the empty", "ends the last line", "joins blank lines",
   "cuts what is large"}
Tried(parses, fault) == [parses |-> parses, fault |-> fault, extensions |-> {".a"}]
TriedDialects ==
  {Tried(p, "none") : p \in {"tree", "nothing", "text"}} \cup {Tried("tree", f) : f \in Faults}
  \cup {[Tried("tree", "none") EXCEPT !.extensions = {".a", Suite!Undeclared}]}

Op(does, word) == [does |-> does, word |-> word]
PackOps ==
  {Op("add", "b"), Op("add", "node")} \cup {Op(d, "") : d \in {"count", "undo", "nothing", "throw"}}
PackChains == UNION {[1..n -> PackOps] : n \in 1..3}
ShortChains == UNION {[1..n -> PackOps \ {Op("throw", ""), Op("add", "node")}] : n \in 1..2}
PackSeeds == {<<>>, <<"a">>, <<"a", "lf">>, <<"bom", "a", "crlf">>, <<"a", "lf", "lf">>}

ExercisesOf(dialect, seed, chain) ==
  LET asked == [seed |-> seed, chain |-> chain, expect |-> <<>>]
  IN {[asked EXCEPT !.expect = e] : e \in {Suite!TextAfter(dialect, asked, Len(chain)), Append(seed, "once"), <<"b", "b">>}}

ModulesOf(dialect) ==
  [dialect: {dialect}, callable: BOOLEAN, acceptsAny: BOOLEAN, library: SUBSET {1, 2}]

SuiteFixtures ==
  {[dialect |-> d, module |-> m, samples |-> t, expected |-> x, exercise |-> e] :
     d \in TriedDialects, m \in UNION {ModulesOf(Tried(p, "none")) : p \in {"tree", "text"}},
     t \in {<<>>, <<<<"a">>>>}, x \in SUBSET {1, 2},
     e \in UNION {ExercisesOf(Tried("tree", "none"), s, <<o>>) : s \in {<<>>, <<"a">>}, o \in PackOps}}

Vehicle == INSTANCE RunVehicle WITH Dirs <- {"root", "dir"}, Names <- {"x", "y"}, Contents <- {1, 2},
             Unrepresentable <- {}, None <- 0, Root <- "root",
             Seed <- [p \in {"root", "dir"} \X {"x", "y"} |-> IF p[2] = "x" THEN 2 ELSE 0]
=============================================================================
