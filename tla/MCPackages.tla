----------------------------- MODULE MCPackages -----------------------------
(* The scaffold call, and beside it what has no steps of its own: each      *)
(* state takes one subject, <<"scaffold">> or what a question is about.     *)
EXTENDS Scaffold, MCEdits, Questions

-----------------------------------------------------------------------------
(* Folders of up to four entries on two levels: a text or the same name     *)
(* marked as a template, and beside it a file, a link, or a folder or a     *)
(* link to one with one entry or with a name and its template.              *)
A == <<Name(1)>>
AT == <<Template(1)>>
D == <<Name(2)>>
DA == <<Name(2), Name(1)>>
DT == <<Name(2), Template(2)>>

Small == File(2, TRUE)
Big == File(5, TRUE)
Huge == File(8, TRUE)
Binary == File(2, FALSE)

Entries == {Small, Big, Huge, Binary, Folder, Odd} \cup {Link(to) : to \in {Folder, Small, Odd}}

Trees ==
  LET over(top, below) ==
        { t \in [top \cup below -> Entries] :
            /\ \A p \in top \ {D} : t[p] \in {Small, Big, Huge, Binary, Odd}
            /\ D \in top => t[D] \in (IF below = {} THEN {Small} \cup {Link(to) : to \in {Small, Odd}} ELSE {Folder, Link(Folder)})
            /\ \A p \in below : t[p] \in {Small, Big, Binary} }
  IN over({}, {}) \cup over({A}, {}) \cup over({A, AT}, {}) \cup over({A, D}, {}) \cup over({A, D}, {DA})
     \cup over({AT, D}, {DA, DT})

Renames ==
  { [p \in {} |-> p], [p \in {A} |-> <<Name(2), Name(Dot), Name(1)>>],
    [p \in {A} |-> <<Name(Up), Name(1)>>], [p \in {DT} |-> AT] }

MCCall ==
  [root: {"folder"}, to: {"inside"}, tree: Trees, rename: Renames,
   keep: {{A, AT, DA, DT, D}, {A, DT}}]
  \cup [root: {"link", "missing"}, to: {"inside", "escapes"}, tree: {[p \in {A} |-> Small]},
        rename: {[p \in {} |-> p]}, keep: {{A}}]

MCSeeds ==
  LET seed(n) == [source |-> <<>>, dest |-> <<>>, size |-> n]
  IN {<<>>, <<seed(1)>>, <<seed(3), seed(1)>>}

-----------------------------------------------------------------------------
(* Every text of up to three characters, and every text one edit away from  *)
(* one of four valid ones and one with two faults within a string.          *)
Locator == INSTANCE JsonLocator

q == "quote"
Documents ==
  { <<"{", q, "x", q, ":", "[", "1", ",", "{", "}", "]", ",", q, q, ":", "true", "}">>,
    <<"[", "-", "0", ".", "1", "e", "+", "0", "nl", ",", q, "esc", q, q, "]", "nl">>,
    <<" ", "{", "nl", q, "x", q, " ", ":", "nl", "1", "0", "nl", "}">>,
    <<"[", "[", "]", ",", "{", q, q, ":", q, q, "}", " ", "]">>,
    <<"{", q, "esc", "x", q, ":", q, "nl", "esc", "esc", q, "}">> }

Edited(d) ==
  {SubSeq(d, 1, n) : n \in 0..Len(d)} \cup {RemoveAt(d, i) : i \in DOMAIN d}
  \cup {InsertAt(d, i, c) : i \in 1..(Len(d) + 1), c \in Locator!Chars}
  \cup {[d EXCEPT ![i] = c] : i \in DOMAIN d, c \in Locator!Chars}

Texts == UNION {[1..n -> Locator!Chars] : n \in 0..3} \cup UNION {Edited(d) : d \in Documents}

-----------------------------------------------------------------------------
(* A schema with up to two properties, and inputs with up to two fields.    *)
MCReserved == {"pre-execute"}
MCForbidden == {"constructor"}

A1 == Schema!Value("string", 1)
A2 == Schema!Value("string", 2)
N1 == Schema!Value("number", 1)

Properties ==
  {Schema!NoProperty}
  \cup {Schema!Property(t, TRUE, Schema!NoChoices, r) :
          t \in {"string", "number", "enum", "none", "odd"}, r \in {"yes", "no", "none"}}
  \cup {Schema!Property("enum", l, c, r) : l \in BOOLEAN, c \in {<<A1>>, <<A1, N1>>}, r \in {"no", "none"}}
  \cup {Schema!Property("boolean", FALSE, Schema!NoChoices, "none")}

Directories ==
  [scan: {"listed"}, entries: {{}}, file: {"ok"},
   properties: UNION {[ks -> Properties] : ks \in {{}, {"name"}, {"pre-execute"}, {"constructor"}}}
               \cup [{"name", "other"} -> {Schema!Property("string", TRUE, Schema!NoChoices, r) : r \in {"no", "none"}}]]
  \cup [scan: {"listed", "missing", "unreadable"}, file: {"absent", "unreadable", "malformed", "ok"},
        entries: {{}, {[name |-> "pre-execute", extension |-> "ts"]}, {[name |-> "pre-execute", extension |-> "md"]}},
        properties: {[k \in {"name"} |-> Schema!Property("string", TRUE, Schema!NoChoices, "yes")]}]

Inputs ==
  UNION {[ks -> {A1, A2, N1, Schema!Value("boolean", 1), Schema!Undefined}] :
           ks \in {{}, {"name"}, {"pre-execute"}, {"constructor"}, {"name", "other"}}}

-----------------------------------------------------------------------------
(* Batches of up to three directives, and whatever a host may answer.       *)
Directives ==
  [op: {"create", "delete", "rename"}, path: {1, 2}, from: {0}] \cup [op: {"copy", "copyIn"}, path: {1}, from: {2}]
Batches == UNION {[1..n -> Directives] : n \in 1..3}
Answers == [code: Emit!Codes \cup {"other"}, index: {Emit!None, Emit!Odd} \cup 0..3, applied: {Emit!None, 0, 2}]

-----------------------------------------------------------------------------
(* Dialects of two extensions, packs of up to two operations, and routers.  *)
MCBaseVerbs == {"read", "then"}
MCRetired == {"raw"}

T == <<".", "t">>
LongT == <<".", "a", ".", "t">>
H == <<".", "h">>

Packs == UNION {[ops -> {"x", "y"}] : ops \in {{}, {"one"}, {"two"}, {"one", "two"}, {"read"}, {"raw"}, {"three"}}}
Dialects == {Ops!Dialect({T, LongT}, ops) : ops \in {p \in Packs : DOMAIN p \cap {"read", "raw"} = {}}}
Router(ks) == [k \in ks |-> Ops!Dialect({k}, [one |-> k])]
Routers == {Router(ks) : ks \in SUBSET {T, LongT, H}} \cup {T :> Ops!Dialect({H}, [one |-> H])}
Bases == UNION {[1..n -> {"a", "t", "h", "."}] : n \in 2..5}

-----------------------------------------------------------------------------
(* A project of a few packages, linked, ambiguous or incomplete.            *)
Codegen == INSTANCE ProjectCodegen

P == <<"p">>
Out == <<"out">>
In(name) == Append(P, name)
Leaf(dir, name) == Append(dir, name)

Schemas == {Codegen!File("sufficient"), Codegen!File("insufficient"), Codegen!Broken, Codegen!Folder}
Outputs == {Codegen!File("old"), Codegen!Folder, Codegen!Link(Leaf(Out, "x"))}
Targets == {In("a"), Out, Leaf(Out, "gone")}

Inline(name) == [inline |-> TRUE, path |-> <<name>>]
Direct(name) == [inline |-> FALSE, path |-> <<name>>]
Collections ==
  {[kind |-> "odd"]} \cup [kind: {"manifest"}, path: {<<"m">>, <<"none">>}]
  \cup {[kind |-> "direct", schematics |-> s] :
          s \in {<<Direct("a")>>, <<Direct("b"), Inline("i")>>, <<Direct("a"), Direct("b"), Direct("two")>>}}

Optional(path, nodes) == {[k \in {path} |-> n] : n \in nodes} \cup {<<>>}

FileSystems ==
  {P :> Codegen!Folder @@ Out :> Codegen!Folder @@ <<"lp">> :> Codegen!Link(P)
     @@ In("package.json") :> Codegen!File("any")
     @@ In("project-builder.json") :> config
     @@ In("m") :> manifest
     @@ In("a") :> Codegen!Folder @@ Leaf(In("a"), "factory.ts") :> Codegen!File("any")
     @@ In("b") :> Codegen!Link(target)
     @@ In("two") :> Codegen!Folder @@ Leaf(In("two"), "factory.ts") :> Codegen!File("any")
     @@ Leaf(In("two"), "factory.js") :> second
     @@ Leaf(Out, "factory.ts") :> Codegen!File("any") @@ Leaf(Out, "schema.json") :> Codegen!File("sufficient")
     @@ schema @@ output :
       config \in {Codegen!Broken} \cup {Codegen!File(c) : c \in UNION {[1..n -> Collections] : n \in 0..2}},
       manifest \in {Codegen!Broken,
                     Codegen!File(<<Codegen!Failure, Leaf(In("a"), "factory.ts"), Leaf(In("b"), "factory.ts")>>)},
       target \in Targets, second \in {Codegen!File("any"), Codegen!Folder},
       schema \in Optional(Leaf(In("a"), "schema.json"), Schemas),
       output \in Optional(Leaf(In("a"), "schema.generated.ts"), Outputs)}

-----------------------------------------------------------------------------
(* Command lines of up to six arguments, and worlds for one of them.        *)
Gates == INSTANCE RunnerGates

Pointer == <<"file:f", "#", "run">>
Arguments ==
  {Gates!FactoryFlag, Gates!InputFlag.inline, Gates!InputFlag.file, <<"--force">>, Pointer, <<"1">>}
CommandLines == UNION {[1..n -> Arguments] : n \in 0..6}

Error(class, errors) == [class |-> class, errors |-> errors]
Thrown == {Error(c, <<>>) : c \in {"Error", "SyntaxError", "ERR_MODULE_NOT_FOUND"}}
NotLoaded == {Error(c, <<>>) : c \in {"SyntaxError", "BuildMessage", "ResolveMessage"}}
Aggregates(errors) == {Error("AggregateError", <<Error("Error", <<>>), e>>) : e \in errors}
NoExports == [k \in {} |-> "none"]

Modules ==
  [rejects: {TRUE}, ran: {TRUE}, err: Thrown \cup Aggregates(Thrown), exports: {NoExports}]
  \cup [rejects: {TRUE}, ran: {FALSE}, err: NotLoaded \cup {Error("AggregateError", <<e>>) : e \in NotLoaded},
        exports: {NoExports}]
  \cup [rejects: {FALSE}, ran: {TRUE}, err: {Error("none", <<>>)},
        exports: {NoExports} \cup [{<<"run">>} -> [kind: {"function", "wrapped", "other"}, fn: {1}]]]

(* The SDK at "s", linked from "l", another copy below "p", and factories   *)
(* in "p" and in the SDK itself.                                            *)
Packages ==
  [d \in {<<"s">>, <<"s", "t">>, <<"p">>, <<"p", "s">>} |-> Codegen!Folder]
  @@ [f \in {<<"s", "package.json">>, <<"p", "s", "package.json">>, <<"s", "r">>, <<"s", "t", "f">>, <<"p", "f">>,
            <<"p", "s", "i">>} |-> Codegen!File("any")]
  @@ <<"l">> :> Codegen!Link(<<"s">>)

World(at, module, regular, size, readable, text, resolved, fs) ==
  [urls |-> (<<"file:f">> :> [scheme |-> "file:", host |-> Gates!Undefined, path |-> at])
            @@ (<<"https:f">> :> [scheme |-> "https:", host |-> <<"h">>, path |-> at])
            @@ (<<"file:h">> :> [scheme |-> "file:", host |-> <<"h">>, path |-> at]),
   names |-> {<<>>, <<"run">>, <<"a", "#", "b">>, <<"#">>},
   modules |-> <<"file:f">> :> module,
   files |-> <<"1">> :> [regular |-> regular, size |-> size, readable |-> readable, text |-> text],
   values |-> <<"1">> :> 1, inputCap |-> 2,
   runner |-> <<"s", "r">>, resolved |-> resolved, fs |-> fs]

Worlds ==
  {World(at, module, regular, size, readable, text, resolved, fs) :
     at \in {<<"p", "f">>, <<"s", "t", "f">>}, module \in Modules, regular \in BOOLEAN, size \in {2, 3},
     readable \in BOOLEAN, text \in {<<"1">>, <<"x">>},
     resolved \in {Codegen!Missing, <<"s", "r">>, <<"l", "r">>, <<"p", "s", "i">>},
     fs \in {Packages, <<"p", "package.json">> :> Codegen!File("any") @@ Packages}}
AWorld == CHOOSE w \in Worlds : Gates!Importable(Gates!ToArgv([factory |-> Pointer, kind |-> "file", text |-> <<"1">>]), w)

Params ==
  [factory: {Pointer, <<"https:f">>, <<"file:h">>}, kind: {"inline", "file"}, text: {<<"1">>, <<"--input">>, <<"--factory">>}]

-----------------------------------------------------------------------------
(* A build of a few files: the entry 1, the runner 2, the probe 3, and 4.   *)
Specifier(form, to) == [form |-> form, to |-> to]
JsFile(imports, exports, dynamic) ==
  [at |-> "file", readable |-> TRUE, imports |-> imports, exports |-> exports, dynamic |-> dynamic, admitted |-> TRUE]
Relative(to) == Specifier("relative", to)
OddSpecifiers == {Specifier(f, 9) : f \in {"node", "bare-builtin", "bare", "url"}}
OneOf(specifiers) == {<<>>} \cup {<<s>> : s \in specifiers}

Fourth ==
  {JsFile(i, e, 0) : i \in OneOf(OddSpecifiers), e \in OneOf({Relative(2), Relative(3)})}
  \cup {JsFile(<<>>, <<>>, 1), [JsFile(<<>>, <<>>, 0) EXCEPT !.readable = FALSE],
        [JsFile(<<>>, <<>>, 0) EXCEPT !.admitted = FALSE], [at |-> "folder"], [at |-> "outside"]}

Builds ==
  {(1 :> JsFile(<<Relative(first)>>, <<>>, 0)) @@ (2 :> JsFile(i, e, d)) @@ (3 :> JsFile(<<>>, back, 0)) @@ fourth :
     first \in {2, 4}, i \in OneOf({Relative(3), Relative(5)}), e \in OneOf({Relative(3), Relative(4)}), d \in 0..2,
     back \in OneOf({Relative(1), Relative(4)}), fourth \in {4 :> f : f \in Fourth} \cup {<<>>}}
Disks == [manifest: {Build!None, <<1, 99>>}, temp: {Build!None, Build!Partial}, code: {0}]

-----------------------------------------------------------------------------
(* Chains of up to two verbs on a file, heaps of up to three objects, and   *)
(* two copies of the SDK in a process.                                      *)
Calls ==
  [verb: {"replaceContent"}, content: {"new"}] \cup [verb: {"remove"}]
  \cup [verb: {"rename"}, to: {<<"b">>, <<".", "b">>, <<"..", "b">>, <<"a">>}, force: {Author!Undefined, "true"}]
  \cup [verb: {"move"}, to: {<<".">>, <<"d">>, <<"d", "">>, <<"..", "d">>}, force: {Author!Undefined, "false"}]
  \cup [verb: {"copy"}, to: {<<"b">>, <<"d", "a">>}, force: {Author!Undefined, "false", "true"}]
Chains == UNION {[1..n -> Calls] : n \in 0..2}
Starts == {<<"a">>, <<".", "a">>, <<"d", "a">>, <<"d", "", "a">>, <<"b">>}
Files == {<<"a">> :> "1" @@ <<"d", "a">> :> "2", <<".", "a">> :> "1" @@ <<"d", "", "a">> :> "2" @@ <<"b">> :> "3"}

Held == {<<"text">>, <<"nan">>, <<"undefined">>, <<"bigint">>, <<"ref", 2>>, <<"ref", 3>>}
ObjectOf(class, holds) == [class |-> class, holds |-> holds]
Heaps ==
  {<<ObjectOf("object", bag), second, third>> :
     bag \in {<<v>> : v \in Held} \cup {<<<<"ref", 2>>, <<"ref", 3>>>>, <<<<"ref", 1>>>>},
     second \in {ObjectOf(c, h) : c \in {"array", "object", "map"}, h \in UNION {[1..n -> Held] : n \in 0..2}},
     third \in {ObjectOf(c, h) : c \in {"array", "map"}, h \in UNION {[1..n -> Held] : n \in 0..1}}}

-----------------------------------------------------------------------------
(* Sources with up to two names, short patterns, and short file names.      *)
Source == INSTANCE PackageSources

Sources ==
  {Source!Undefined, Source!NotAString} \cup Source!Degenerate
  \cup {Source!Path(b, n) : b \in BOOLEAN, n \in {<<"a">>, <<"..", "a">>, <<"a", "..">>}}
VerbArguments ==
  [from: Sources, to: {Source!Undefined, Source!NotAString, Source!Path(FALSE, <<"a">>), Source!Path(FALSE, <<"..">>)},
   include: {"undefined", "text"}, exclude: {"undefined", "array of strings"}, marked: BOOLEAN]
Folders ==
  [lstat: {"ENOENT", "ENOTDIR", "EACCES", "link", "file"}, readdir: {"ok"}]
  \cup [lstat: {"folder"}, readdir: {"ok", "ENOENT", "EACCES"}]
SourceFiles ==
  [stat: {"ENOENT", "ENOTDIR", "ENAMETOOLONG", "ELOOP", "ERR_INVALID_ARG_VALUE", "EACCES", "no code",
          "directory", "fifo"}, large: {FALSE}, readable: {TRUE}, text: {TRUE}, fits: {TRUE}]
  \cup [stat: {"file"}, large: BOOLEAN, readable: BOOLEAN, text: BOOLEAN, fits: BOOLEAN]
Runs == [inSession: BOOLEAN, anchored: BOOLEAN]
Plainly == [from |-> Source!Path(FALSE, <<"a">>), to |-> Source!Path(FALSE, <<"b">>),
            include |-> "undefined", exclude |-> "undefined", marked |-> FALSE]
AFile == CHOOSE f \in SourceFiles : ~Source!Fails(Source!ClassifyTransport(f, TRUE))
AFolder == CHOOSE f \in Folders : ~Source!Fails(Source!RootFailure(f))

Strings(chars, n) == UNION {[1..k -> chars] : k \in 0..n}
Patterns == Strings({"a", "*", "/"}, 5)
WellFormed(p) == <<>> \notin ToSet(Source!Split(p))
Relatives == {p \in Strings({"a", "b", "/"}, 4) : WellFormed(p)} \cup {<<"a", "/", "b", "/", "a">>}
Tokened == Strings({"_", "a", "1", "@"}, 6)

-----------------------------------------------------------------------------
PackagesInit ==
  \/ Init /\ subject = <<"scaffold">>
  \/ /\ call = [root |-> "missing", to |-> "inside", tree |-> <<>>, rename |-> <<>>, keep |-> {}]
     /\ pending = <<>> /\ counted = SeededFrom(<<>>) /\ phase = "aside"
     /\ gone = {} /\ stack = <<>> /\ names = <<>> /\ count = 0
     /\ entries = <<>> /\ results = <<>> /\ batches = <<>>
     /\ \/ \E t \in Texts : subject = <<"text", t>>
        \/ \E d \in Directories, i \in Inputs : subject = <<"package", d, i>>
        \/ \E b \in Batches, a \in Answers : subject = <<"emit", b, a>>
        \/ \E d \in Dialects, p, r \in Packs : subject = <<"ops", d, p, r, Router({T}), T>>
        \/ \E r \in Routers, b \in Bases :
              subject = <<"ops", Ops!Dialect({T}, [one |-> "x"]), <<>>, <<>>, r, b>>
        \/ \E fs \in FileSystems, at \in {<<P, Codegen!Missing>>, <<In("a"), Codegen!Missing>>,
                                        <<Out, Codegen!Missing>>, <<Out, <<"lp">>>>} :
              subject = <<"project", fs, at[1], at[2]>>
        \/ \E line \in CommandLines :
              subject = <<"gates", line, [factory |-> Pointer, kind |-> "file", text |-> <<"1">>], AWorld>>
        \/ \E tree \in Builds, d \in Disks, p \in {"versioned", "missing"}, f \in {"none", "write", "rename"} :
              subject = <<"build", tree, d, p, f>>
        \/ \E f \in Files, p \in Starts, c \in Chains : subject = <<"verbs", f, p, c>>
        \/ \E h \in Heaps : subject = <<"options", h>>
        \/ \E s \in {Author!Absent, Author!Foreign, Author!Storage(0)}, r \in [1..3 -> 1..2] :
              subject = <<"realms", s, r>>
        \/ \E r \in Runs, a \in VerbArguments : subject = <<"source", r, a, AFolder, AFile>>
        \/ \E m \in BOOLEAN, d \in Folders, f \in SourceFiles :
              subject = <<"source", [inSession |-> TRUE, anchored |-> TRUE], [Plainly EXCEPT !.marked = m], d, f>>
        \/ \E p \in Relatives, i \in Patterns : subject = <<"filter", p, {i}, {}>>
        \/ \E p \in Relatives, i, e \in Strings({"a", "*"}, 2) \cup {<<"*", "*", "/", "a">>} :
              subject = <<"filter", p, {i, <<"a", "/", "*">>}, {e}>>
        \/ \E t \in Tokened : subject = <<"name", t>>
        \/ \E s \in Called, l \in Locators :
              subject = <<"literal", s, l, [statements |-> 1, elements |-> <<Literal!Name("x")>>]>>
        \/ \E s \in Roots, l \in RootLocators, w \in Written : subject = <<"literal", s, l, w>>
        \/ \E c \in Classes, p, p2 \in Added : subject = <<"class", <<c>>, p, p2>>
        \/ \E c, d \in [name: {"C", "D"}, members: {<<>>}], p \in Added : subject = <<"class", <<c, d>>, p, p>>
        \/ \E f \in JsxFiles, t \in JsxTargets, op \in JsxCalls : subject = <<"jsx", f, t, op>>
        \/ \E f \in Hooked, s, s2 \in Statements : subject = <<"component", f, s, s2, "p">>
        \/ \E f \in Propped, n \in {"p", "default"} :
              subject = <<"component", f, Said(<<"use", "a">>), Said(<<"use", "a">>), n>>
        \/ \E f \in Stylesheets, t \in CssTargets, p \in {"color", "--c"} :
              subject = <<"css", f, t, p, <<"red">>, [before |-> Css!NoName, after |-> Css!NoName, important |-> FALSE]>>
        \/ \E f \in {<<n>> : n \in CssNodes}, t \in CssTargets, p \in {"color", "--C"}, v \in {<<"red">>, <<" ", "blue", " ">>}, o \in CssOptions :
              subject = <<"css", f, t, p, v, o>>
        \/ \E f \in {<<n>> : n \in CssNodes}, t \in CssTargets, p \in {"color", "1"}, v \in CssValues, i \in BOOLEAN :
              subject = <<"css", f, t, p, v, [before |-> Css!NoName, after |-> Css!NoName, important |-> i]>>
        \/ \E d \in YamlDocuments, p \in YamlPaths, w \in {"before", "inline"} : subject = <<"comment", d, p, w>>
        \/ \E r \in Commenting \cup {Remarked(Yaml!ShownSeq(<<c>>, FALSE), "t") : c \in Commenting} : subject = <<"remarks", r>>
        \/ \E d \in YamlDocuments, p \in YamlPaths, n \in 1..2 : subject = <<"merge", d, p, n>>
        \/ \E d \in YamlDocuments, p \in YamlPaths, s \in {"block", "flow", "double", "literal", "folded"}, t \in Tags :
              subject = <<"style", d, p, s, t>>
        \/ \E b \in SomeBodies, t \in SUBSET (1..3), e \in Splices : subject = <<"stream", b, t, e>>
        \/ \E e \in Spelled : subject = <<"tokens", e>>
        \/ \E f \in MemberFiles, a \in NgAsks : subject = <<"member", f, a>>
        \/ \E f \in ElementFiles, o \in ElementOps, e \in NgElements, l \in ImportLists : subject = <<"element", f, o, e, l>>
        \/ \E f \in PairFiles, o \in ElementOps, e \in NgElements, n \in {"m", "n"} :
              subject = <<"element", f, o, e, Ng!Of("list", <<Imported("x", n)>>)>>
        \/ \E f \in RouteFiles, r \in RouteSpecs : subject = <<"route", f, r>>
        \/ \E d \in TriedDialects, s \in PackSeeds, c \in PackChains :
              \E e \in ExercisesOf(d, s, c) : subject = <<"pack", d, <<e>>>>
        \/ \E d \in TriedDialects, s \in {<<>>, <<"a">>}, c, c2 \in ShortChains :
              \E e \in ExercisesOf(d, s, c), e2 \in ExercisesOf(d, <<"a", "lf">>, c2) : subject = <<"pack", d, <<e, e2>>>>
        \/ \E f \in SuiteFixtures : subject = <<"dialect", f>>
        \/ \E ds \in UNION {[1..n -> Vehicle!Directive] : n \in 1..2} : subject = <<"vehicle", ds>>
        \/ \E p \in Params, w \in Worlds : subject = <<"gates", Gates!ToArgv(p), p, w>>

PackagesSpec == PackagesInit /\ [][Next /\ UNCHANGED subject]_<<vars, subject>>

-----------------------------------------------------------------------------
(* Each package that can be generated is, once, by whatever names and links *)
(* the project knows it and whatever is wrong with the others; nothing is   *)
(* written outside the project or through a link; and the exit code tells   *)
(* whether a package is missing.                                            *)
ProjectIsAccountedFor == Of("project") => Codegen!ProjectIsAccountedFor(subject[2], subject[3], subject[4])

(* The runner treats its two ways in alike and takes parameters as they are *)
(* given; it loads a module only beside its own copy of the SDK, however    *)
(* that is linked, and says by its exit code whether code of the author     *)
(* has run.                                                                 *)
GatesAgree == Of("gates") => Gates!GatesAgree(subject[2], subject[3], subject[4])

(* What an author hands over is taken as he gives it or refused: sources    *)
(* are checked alike by every verb before a disk is touched, filtered       *)
(* folder by folder and with every token of a file name translated; and of  *)
(* a text that does not parse the SDK reports the first position at which   *)
(* no JSON text goes on, as if the escapes and line breaks in its strings   *)
(* were good: none, if nothing else is wrong.                               *)
InputsAreTakenAsGiven ==
  /\ Of("source") => Source!SourcesAreScreened(subject[2], subject[3], subject[4], subject[5])
  /\ Of("filter") => Source!FiltersMeanFolders(subject[2], subject[3], subject[4])
  /\ Of("name") => Source!TokensAreTranslated(subject[2])
  /\ Of("text") => Locator!FaultIsLocated(subject[2])

(* An author's edit of TypeScript, JSX, Angular, CSS or of what only YAML    *)
(* has makes what he asks for so, where he asks for it and once, and neither *)
(* hides nor moves anything else.  The operations that the conformance suite *)
(* admits keep the texts of its samples and do the same wherever they are    *)
(* read; and the transport it runs on reads as the fake does, but for a file *)
(* that is renamed within a folder or moved to the root.                     *)
SourceEditsAreExact ==
  /\ Of("pack") => Suite!AdmittedOpsAreSound(subject[2], subject[3])
  /\ Of("dialect") => Suite!AdmittedDialectIsSound(subject[2])
  /\ Of("vehicle") => Vehicle!VehicleReadsAlike(subject[2])
  /\ Of("literal") => Literal!ElementIsListed(subject[2], subject[3], subject[4],
                        [k \in {"k"} |-> Literal!Meaning(Supplied.k, <<>>)])
  /\ Of("tokens") => \A f \in Spelled : Literal!ElementsAreToldApart(subject[2], f)
  /\ Of("jsx") => Jsx!OneElementIsEdited(subject[2], subject[3], subject[4])
  /\ Of("component") => /\ Jsx!HooksLead(subject[2], "C", subject[3], subject[4])
                        /\ Jsx!PropIsTaken(subject[2], "C", subject[5], "T")
  /\ Of("css") => Css!OneDeclarationIsEdited(subject[2], subject[3], subject[4], subject[5], subject[6])
  /\ Of("comment") => Yaml!CommentsAreApart(subject[2], subject[3], subject[4], <<<<"x">>, <<>>>>,
                                              YamlPaths \X {"before", "inline"})
  /\ Of("remarks") => Yaml!CommentsHaveEntries(subject[2])
  /\ Of("merge") => Yaml!MergeAddsOnly(subject[2], subject[3], subject[4])
  /\ Of("style") => Yaml!StylesKeepValues(subject[2], subject[3], subject[4], subject[5])
  /\ Of("stream") => Yaml!DocumentsStayApart(subject[2], subject[3], subject[4])
  /\ Of("member") => Ng!MemberIsDeclared(subject[2], subject[3])
  /\ Of("element") => Ng!ElementIsProvided(subject[2], subject[3], subject[4], subject[5])
  /\ Of("route") => Ng!RouteIsTaken(subject[2], subject[3])
  /\ Of("class") => Literal!PropertyIsInitialised(subject[2], "C", subject[3], subject[4])
=============================================================================
