---------------------------- MODULE MCDocuments ----------------------------
EXTENDS ModuleEdits

CONSTANTS
  Pages,   \* the JSON texts an author may start from
  Trees    \* the values of JSON and YAML files
VARIABLES
  page,    \* the JSON text under edit, or <<>>
  tree     \* the value under edit, in a sequence, or <<>>

J == INSTANCE JsonLayout
V == INSTANCE ValueTrees

React == <<0, 1>>
Near == <<1, 2, 1>>
Far == <<1, 2, 2>>

Empty == [prologue |-> FALSE, imports |-> <<>>, locals |-> {}, exports |-> <<>>,
          list |-> [usable |-> TRUE, names |-> {}], routes |-> <<>>, members |-> {}]

Spec1(n) == {Plain(n)} \cup {[name |-> n, as |-> k, type |-> FALSE] : k \in {1, 2}}
            \cup {[name |-> n, as |-> Absent, type |-> TRUE]}

Clauses ==
  {<<Absent, Absent, NoBraces>>, <<1, Absent, NoBraces>>, <<Absent, 1, NoBraces>>, <<1, 2, NoBraces>>,
   <<Absent, Absent, <<>>>>, <<2, Absent, <<Plain(1)>>>>}
  \cup {<<Absent, Absent, <<s>>>> : s \in Spec1(1)}
  \cup {<<Absent, Absent, <<Plain(2), [name |-> 2, as |-> 1, type |-> FALSE]>>>>}

Decls ==
  {Decl(m, FALSE, c[1], c[2], c[3]) : m \in {React, Near}, c \in Clauses}
  \cup {Decl(m, TRUE, c[1], c[2], c[3]) : m \in {React, Near},
            c \in {<<1, Absent, NoBraces>>, <<Absent, Absent, <<Plain(1)>>>>}}

MCStart ==
  LET files == {[Empty EXCEPT !.imports = s] : s \in {<<>>} \cup {<<d>> : d \in Decls}
                                                    \cup {p \in Decls \X Decls : p[1].from = React}}
      locals == {{}, {[name |-> 1, value |-> FALSE, exported |-> FALSE]},
                 {[name |-> 2, value |-> TRUE, exported |-> TRUE]}}
  IN {f \in files : BoundOnce(f.imports)}
     \cup {[Empty EXCEPT !.locals = l, !.exports = e] : l \in locals,
             e \in {<<ExportDecl(React, Absent, <<[name |-> 2, as |-> 1, type |-> FALSE]>>)>>,
                    <<ExportDecl(Near, Absent, NoBraces), ExportDecl(Near, 1, NoBraces),
                     ExportDecl(Near, Absent, NoBraces)>>}}
     \cup {[Empty EXCEPT !.imports = <<Decl(Far, FALSE, Absent, Absent, <<Plain(2)>>),
                                       Decl(React, FALSE, Absent, Absent, NoBraces),
                                       Decl(Near, FALSE, Absent, Absent, <<Plain(1)>>)>>]}
     \cup {[f EXCEPT !.prologue = TRUE] : f \in {g \in files : BoundOnce(g.imports) /\ Len(g.imports) < 2}}
     \cup {[Empty EXCEPT !.list.usable = FALSE],
           [Empty EXCEPT !.routes = <<[path |-> 2, to |-> 2], [path |-> Wildcard, to |-> 1]>>],
           [Empty EXCEPT !.members = {[name |-> 1, call |-> 2]}]}

MCModules == {React, Near}
MCNames == {1, 2}

(* Texts of up to three members: comments and lines before, between and    *)
(* behind them, separators at the end of a line or at its start.           *)
nl == J!Newline
line == J!LineComment(0)
inner == J!BlockComment(0)
long == <<J!BlockOpen(0), nl, J!BlockClose>>

(* Comments are told apart by where they begin.                            *)
Numbered(ts) ==
  [i \in DOMAIN ts |-> IF ts[i].t \in {"line", "block", "block-open"} THEN [ts[i] EXCEPT !.v = i] ELSE ts[i]]

Heads == {<<>>, <<nl>>, <<line, nl>>, <<inner>>, <<nl, line, nl>>, <<nl>> \o long \o <<nl>>}
Seps == {<<J!Comma>>, <<J!Comma, nl>>, <<J!Comma, line, nl>>, <<inner, J!Comma, nl>>, <<line, nl, J!Comma>>,
         <<J!Comma, nl, line, nl>>, <<J!Comma, nl>> \o long \o <<nl>>}
Tails == {<<>>, <<nl>>, <<J!Comma>>, <<J!Comma, nl>>, <<line, nl>>, <<J!Comma, inner, nl>>, <<nl, line, nl>>,
          <<inner, J!Comma>>, <<line, nl, J!Comma, nl>>}

Array(head, body, tail) == Numbered(<<J!Open>> \o head \o body \o tail \o <<J!Close>>)
Two(x, sep, y) == <<J!Item(x)>> \o sep \o <<J!Item(y)>>

MCPages ==
  {Array(h, <<>>, t) : h \in Heads, t \in {<<>>, <<line, nl>>}}
  \cup {Array(h, <<J!Item(2)>>, t) : h \in Heads, t \in Tails}
  \cup {Array(h, Two(x, s, 2), t) : h \in Heads, s \in Seps, t \in Tails, x \in {2, 3}}
  \cup {Array(<<nl>>, Two(3, r, 1) \o s \o <<J!Item(2)>>, t) :
           r \in Seps, s \in Seps, t \in {<<nl>>, <<J!Comma, inner, nl>>}}

(* A comment that begins on the line of a member and ends on the next.     *)
MCWildPages == {Array(<<nl>>, Two(1, <<J!Comma>> \o long \o <<nl>>, 2), t) : t \in Tails}

NoStart == {}

(* Values, with lists shorter and longer than the indices asked for, and   *)
(* with anchors before, around and inside of what is edited.               *)
One == V!Scalar(1)
Two_ == V!Scalar(2)
Leaves == {One, V!Seq_(<<One>>), V!Map(<<2>>, <<One>>), V!Map(<<2, 1>>, <<Two_, V!Map(<<1>>, <<One>>)>>)}

Plains ==
  {V!Nothing, One, V!Map(<<>>, <<>>), V!Seq_(<<One, Two_>>), V!Map(<<1, 3, 2>>, <<One, One, Two_>>)}
  \cup {V!Map(<<k>>, <<v>>) : k \in {1, 2}, v \in Leaves \cup {V!Seq_(<<One, Two_>>), V!Seq_(<<>>)}}
  \cup {V!Map(<<2, 1>>, <<v, w>>) : v \in Leaves, w \in Leaves \cup {V!Seq_(<<One, Two_, One>>)}}

A1(node) == V!Anchored(node, 1)
A2(node) == V!Anchored(node, 2)
Anchoreds ==
  {V!Map(<<1, k>>, <<v, w>>) : k \in {2, 3},
     v \in {A1(One), V!Seq_(<<A1(One), V!Alias(1)>>), A1(V!Seq_(<<A2(One), V!Alias(2)>>)), A1(V!Map(<<2>>, <<One>>)),
            V!Map(<<2>>, <<A1(Two_)>>)},
     w \in {V!Alias(1), V!Seq_(<<V!Alias(1), One>>), V!Map(<<1>>, <<V!Alias(1)>>)}}

MCTrees == Plains \cup Anchoreds
NoTrees == {}

K == V!Key(1)
L == V!Key(2)
MCPaths == {<<>>, <<K>>, <<L>>, <<K, L>>, <<L, K>>, <<K, V!Index(1)>>, <<K, V!Index(3)>>,
            <<K, V!Index(3), K>>, <<V!Index(1)>>}
N == INSTANCE Namesakes WITH Paths <- MCPaths, Values <- Leaves, Names <- {1, 2},
       Positions <- {V!Anywhere, V!Before(1), V!After(2)}

DocInit ==
  \/ Init /\ page = <<>> /\ tree = <<>>
  \/ /\ file = Empty /\ edits = MaxEdits
     /\ \/ page \in Pages /\ tree = <<>>
        \/ page = <<>> /\ tree \in {<<t>> : t \in Trees}
Spec == DocInit /\ [][Next /\ UNCHANGED <<page, tree>>]_<<file, edits, page, tree>>

-----------------------------------------------------------------------------
(* Every operation of the JSON dialect on a list of members yields a text  *)
(* that parses, holds exactly the values it should in order, and has a     *)
(* separator behind the last member only if there was one; and a comment   *)
(* on a member's own line or on the lines above it stays with that member, *)
(* and goes with it, when members are removed, inserted or sorted.         *)
JsonEditsAreExact == page # <<>> => J!Exact(page) /\ J!CommentsStay(page)

(* Says ops.ts:185: in a container whose members each end their own line,  *)
(* edits move or drop a member with the comments above it and behind it;   *)
(* so what is left still parses.                                           *)
CommentsAreNeverSplit == page # <<>> => \A o \in J!Outcomes(page) : J!Valid(o.to)

(* Says yaml-dialect/spec.md:68: the operations of the YAML dialect behave *)
(* exactly as their JSON namesakes.  They do, but for a path past the end  *)
(* of a list, for removals in an empty file, and for a value that is moved *)
(* to its own place.                                                       *)
NamesakesAgree == tree # <<>> /\ Head(tree) \in Plains => N!NamesakesAgree(Head(tree))

(* A JSON operation that refuses has not touched the text.                 *)
RefusalsChangeNothing == tree # <<>> /\ Head(tree) \in Plains => N!RefusalsChangeNothing(Head(tree))

(* Every alias of a YAML document comes after its anchor, so that the text *)
(* can be parsed again, after every operation that is accepted but merge;  *)
(* and naming or removing an anchor changes no data.                       *)
AliasesStayResolved ==
  tree # <<>> => N!AliasesStayResolved(Head(tree)) /\ N!AnchorsKeepTheData(Head(tree))
=============================================================================
