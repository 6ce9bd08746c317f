---------------------------- MODULE JsonLayout ----------------------------
(***************************************************************************)
(* How the operations of the JSON dialect edit the text of one array or    *)
(* object (src/dialects/json/ops.ts): where a member's line begins and     *)
(* ends, which separator goes with it, and which comments.  The code finds *)
(* lines by looking for the next newline in the text, comment or not.      *)
(*                                                                         *)
(* A text is a sequence of tokens, from bracket to bracket; blanks are     *)
(* left out.  A member is one token, whatever its value.  A block comment  *)
(* that spans lines is an opening, a newline and a closing.                *)
(***************************************************************************)
EXTENDS Naturals, Sequences, SequencesExt

Tok(t, v) == [t |-> t, v |-> v]
Open == Tok("open", 0)
Close == Tok("close", 0)
Comma == Tok("comma", 0)
Newline == Tok("newline", 0)
Item(v) == Tok("item", v)
LineComment(id) == Tok("line", id)
BlockComment(id) == Tok("block", id)
BlockOpen(id) == Tok("block-open", id)
BlockClose == Tok("block-close", 0)

-----------------------------------------------------------------------------
(* Reading a text.                                                         *)

(* What a token is read as, after the ones before it.                      *)
Read(mode, token) ==
  CASE mode = "code" /\ token.t = "line" -> "line"
    [] mode = "code" /\ token.t = "block-open" -> "block"
    [] mode = "code" /\ token.t = "block-close" -> "error"
    [] mode = "line" /\ token.t = "newline" -> "code"
    [] mode = "block" /\ token.t = "block-close" -> "code"
    [] OTHER -> mode

Mode(tokens) == FoldLeft(Read, "code", tokens)

(* The tokens outside comments, by position.                               *)
Code(text) ==
  LET step(acc, token) ==
        [mode |-> Read(acc.mode, token), at |-> acc.at + 1,
         code |-> IF acc.mode = "code" /\ token.t \in {"open", "close", "comma", "item"}
                  THEN Append(acc.code, acc.at) ELSE acc.code]
  IN FoldLeft(step, [mode |-> "code", at |-> 1, code |-> <<>>], text).code

(* A list of members with separators, perhaps one more at the end.         *)
Valid(text) ==
  LET code == Code(text)
      kind(i) == text[code[i]].t
      n == Len(code)
  IN /\ Mode(text) = "code"
     /\ n >= 2 /\ kind(1) = "open" /\ kind(n) = "close"
     /\ \A i \in 2..(n - 1) : kind(i) = IF i % 2 = 0 THEN "item" ELSE "comma"

Children(text) == SelectSeq(Code(text), LAMBDA p : text[p].t = "item")
Values(text) == [k \in DOMAIN Children(text) |-> text[Children(text)[k]].v]
Trailing(text) == text[Code(text)[Len(Code(text)) - 1]].t = "comma"

Cut(text, from, to) == SubSeq(text, 1, from - 1) \o SubSeq(text, to, Len(text))
Put(text, at, tokens) == SubSeq(text, 1, at - 1) \o tokens \o SubSeq(text, at, Len(text))

-----------------------------------------------------------------------------
(* Lines.                                                                  *)

None == 0

(* indexOf("\n", from), which does not care what the newline belongs to.   *)
NextNewline(text, from) ==
  SelectInSubSeq(text, from, Len(text), LAMBDA token : token = Newline)

(* The position after the first separator in text[from, to), or from.      *)
AfterComma(text, from, to) ==
  LET commas == {j \in from..(to - 1) : text[j] = Comma /\ Mode(SubSeq(text, from, j - 1)) = "code"}
  IN IF commas = {} THEN from ELSE Min(commas) + 1

MemberLine(text, c, k) ==
  LET end == NextNewline(text, c[k] + 1)
      after == AfterComma(text, c[k] + 1, end)
      before == NextNewline(text, IF k = 1 THEN 1 ELSE c[k - 1] + 1)
  IN [lead |-> before + 1, comma |-> IF after > c[k] + 1 THEN after - 1 ELSE None,
      tail |-> end, next |-> end + 1]

(* Whether every member ends a line of its own, separator included.        *)
HasLines(text) ==
  LET c == Children(text)
      n == Len(c)
  IN /\ n > 0
     /\ NextNewline(text, 1) \in 1..(c[1] - 1)
     /\ \A k \in 1..n :
           /\ NextNewline(text, c[k] + 1) # None
           /\ NextNewline(text, c[k] + 1) < IF k < n THEN c[k + 1] ELSE Len(text)
           /\ k < n => MemberLine(text, c, k).comma # None

-----------------------------------------------------------------------------
(* Removing and inserting a member.                                        *)

(* A slip: the separator before the last member is left behind.            *)
RemoveLeavesComma(text, k) ==
  LET c == Children(text)
      n == Len(c)
  IN IF n = 1 THEN <<Open, Close>>
     ELSE IF HasLines(text) THEN Cut(text, MemberLine(text, c, k).lead, MemberLine(text, c, k).next)
     ELSE IF k < n THEN Cut(text, c[k], c[k + 1])
     ELSE Cut(text, c[n], c[n] + 1)

(* removeAt: a member goes with its lines, or else with the text up to its *)
(* neighbour; the last of several takes the separator before it along.     *)
RemoveMember(text, k) ==
  LET c == Children(text)
      n == Len(c)
      line == MemberLine(text, c, k)
      rest == Cut(text, line.lead, line.next)
      orphan == MemberLine(text, c, k - 1).comma
  IN IF n = 1 THEN <<Open, Close>>
     ELSE IF HasLines(text)
     THEN IF k = n /\ line.comma = None THEN Cut(rest, orphan, orphan + 1) ELSE rest
     ELSE IF k < n THEN Cut(text, c[k], c[k + 1])
     ELSE Cut(text, c[n - 1] + 1, c[n] + 1)

(* insertLine, for an item or for a key and its value.                     *)
InsertLine(text, k, v) ==
  LET c == Children(text)
      n == Len(c)
      line == MemberLine(text, c, IF k <= n THEN k ELSE n)
      comma == IF line.comma = None THEN <<>> ELSE <<Comma>>
      added == Put(text, line.next, <<Item(v)>> \o comma \o <<Newline>>)
  IN IF k <= n THEN Put(text, line.lead, <<Item(v), Comma, Newline>>)
     ELSE IF line.comma = None THEN Put(added, c[n] + 1, <<Comma>>)
     ELSE added

(* insertAt: a line of its own among lines; otherwise next to a neighbour, *)
(* on a new line if the neighbour begins one.                              *)
InsertMember(text, k, v) ==
  LET c == Children(text)
      n == Len(c)
      anchor == c[IF k <= n THEN k ELSE n]
      begins == text[anchor - 1] = Newline
      gap == IF begins THEN <<Newline>> ELSE <<>>
  IN IF n = 0 THEN <<Open, Item(v), Close>>
     ELSE IF HasLines(text) THEN InsertLine(text, k, v)
     ELSE IF k <= n THEN Put(text, anchor, <<Item(v), Comma>> \o gap)
     ELSE Put(text, anchor + 1, <<Comma>> \o gap \o <<Item(v)>>)

MoveMember(text, i, j) ==
  IF i = j THEN text ELSE InsertMember(RemoveMember(text, i), j, Values(text)[i])

(* removeValue: the matches, from the last to the first.                   *)
RemoveMatches(text, v) ==
  LET matches == SelectSeq([k \in DOMAIN Values(text) |-> k], LAMBDA k : Values(text)[k] = v)
  IN FoldRight(LAMBDA k, t : RemoveMember(t, k), matches, text)

-----------------------------------------------------------------------------
(* Sorting the keys of an object.                                          *)

Order(text) ==
  SetToSortSeq(DOMAIN Values(text), LAMBDA i, j : Values(text)[i] < Values(text)[j])

(* With lines, each member keeps the comments above it and behind it, and  *)
(* the separators are placed anew.                                         *)
SortLines(text) ==
  LET c == Children(text)
      n == Len(c)
      line(k) == MemberLine(text, c, k)
      behind(k) == SelectSeq(SubSeq(text, c[k] + 1, line(k).tail - 1), LAMBDA token : token # Comma)
      member(position) ==
        LET k == Order(text)[position]
        IN SubSeq(text, line(k).lead, c[k])
             \o (IF position < n \/ line(n).comma # None THEN <<Comma>> ELSE <<>>)
             \o behind(k) \o <<Newline>>
  IN SubSeq(text, 1, line(1).lead - 1)
       \o FlattenSeq([p \in 1..n |-> member(p)])
       \o SubSeq(text, line(n).next, Len(text))

(* Without, each keeps the text between the separator before it and        *)
(* itself, and the separators stay.                                        *)
SortInPlace(text) ==
  LET c == Children(text)
      n == Len(c)
      start(k) == IF k = 1 THEN 2 ELSE AfterComma(text, c[k - 1] + 1, c[k])
      separator(p) == IF p = 1 THEN <<>> ELSE SubSeq(text, c[p - 1] + 1, start(p) - 1)
      member(p) == separator(p) \o SubSeq(text, start(Order(text)[p]), c[Order(text)[p]])
  IN <<Open>> \o FlattenSeq([p \in 1..n |-> member(p)]) \o SubSeq(text, c[n] + 1, Len(text))

SortMembers(text) ==
  IF Values(text) = <<>> THEN text
  ELSE IF HasLines(text) THEN SortLines(text) ELSE SortInPlace(text)

-----------------------------------------------------------------------------
(* Properties of the operations on one text.                               *)

(* What each operation makes of a text, and what it should make of the     *)
(* values in it.                                                           *)
Outcomes(text) ==
  LET n == Len(Values(text))
      vs == Values(text)
      moved(i, j) == InsertAt(RemoveAt(vs, i), j, vs[i])
  IN {[to |-> RemoveMember(text, k), want |-> RemoveAt(vs, k)] : k \in 1..n}
     \cup {[to |-> InsertMember(text, k, v), want |-> InsertAt(vs, k, v)] :
             k \in 1..(n + 1), v \in {1, 4}}
     \cup {[to |-> MoveMember(text, i, j), want |-> moved(i, j)] : i, j \in 1..n}
     \cup {[to |-> RemoveMatches(text, v), want |-> SelectSeq(vs, LAMBDA w : w # v)] : v \in 1..3}
     \cup (IF IsInjective(vs) THEN {[to |-> SortMembers(text), want |-> SortSeq(vs, <)]} ELSE {})

(* The result of an operation is valid and holds the values it should, in  *)
(* order; a separator behind the last member stays, and none appears.      *)
Exact(text) ==
  \A o \in Outcomes(text) :
     /\ Valid(o.to) /\ Values(o.to) = o.want
     /\ Values(text) # <<>> /\ o.want # <<>> => (Trailing(o.to) <=> Trailing(text))

(* Which comment belongs to which member: those on the lines above it and  *)
(* on its own.                                                             *)
Owned(text) ==
  LET c == Children(text)
      comments == {i \in DOMAIN text : text[i].t \in {"line", "block", "block-open"}}
      owned(k) == {i \in comments : MemberLine(text, c, k).lead <= i
                                     /\ i < MemberLine(text, c, k).next}
  IN UNION {{<<text[i].v, text[c[k]].v>> : i \in owned(k)} : k \in DOMAIN c}

(* Where every member has its own line, its comments stay with it: a       *)
(* removal takes its own and no other, an insertion and a sort none.       *)
CommentsStay(text) ==
  HasLines(text) /\ IsInjective(Values(text)) =>
     LET n == Len(Values(text))
         after(t) == IF HasLines(t) THEN Owned(t) ELSE {}
     IN /\ \A k \in 1..n :
             n > 1 => after(RemoveMember(text, k)) = {p \in Owned(text) : p[2] # Values(text)[k]}
        /\ \A k \in 1..(n + 1) : after(InsertMember(text, k, 4)) = Owned(text)
        /\ after(SortMembers(text)) = Owned(text)

==============================================================================
