---------------------------- MODULE JsonLocator ----------------------------
(***************************************************************************)
(* Where a schema.json that does not parse goes wrong: the scanner that    *)
(* points at the fault (src/core/schema/schema-locate.ts), and the grammar *)
(* of JSON, read one character at a time, to compare it with.              *)
(*                                                                         *)
(* A text is a sequence of characters; a digit from 1 to 9 is "1", true,   *)
(* false and null are one character "true", "nl" is the control character  *)
(* that a string must not hold as it is, and "x" stands for any other that *)
(* no rule names.  The hex digits behind "\u" are left out: a wrong one is *)
(* a wrong escape like another.                                            *)
(***************************************************************************)
EXTENDS Naturals, Sequences, SequencesExt

Chars == {"{", "}", "[", "]", ":", ",", "quote", "esc", " ", "nl", "1", "0", "-", ".", "e", "+", "true", "x"}
Blank == {" ", "nl"}
Digit == {"0", "1"}

-----------------------------------------------------------------------------
(* The scanner.  A result is the position behind what was read, or that of *)
(* the fault; positions count from 1.                                      *)

Ok(next) == [ok |-> TRUE, at |-> next]
Fail(at) == [ok |-> FALSE, at |-> at]

(* The character at i, or none at the end.                                 *)
Char(text, i) == IF i \in DOMAIN text THEN text[i] ELSE "end"

(* The first position from i on that holds none of a set of characters.    *)
Past(chars, text, i) == Min({j \in i..(Len(text) + 1) : Char(text, j) \notin chars} \cup {Len(text) + 1})
SkipWhitespace(text, i) == Past(Blank, text, i)

RECURSIVE ScanString(_, _)
ScanString(text, i) ==
  LET c == Char(text, i + 1) IN
  IF i + 1 > Len(text) THEN Fail(i + 1)
  ELSE IF c = "quote" THEN Ok(i + 2)
  ELSE ScanString(text, IF c = "esc" THEN i + 2 ELSE i + 1)

ScanNumber(text, i) ==
  LET sign == IF Char(text, i) = "-" THEN i + 1 ELSE i
      int == IF Char(text, sign) = "0" THEN sign + 1 ELSE Past(Digit, text, sign)
      dot == IF Char(text, int) = "." THEN int + 1 ELSE int
      frac == IF dot > int THEN Past(Digit, text, dot) ELSE int
      e == IF Char(text, frac) = "e" THEN frac + 1 ELSE frac
      exp == IF e > frac /\ Char(text, e) \in {"+", "-"} THEN e + 1 ELSE e
  IN IF Char(text, sign) \notin Digit THEN Fail(sign)
     ELSE IF dot > int /\ Char(text, dot) \notin Digit THEN Fail(dot)
     ELSE IF e > frac /\ Char(text, exp) \notin Digit THEN Fail(exp)
     ELSE Ok(IF e > frac THEN Past(Digit, text, exp) ELSE frac)

(* What follows a member or an item: the end of the list, or another one,  *)
(* which must not be the end.                                              *)
ScanRest(text, i, close, Next(_)) ==
  LET pos == SkipWhitespace(text, i)
      after == SkipWhitespace(text, pos + 1)
  IN IF Char(text, pos) = close THEN Ok(pos + 1)
     ELSE IF Char(text, pos) # "," THEN Fail(pos)
     ELSE IF Char(text, after) \in {"end", close} THEN Fail(after)
     ELSE Next(after)

RECURSIVE ScanValue(_, _), ScanMembers(_, _), ScanItems(_, _)

ScanMembers(text, pos) ==
  LET key == ScanString(text, pos)
      colon == SkipWhitespace(text, key.at)
      value == ScanValue(text, colon + 1)
  IN IF Char(text, pos) # "quote" THEN Fail(pos)
     ELSE IF ~key.ok THEN key
     ELSE IF Char(text, colon) # ":" THEN Fail(colon)
     ELSE IF ~value.ok THEN value
     ELSE ScanRest(text, value.at, "}", LAMBDA p : ScanMembers(text, p))

ScanItems(text, pos) ==
  LET value == ScanValue(text, pos)
  IN IF ~value.ok THEN value
     ELSE ScanRest(text, value.at, "]", LAMBDA p : ScanItems(text, p))

ScanObject(text, i) ==
  LET pos == SkipWhitespace(text, i + 1)
  IN IF Char(text, pos) = "}" THEN Ok(pos + 1) ELSE ScanMembers(text, pos)

ScanArray(text, i) ==
  LET pos == SkipWhitespace(text, i + 1)
  IN IF Char(text, pos) = "]" THEN Ok(pos + 1) ELSE ScanItems(text, pos)

ScanValue(text, from) ==
  LET i == SkipWhitespace(text, from)
      c == Char(text, i)
  IN CASE c = "{" -> ScanObject(text, i)
       [] c = "[" -> ScanArray(text, i)
       [] c = "quote" -> ScanString(text, i)
       [] c \in Digit \cup {"-"} -> ScanNumber(text, i)
       [] c = "true" -> Ok(i + 1)
       [] OTHER -> Fail(i)

LineColumn(text, at) ==
  LET newlines == {j \in 1..(at - 1) : Char(text, j) = "nl"}
  IN <<1 + Cardinality(newlines), at - Max(newlines \cup {0})>>

Unknown == <<>>

(* locateFirstJsonSyntaxError                                              *)
Locate(text) ==
  LET value == ScanValue(text, 1)
      trailing == SkipWhitespace(text, value.at)
  IN IF ~value.ok THEN LineColumn(text, value.at)
     ELSE IF trailing <= Len(text) THEN LineColumn(text, trailing)
     ELSE Unknown

-----------------------------------------------------------------------------
(* The grammar, as the states of a machine with a stack of open brackets.  *)
(* A string is a key or a value; an error is final.                        *)

State(mode, stack) == [mode |-> mode, stack |-> stack]

Completes == {"zero", "int", "frac", "exp", "after"}   \* a value may end here

Opened(s, c) == State(IF c = "{" THEN "first-key" ELSE "first-item", Append(s.stack, c))

(* A character that ends what came before it: white space, or punctuation. *)
Between(s, c) ==
  LET open == IF s.stack = <<>> THEN "none" ELSE Last(s.stack)
  IN CASE c \in Blank -> State("after", s.stack)
       [] c = "," /\ open = "{" -> State("key", s.stack)
       [] c = "," /\ open = "[" -> State("value", s.stack)
       [] c = "}" /\ open = "{" -> State("after", Front(s.stack))
       [] c = "]" /\ open = "[" -> State("after", Front(s.stack))
       [] OTHER -> State("error", <<>>)

Begin(s, c) ==
  CASE c \in {"{", "["} -> Opened(s, c)
    [] c = "quote" -> State("string", s.stack)
    [] c = "-" -> State("minus", s.stack)
    [] c = "0" -> State("zero", s.stack)
    [] c = "1" -> State("int", s.stack)
    [] c = "true" -> State("after", s.stack)
    [] OTHER -> State("error", <<>>)

(* Where a number may go on.                                               *)
Digits ==
  [minus |-> [c \in {"0", "1"} |-> IF c = "0" THEN "zero" ELSE "int"],
   zero |-> [c \in {".", "e"} |-> IF c = "." THEN "point" ELSE "e"],
   int |-> [c \in {"0", "1", ".", "e"} |-> IF c = "." THEN "point" ELSE IF c = "e" THEN "e" ELSE "int"],
   point |-> [c \in {"0", "1"} |-> "frac"],
   frac |-> [c \in {"0", "1", "e"} |-> IF c = "e" THEN "e" ELSE "frac"],
   e |-> [c \in {"0", "1", "+", "-"} |-> IF c \in Digit THEN "exp" ELSE "sign"],
   sign |-> [c \in {"0", "1"} |-> "exp"],
   exp |-> [c \in {"0", "1"} |-> "exp"]]

Strings == [string |-> "after", name |-> "colon"]
Escapes == [string |-> "string-escape", name |-> "name-escape"]
Resumes == ("string-escape" :> "string") @@ ("name-escape" :> "name")

(* What may follow a backslash: true, false and null begin with one of the *)
(* letters of an escape.                                                   *)
Escaped == {"quote", "esc", "true"}

Step(s, c) ==
  LET to(mode) == State(mode, s.stack) IN
  CASE s.mode = "error" -> s
    [] s.mode \in DOMAIN Strings ->
         to(IF c = "quote" THEN Strings[s.mode] ELSE IF c = "esc" THEN Escapes[s.mode]
            ELSE IF c = "nl" THEN "error" ELSE s.mode)
    [] s.mode \in DOMAIN Resumes -> to(IF c \in Escaped THEN Resumes[s.mode] ELSE "error")
    [] s.mode \in DOMAIN Digits /\ c \in DOMAIN Digits[s.mode] -> to(Digits[s.mode][c])
    [] s.mode \in Completes -> Between(s, c)
    [] s.mode \in DOMAIN Digits -> to("error")
    [] c \in Blank -> s
    [] s.mode = "value" -> Begin(s, c)
    [] s.mode = "first-item" -> IF c = "]" THEN Between(s, c) ELSE Begin(s, c)
    [] s.mode = "first-key" /\ c = "}" -> Between(s, c)
    [] s.mode \in {"first-key", "key"} -> to(IF c = "quote" THEN "name" ELSE "error")
    [] s.mode = "colon" -> to(IF c = ":" THEN "value" ELSE "error")

After(text) == FoldLeft(Step, State("value", <<>>), text)
Complete(text) == After(text).mode \in Completes /\ After(text).stack = <<>>

(* The first position at which no JSON text goes on, perhaps the end.      *)
Fault(text) ==
  LET bad == {i \in DOMAIN text : After(SubSeq(text, 1, i)).mode = "error"}
  IN IF bad = {} THEN Len(text) + 1 ELSE Min(bad)

(* The fault is one that the scanner, which reads strings for their end    *)
(* only, does not look for: a wrong escape, or a line break in a string.   *)
Overlooked(text) ==
  /\ Fault(text) <= Len(text)
  /\ After(SubSeq(text, 1, Fault(text) - 1)).mode \in DOMAIN Resumes \cup DOMAIN Strings

(* The text with each such fault before any other replaced by a character  *)
(* that is good in its place.                                              *)
RECURSIVE Mended(_)
Mended(text) ==
  IF ~Complete(text) /\ Overlooked(text) THEN Mended([text EXCEPT ![Fault(text)] = "true"]) ELSE text

(* The end of a text right behind a backslash is told one column too late. *)
Told(text) ==
  IF Fault(text) > Len(text) /\ After(text).mode \in DOMAIN Resumes THEN Fault(text) + 1 ELSE Fault(text)

FaultIsLocated(text) ==
  LET mended == Mended(text)
  IN Locate(text) = IF Complete(mended) THEN Unknown ELSE LineColumn(text, Told(mended))
=============================================================================
