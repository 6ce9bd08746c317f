----------------------------- MODULE Conformance -----------------------------
(***************************************************************************)
(* What the conformance suite admits (src/conformance/index.ts): a dialect *)
(* by the texts that it must print as they were, and a pack of operations  *)
(* by exercises that are run with and without a read between them.         *)
(*                                                                         *)
(* A text is a sequence of words, line ends "lf" and "crlf", and the mark  *)
(* "bom".  A dialect prints what it has parsed, but for its faults.        *)
(***************************************************************************)
EXTENDS Naturals, Sequences, FiniteSets
LOCAL INSTANCE SequencesExt

CONSTANTS
  Large,        \* how many blank lines the large sample ends in, more than one
  Unprintable   \* the words that do not survive a round trip through JSON

-----------------------------------------------------------------------------
(* Dialects.                                                               *)

Each(text, Word(_)) == FlattenSeq([i \in DOMAIN text |-> Word(text[i])])
LineEnds == {"lf", "crlf"}

Terminated(text) == IF text # <<>> /\ Last(text) \in LineEnds THEN text ELSE Append(text, "lf")
WithoutMark(text) == IF text # <<>> /\ Head(text) = "bom" THEN Tail(text) ELSE text
Unified(text) == Each(text, LAMBDA w : IF w = "crlf" THEN <<"lf">> ELSE <<w>>)
Joined(text) ==
  FoldLeft(LAMBDA out, w : IF out # <<>> /\ Last(out) = "lf" /\ w = "lf" THEN out ELSE Append(out, w), <<>>, text)

Faulty(fault, text) ==
  CASE fault = "drops the mark" -> WithoutMark(text)
    [] fault = "unifies line ends" -> Unified(text)
    [] fault = "fills the empty" -> IF text = <<>> THEN <<"lf">> ELSE text
    [] fault = "ends the last line" -> IF text = <<>> THEN text ELSE Terminated(text)
    [] fault = "joins blank lines" -> Joined(text)
    [] fault = "cuts what is large" -> IF Len(text) > Large THEN SubSeq(text, 1, Large) ELSE text
    [] fault = "none" -> text

(* parse gives a tree, nothing, or the text itself.                        *)
Parse(dialect, text) == [is |-> dialect.parses, text |-> text]
PrintText(dialect, ast) == IF ast.is = "tree" THEN Faulty(dialect.fault, ast.text) ELSE ast.text

(* The samples that no fixture can leave out, made from a text of its own. *)
SamplesFrom(terminated) ==
  <<<<>>,
    Each(terminated, LAMBDA w : IF w = "lf" THEN <<"crlf">> ELSE <<w>>),
    <<"bom">> \o terminated,
    terminated \o [i \in 1..Large |-> "lf"]>>
MandatoryAdversarialSamples(valid) ==
  SamplesFrom(Terminated(Unified(WithoutMark(valid))))

RoundTripProbe(dialect, samples) ==
  dialect.parses = "tree" /\ \A sample \in ToSet(samples) : PrintText(dialect, Parse(dialect, sample)) = sample

-----------------------------------------------------------------------------
(* Exercises: chains of operations on a file, run on the vehicle.  An      *)
(* operation adds a word, takes the last one away, does nothing, throws,   *)
(* or adds another word in every run of the exercise.                      *)

Apply(op, text, run) ==
  CASE op.does = "add" -> Append(text, op.word)
    [] op.does = "count" -> Append(text, <<"once", "twice", "thrice">>[run])
    [] op.does = "undo" -> IF text = <<>> THEN text ELSE Front(text)
    [] OTHER -> text

(* A directive is buffered when the text is another than the one last      *)
(* written, and is printed when it is flushed.                             *)
Buffered(st, live, printed, throws) ==
  [st EXCEPT !.live = live, !.ok = @ /\ ~throws, !.open = @ \/ printed # st.written]
Edit(dialect, st, live, op) == Buffered(st, live, PrintText(dialect, live), op.does = "throw")
OneStep(dialect, st, op, run) == Edit(dialect, st, [st.live EXCEPT !.text = Apply(op, @, run)], op)

Written(st, text) == [st EXCEPT !.modifies = Append(@, text), !.written = text, !.open = FALSE]
Flushed(dialect, st) == IF st.open THEN Written(st, PrintText(dialect, st.live)) ELSE st

(* The contents of the modify directives, with a read after an operation.  *)
RECURSIVE Steps(_, _, _, _, _)
Steps(dialect, st, chain, readAfter, run) ==
  IF chain = <<>> THEN Flushed(dialect, st)
  ELSE LET done == OneStep(dialect, st, Head(chain), run)
       IN Steps(dialect, IF readAfter = 1 THEN Flushed(dialect, done) ELSE done, Tail(chain), readAfter - 1, run)

RunExercise(dialect, seed, chain, readAfter, run) ==
  Steps(dialect, [live |-> Parse(dialect, seed), written |-> seed, open |-> FALSE,
                  modifies |-> <<>>, ok |-> dialect.parses = "tree"], chain, readAfter, run)

AssertSerializable(contents) == \A content \in ToSet(contents) : Unprintable \cap ToSet(content) = {}

NoRead == 0

(* The three runs of an exercise, one after the other.                     *)
Comes(run, modifies) == run.ok /\ AssertSerializable(run.modifies) /\ run.modifies = modifies
SplitsAlike(firstOnly, split, expect) ==
  firstOnly.ok /\ firstOnly.modifies # <<>> /\ Comes(split, <<Head(firstOnly.modifies), expect>>)

ExerciseHolds(dialect, exercise) ==
  /\ Comes(RunExercise(dialect, exercise.seed, exercise.chain, NoRead, 1), <<exercise.expect>>)
  /\ Len(exercise.chain) >= 2 =>
       SplitsAlike(RunExercise(dialect, exercise.seed, SubSeq(exercise.chain, 1, 1), NoRead, 2),
                   RunExercise(dialect, exercise.seed, exercise.chain, 1, 3), exercise.expect)

TestOpPack(dialect, exercises) ==
  /\ \E e \in ToSet(exercises) : Len(e.chain) >= 2
  /\ \A e \in ToSet(exercises) : ExerciseHolds(dialect, e)
  /\ RoundTripProbe(dialect, MandatoryAdversarialSamples(Head(exercises).seed))

-----------------------------------------------------------------------------
(* A dialect as a module: what its find accepts, and its syntax library.   *)

LibraryMatches(library, expected) == expected # {} /\ library = expected

Undeclared == ".pbuilder-undeclared"

DoesAsItSays(run, exercise) == run.ok /\ run.modifies = <<exercise.expect>>
ExerciseOf(fixture) ==
  DoesAsItSays(RunExercise(fixture.module.dialect, fixture.exercise.seed, fixture.exercise.chain, NoRead, 1), fixture.exercise)

TestDialect(fixture) ==
  /\ fixture.module.callable
  /\ LibraryMatches(fixture.module.library, fixture.expected)
  /\ RoundTripProbe(fixture.dialect, fixture.samples \o MandatoryAdversarialSamples(fixture.exercise.seed))
  /\ ~fixture.module.acceptsAny \/ Undeclared \in fixture.dialect.extensions
  /\ ExerciseOf(fixture)

-----------------------------------------------------------------------------
(* Properties.                                                             *)

TextAfter(dialect, exercise, n) ==
  PrintText(dialect, Parse(dialect, FoldLeft(LAMBDA text, op : Apply(op, text, 1), exercise.seed, SubSeq(exercise.chain, 1, n))))

(* Operations that are functions of the text, and a chain that can be seen *)
(* to do something before the read and after it.                           *)
Honest(dialect, exercise) ==
  /\ \A op \in ToSet(exercise.chain) : op.does \in {"add", "undo", "nothing"} /\ op.word \notin Unprintable
  /\ \E after \in {[k \in DOMAIN exercise.chain |-> TextAfter(dialect, exercise, k)]} :
       /\ \E k \in DOMAIN after : after[k] # exercise.seed
       /\ exercise.expect = Last(after)
       /\ Len(after) >= 2 => after[1] # exercise.seed /\ \E k \in 2..Len(after) : after[k] # after[1]

Undetected == {"none", "ends the last line"}

(* An exercise that is admitted comes to the same text wherever the author *)
(* reads and however often he runs it; the dialect keeps every byte that   *)
(* the mandatory samples have, which all end in a line end or are empty;   *)
(* and honest operations of a faithful dialect are admitted.               *)
AdmittedOpsAreSound(dialect, exercises) ==
  \E admitted \in {TestOpPack(dialect, exercises)} :
    /\ admitted =>
         /\ dialect.fault \in Undetected
         /\ \A e \in ToSet(exercises), k \in 0..2, run \in 1..3 : Len(e.chain) >= 2 =>
              Last(RunExercise(dialect, e.seed, e.chain, k, run).modifies) = e.expect
    /\ /\ dialect.parses = "tree" /\ dialect.fault = "none"
       /\ \A e \in ToSet(exercises) : Honest(dialect, e)
       /\ \E e \in ToSet(exercises) : Len(e.chain) >= 2
       => admitted

(* A dialect that is admitted has no fault but those that no sample shows, *)
(* finds no file of an undeclared extension, and does what its exercise    *)
(* says, in its own library; and one that does all this is admitted.       *)
AdmittedDialectIsSound(fixture) ==
  \E admitted \in {TestDialect(fixture)},
     sound \in {/\ fixture.module.callable /\ ~fixture.module.acceptsAny
                /\ fixture.module.library = fixture.expected /\ fixture.expected # {}
                /\ ExerciseOf(fixture)} :
    /\ admitted =>
         /\ fixture.dialect.fault \in Undetected
         /\ \A s \in ToSet(fixture.samples) : Faulty(fixture.dialect.fault, s) = s
         /\ Undeclared \notin fixture.dialect.extensions => sound
    /\ sound /\ fixture.dialect.fault = "none" /\ fixture.dialect.parses = "tree" => admitted
=============================================================================
