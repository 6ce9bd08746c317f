------------------------------- MODULE Folding -------------------------------
(***************************************************************************)
(* What FoldLeft of the community modules computes, for every operator and *)
(* every sequence.  The models replay journals, channels and op logs with  *)
(* FoldLeft; a proof module instantiates this one with its own operator    *)
(* and cites the theorems.  At the end, that a recursive function exists.  *)
(*                                                                         *)
(* FoldLeft is MapThenFoldSet over the domain of the sequence: a function  *)
(* on the subsets of 1 .. n, given by CHOOSE, that takes the greatest      *)
(* element off first.  So the proofs show by induction on n that such a    *)
(* function exists and that any two agree where both are defined.          *)
(***************************************************************************)
EXTENDS SequencesExt, WellFoundedInduction, TLAPS

CONSTANT Step(_, _)   \* one step of the fold: accumulator, then element

Fold(base, seq) == FoldLeft(Step, base, seq)

-----------------------------------------------------------------------------
(* Induction over the natural numbers, stated with sets.                   *)

(* A set of naturals that has an element has a least one.                  *)
LEMMA Least ==
  ASSUME NEW S, S \subseteq Nat, S # {}
  PROVE  \E x \in S : \A y \in S : x <= y
  <1> DEFINE R == OpToRel(<, Nat)
  <1>1. IsWellFoundedOn(R, Nat)
    BY NatLessThanWellFounded
  <1> HIDE DEF R
  <1>2. PICK x \in S : \A y \in S : ~(<<y, x>> \in R)
    BY <1>1, WFMin
  <1>3. \A y \in S : y < x => <<y, x>> \in R
    BY DEF R, OpToRel
  <1>4. \A y \in S : y \in Nat /\ x \in Nat
    OBVIOUS
  <1>5. \A y \in S : ~(y < x)
    BY <1>2, <1>3
  <1> QED BY <1>4, <1>5

(* A set that holds zero and every successor holds every natural.          *)
LEMMA SetInduction ==
  ASSUME NEW T, 0 \in T, \A k \in Nat : k \in T => k + 1 \in T
  PROVE  Nat \subseteq T
  <1> SUFFICES ASSUME Nat \ T # {} PROVE FALSE
    OBVIOUS
  <1>1. PICK x \in Nat \ T : \A y \in Nat \ T : x <= y
    <2>1. Nat \ T \subseteq Nat
       OBVIOUS
    <2> QED BY <2>1, Least
  <1>2. x # 0 /\ x - 1 \in Nat /\ x - 1 \notin Nat \ T /\ (x - 1) + 1 = x
    BY <1>1
  <1> QED BY <1>1, <1>2

-----------------------------------------------------------------------------
(* The function behind FoldLeft.                                           *)

(* f solves the equation by which FoldLeft is defined on 1 .. n.           *)
Solves(f, b, s, n) ==
  f = [u \in SUBSET (1 .. n) |-> IF u = {} THEN b ELSE Step(f[u \ {Max(u)}], s[Max(u)])]

(* FoldLeft is a solution, chosen, at the whole domain of the sequence.    *)
LEMMA Unfolded ==
  ASSUME NEW b, NEW s, NEW n \in Nat, DOMAIN s = 1 .. n
  PROVE Fold(b, s) = (CHOOSE f : Solves(f, b, s, n))[1 .. n]
  BY DEF Fold, FoldLeft, MapThenFoldSet, Solves

(* A non-empty set of positions has a greatest element.                    *)
LEMMA Top ==
  ASSUME NEW n \in Nat, NEW u \in SUBSET (1 .. n), u # {}
  PROVE  Max(u) \in u /\ \A y \in u : y <= Max(u)
  <1> DEFINE T == {n - x : x \in u}
  <1>1. T \subseteq Nat /\ T # {}
    <2>1. \A x \in u : n - x \in Nat
      OBVIOUS
    <2> QED BY <2>1
  <1>2. PICK d \in T : \A e \in T : d <= e
    <2> HIDE DEF T
    <2> QED BY <1>1, Least
  <1>3. PICK x \in u : d = n - x
    BY <1>2
  <1>4. \A y \in u : n - y \in T
    OBVIOUS
  <1>5. \A y \in u : d <= n - y /\ y \in 1 .. n
    BY <1>2, <1>4
  <1>6. \A y \in u : x >= y
    BY <1>3, <1>5
  <1> QED BY <1>6 DEF Max

LEMMA TopOfAll ==
  ASSUME NEW n \in Nat, NEW u \in SUBSET (1 .. n + 1), n + 1 \in u
  PROVE  Max(u) = n + 1
  <1>1. Max(u) \in u /\ n + 1 <= Max(u)
    <2>1. n + 1 \in Nat /\ u # {}
      OBVIOUS
    <2> QED BY <2>1, Top
  <1>2. \A x \in u : n + 1 <= x => x = n + 1
    OBVIOUS
  <1> QED BY <1>1, <1>2

(* The equation has a solution for every n.                                *)
LEMMA Exists ==
  ASSUME NEW b, NEW s, NEW n \in Nat
  PROVE  \E f : Solves(f, b, s, n)
  <1> DEFINE T == {k \in Nat : \E f : Solves(f, b, s, k)}
  <1>1. 0 \in T
    <2> DEFINE g == [u \in SUBSET (1 .. 0) |-> b]
    <2>1. \A u \in SUBSET (1 .. 0) : u = {}
      OBVIOUS
    <2>2. g = [u \in SUBSET (1 .. 0) |-> IF u = {} THEN b ELSE Step(g[u \ {Max(u)}], s[Max(u)])]
      BY <2>1
    <2> HIDE DEF g
    <2> QED BY <2>2 DEF Solves
  <1>2. ASSUME NEW k \in Nat, k \in T PROVE k + 1 \in T
    <2>1. PICK f : Solves(f, b, s, k)
      BY <1>2
    <2> DEFINE g == [u \in SUBSET (1 .. k + 1) |->
                      IF k + 1 \in u THEN Step(f[u \ {k + 1}], s[k + 1]) ELSE f[u]]
    <2>2. \A u \in SUBSET (1 .. k) : f[u] = IF u = {} THEN b ELSE Step(f[u \ {Max(u)}], s[Max(u)])
      BY <2>1 DEF Solves
    <2>3. ASSUME NEW u \in SUBSET (1 .. k + 1)
          PROVE  g[u] = IF u = {} THEN b ELSE Step(g[u \ {Max(u)}], s[Max(u)])
      <3>1. CASE k + 1 \in u
        <4>1. Max(u) = k + 1 /\ u # {}
          BY <3>1, TopOfAll
        <4>2. u \ {k + 1} \in SUBSET (1 .. k + 1) /\ k + 1 \notin u \ {k + 1}
          OBVIOUS
        <4> QED BY <3>1, <4>1, <4>2
      <3>2. CASE k + 1 \notin u
        <4>1. u \in SUBSET (1 .. k)
          BY <3>2
        <4>2. u \ {Max(u)} \in SUBSET (1 .. k + 1) /\ k + 1 \notin u \ {Max(u)}
          BY <3>2
        <4> QED BY <2>2, <3>2, <4>1, <4>2
      <3> QED BY <3>1, <3>2
    <2>4. g = [u \in SUBSET (1 .. k + 1) |-> IF u = {} THEN b ELSE Step(g[u \ {Max(u)}], s[Max(u)])]
      <3> HIDE DEF g
      <3>1. g = [u \in SUBSET (1 .. k + 1) |-> g[u]]
        BY DEF g
      <3> QED BY <2>3, <3>1
    <2> HIDE DEF g
    <2>5. Solves(g, b, s, k + 1)
      BY <2>4 DEF Solves
    <2> QED BY <2>5
  <1> HIDE DEF T
  <1>3. n \in T
    BY <1>1, <1>2, SetInduction
  <1> QED BY <1>3 DEF T

(* Solutions for two sequences agree on a prefix the sequences share.      *)
LEMMA Agree ==
  ASSUME NEW b, NEW s, NEW t, NEW n \in Nat, NEW m \in Nat,
         NEW f, NEW g, Solves(f, b, s, n), Solves(g, b, t, m),
         NEW l \in Nat, l <= n, l <= m, \A i \in 1 .. l : s[i] = t[i]
  PROVE  f[1 .. l] = g[1 .. l]
  <1> DEFINE T == {k \in Nat : k <= l => f[1 .. k] = g[1 .. k]}
  <1>0. /\ \A u \in SUBSET (1 .. n) : f[u] = IF u = {} THEN b ELSE Step(f[u \ {Max(u)}], s[Max(u)])
        /\ \A u \in SUBSET (1 .. m) : g[u] = IF u = {} THEN b ELSE Step(g[u \ {Max(u)}], t[Max(u)])
    BY DEF Solves
  <1>1. 0 \in T
    <2>1. 1 .. 0 = {} /\ {} \in SUBSET (1 .. n) /\ {} \in SUBSET (1 .. m)
      OBVIOUS
    <2> QED BY <1>0, <2>1
  <1>2. ASSUME NEW k \in Nat, k \in T PROVE k + 1 \in T
    <2> SUFFICES ASSUME k + 1 <= l PROVE f[1 .. k + 1] = g[1 .. k + 1]
      OBVIOUS
    <2>1. /\ 1 .. k + 1 \in SUBSET (1 .. n) /\ 1 .. k + 1 \in SUBSET (1 .. m) /\ 1 .. k + 1 # {}
          /\ (1 .. k + 1) \ {k + 1} = 1 .. k
      OBVIOUS
    <2>2. Max(1 .. k + 1) = k + 1
      BY TopOfAll
    <2>3. f[1 .. k] = g[1 .. k] /\ s[k + 1] = t[k + 1]
      BY <1>2
    <2>4. f[1 .. k + 1] = Step(f[1 .. k], s[k + 1])
      BY <1>0, <2>1, <2>2
    <2>5. g[1 .. k + 1] = Step(g[1 .. k], t[k + 1])
      BY <1>0, <2>1, <2>2
    <2> QED BY <2>3, <2>4, <2>5
  <1> HIDE DEF T
  <1>3. l \in T
    BY <1>1, <1>2, SetInduction
  <1> QED BY <1>3 DEF T

(* So FoldLeft is the value of any solution.                               *)
LEMMA Solution ==
  ASSUME NEW b, NEW s, NEW n \in Nat, DOMAIN s = 1 .. n
  PROVE  \E f : Solves(f, b, s, n) /\ Fold(b, s) = f[1 .. n]
  <1> DEFINE f == CHOOSE f : Solves(f, b, s, n)
  <1>1. Solves(f, b, s, n)
    BY Exists
  <1>2. Fold(b, s) = f[1 .. n]
    BY Unfolded
  <1> HIDE DEF f
  <1> QED BY <1>1, <1>2

-----------------------------------------------------------------------------
(* What the other modules cite.                                            *)

(* Folding nothing returns the base: nothing buffered, nothing staged.     *)
THEOREM FoldEmpty == ASSUME NEW b PROVE Fold(b, <<>>) = b
  <1>1. PICK f : Solves(f, b, <<>>, 0) /\ Fold(b, <<>>) = f[1 .. 0]
    <2>1. DOMAIN <<>> = 1 .. 0 /\ 0 \in Nat
      OBVIOUS
    <2> QED BY <2>1, Solution
  <1>2. 1 .. 0 = {}
    OBVIOUS
  <1> QED BY <1>1, <1>2 DEF Solves

(* One more element is one more step, whatever the elements are.           *)
THEOREM FoldNext ==
  ASSUME NEW b, NEW s, NEW t, NEW n \in Nat,
         DOMAIN s = 1 .. n, DOMAIN t = 1 .. n + 1, \A i \in 1 .. n : s[i] = t[i]
  PROVE  Fold(b, t) = Step(Fold(b, s), t[n + 1])
  <1>1. PICK f : Solves(f, b, s, n) /\ Fold(b, s) = f[1 .. n]
    BY Solution
  <1>2. PICK g : Solves(g, b, t, n + 1) /\ Fold(b, t) = g[1 .. n + 1]
    BY Solution
  <1>3. f[1 .. n] = g[1 .. n]
    BY <1>1, <1>2, Agree
  <1>4. /\ 1 .. n + 1 # {} /\ (1 .. n + 1) \ {n + 1} = 1 .. n /\ Max(1 .. n + 1) = n + 1
    BY TopOfAll
  <1>5. g[1 .. n + 1] = Step(g[1 .. n], t[n + 1])
    BY <1>2, <1>4 DEF Solves
  <1> QED BY <1>1, <1>2, <1>3, <1>5

(* A journal or log that grows at its end is replayed one step further.    *)
THEOREM FoldAppend ==
  ASSUME NEW S, NEW b, NEW s \in Seq(S), NEW x \in S
  PROVE  Fold(b, Append(s, x)) = Step(Fold(b, s), x)
  <1> DEFINE n == Len(s)
             t == Append(s, x)
  <1>1. /\ n \in Nat /\ DOMAIN s = 1 .. n /\ DOMAIN t = 1 .. n + 1
        /\ \A i \in 1 .. n : s[i] = t[i]
        /\ t[n + 1] = x
    OBVIOUS
  <1> HIDE DEF n, t
  <1>2. Fold(b, t) = Step(Fold(b, s), t[n + 1])
    BY <1>1, FoldNext
  <1> QED BY <1>1, <1>2 DEF n, t

(* The replays of the prefixes of a sequence are steps apart: what an      *)
(* engine or a reader that goes through the sequence in order holds.       *)
THEOREM FoldPrefix ==
  ASSUME NEW S, NEW b, NEW s \in Seq(S), NEW k \in 0 .. Len(s) - 1
  PROVE  Fold(b, SubSeq(s, 1, k + 1)) = Step(Fold(b, SubSeq(s, 1, k)), s[k + 1])
  <1>1. /\ k \in Nat
        /\ DOMAIN SubSeq(s, 1, k) = 1 .. k /\ DOMAIN SubSeq(s, 1, k + 1) = 1 .. k + 1
        /\ \A i \in 1 .. k : SubSeq(s, 1, k)[i] = SubSeq(s, 1, k + 1)[i]
        /\ SubSeq(s, 1, k + 1)[k + 1] = s[k + 1]
    OBVIOUS
  <1>2. ASSUME NEW p, NEW q, p = SubSeq(s, 1, k), q = SubSeq(s, 1, k + 1)
        PROVE  Fold(b, q) = Step(Fold(b, p), q[k + 1])
    <2>1. /\ DOMAIN p = 1 .. k /\ DOMAIN q = 1 .. k + 1
          /\ \A i \in 1 .. k : p[i] = q[i]
      BY <1>1, <1>2
    <2> QED BY <1>1, <2>1, FoldNext
  <1> QED BY <1>1, <1>2

(* What each step keeps, the whole fold keeps.                             *)
THEOREM FoldInvariant ==
  ASSUME NEW S, NEW b, NEW s \in Seq(S), NEW I, b \in I,
         \A acc \in I, x \in S : Step(acc, x) \in I
  PROVE  Fold(b, s) \in I
  <1> DEFINE T == {k \in Nat : k <= Len(s) => Fold(b, SubSeq(s, 1, k)) \in I}
  <1>1. 0 \in T
    <2>1. SubSeq(s, 1, 0) = <<>>
      OBVIOUS
    <2>2. Fold(b, SubSeq(s, 1, 0)) = b
      BY <2>1, FoldEmpty
    <2> QED BY <2>2
  <1>2. ASSUME NEW k \in Nat, k \in T PROVE k + 1 \in T
    <2> SUFFICES ASSUME k + 1 <= Len(s) PROVE Fold(b, SubSeq(s, 1, k + 1)) \in I
      OBVIOUS
    <2>1. k \in 0 .. Len(s) - 1 /\ s[k + 1] \in S
      OBVIOUS
    <2>2. Fold(b, SubSeq(s, 1, k)) \in I
      BY <1>2
    <2> QED BY <2>1, <2>2, FoldPrefix
  <1> HIDE DEF T
  <1>3. Len(s) \in T
    BY <1>1, <1>2, SetInduction
  <1>4. SubSeq(s, 1, Len(s)) = s
    OBVIOUS
  <1>5. Len(s) \in Nat
    OBVIOUS
  <1>6. Fold(b, SubSeq(s, 1, Len(s))) \in I
    BY <1>3, <1>5 DEF T
  <1> QED BY <1>4, <1>6

-----------------------------------------------------------------------------
(* Functions that are defined by recursion.                                *)

(* f is defined on D by recursion, in the context c.                       *)
Recurs(f, c, D) == f = [x \in D |-> Step(<<c, x>>, f)]

(* The value at x depends on values at elements of a smaller measure only. *)
Founded(c, D, m) ==
  \A x \in D : \A f, g : (\A y \in D : m[y] < m[x] => f[y] = g[y]) => Step(<<c, x>>, f) = Step(<<c, x>>, g)

(* Then there is such a function, if the measure is bounded.               *)
THEOREM Recursion ==
  ASSUME NEW c, NEW D, NEW m, NEW n \in Nat, \A x \in D : m[x] \in 0 .. n, Founded(c, D, m)
  PROVE  \E f : Recurs(f, c, D)
  <1> DEFINE Below(k) == {x \in D : m[x] < k}
             T == {k \in Nat : \E f : f = [x \in Below(k) |-> Step(<<c, x>>, f)]}
  <1>1. 0 \in T
    <2>1. Below(0) = {}
      OBVIOUS
    <2> DEFINE f == [x \in Below(0) |-> x]
    <2>2. f = [x \in Below(0) |-> Step(<<c, x>>, f)]
      BY <2>1
    <2> HIDE DEF f
    <2> QED BY <2>2
  <1>2. ASSUME NEW k \in Nat, k \in T PROVE k + 1 \in T
    <2>1. PICK g : g = [x \in Below(k) |-> Step(<<c, x>>, g)]
      BY <1>2
    <2> DEFINE f == [x \in Below(k + 1) |-> Step(<<c, x>>, g)]
    <2>2. ASSUME NEW x \in Below(k + 1) PROVE f[x] = Step(<<c, x>>, f)
      <3>1. ASSUME NEW y \in D, m[y] < m[x] PROVE g[y] = f[y]
        <4>1. y \in Below(k) /\ y \in Below(k + 1)
          BY <3>1
        <4> QED BY <2>1, <4>1
      <3> HIDE DEF f
      <3>2. Step(<<c, x>>, g) = Step(<<c, x>>, f)
        BY <3>1 DEF Founded
      <3> QED BY <3>2 DEF f
    <2>3. f = [x \in Below(k + 1) |-> f[x]]
      OBVIOUS
    <2> HIDE DEF f
    <2>4. f = [x \in Below(k + 1) |-> Step(<<c, x>>, f)]
      BY <2>2, <2>3
    <2> QED BY <2>4
  <1> HIDE DEF T
  <1>3. n + 1 \in T
    BY <1>1, <1>2, SetInduction
  <1>4. Below(n + 1) = D
    OBVIOUS
  <1> QED BY <1>3, <1>4 DEF T, Recurs

===============================================================================
