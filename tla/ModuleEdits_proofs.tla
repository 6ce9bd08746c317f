-------------------------- MODULE ModuleEdits_proofs --------------------------
(***************************************************************************)
(* No combination of the operations of ModuleEdits binds or exports a name *)
(* twice, in files of any size, and each that is not refused has done what *)
(* it says and nothing else.  The parts: what the operations on sequences  *)
(* do to their elements; that the order of sortImports is one that can be  *)
(* followed; that a file stays one the compiler takes when its             *)
(* declarations move, shrink or gain one free name; that each operation    *)
(* does no more than that; what each one finds or makes; and what of the   *)
(* file's meaning each one leaves, the first time and when done again.     *)
(***************************************************************************)
EXTENDS ModuleEdits, SequenceTheorems, FiniteSetTheorems, WellFoundedInduction, TLAPS

-----------------------------------------------------------------------------
(* Sequences.                                                              *)

(* A set of naturals that has an element has a least one.                  *)
LEMMA Least ==
  ASSUME NEW S, S \subseteq Nat, S # {}
  PROVE  \E x \in S : \A y \in S : x <= y
  <1> DEFINE R == OpToRel(<, Nat)
  <1>1. IsWellFoundedOn(R, Nat)
    BY NatLessThanWellFounded
  <1> HIDE DEF R
  <1>2. PICK x \in S : \A y \in S : ~(<<y, x>> \in R)
    BY <1>1, WFMin
  <1>3. \A y \in S : y < x => <<y, x>> \in R
    BY DEF R, OpToRel
  <1>4. \A y \in S : y \in Nat /\ x \in Nat
    OBVIOUS
  <1>5. \A y \in S : ~(y < x)
    BY <1>2, <1>3
  <1> QED BY <1>4, <1>5

(* Min takes it.                                                           *)
LEMMA MinIs ==
  ASSUME NEW S, S \subseteq Nat, S # {}
  PROVE  Min(S) \in S /\ \A y \in S : Min(S) <= y
  <1>1. \E x \in S : \A y \in S : x <= y
    BY Least
  <1> QED BY <1>1 DEF Min

(* Max takes the greatest of a bounded set.                                *)
LEMMA MaxIs ==
  ASSUME NEW n \in Nat, NEW S, S \subseteq 0 .. n, S # {}
  PROVE  Max(S) \in S /\ \A y \in S : y <= Max(S)
  <1> DEFINE T == {n - x : x \in S}
  <1>1. T \subseteq Nat /\ T # {}
    <2>1. \A x \in S : n - x \in Nat
      OBVIOUS
    <2> QED BY <2>1
  <1>2. PICK d \in T : \A e \in T : d <= e
    <2> HIDE DEF T
    <2> QED BY <1>1, Least
  <1>3. PICK x \in S : d = n - x
    BY <1>2
  <1>4. \A y \in S : n - y \in T
    OBVIOUS
  <1>5. \A y \in S : d <= n - y /\ y \in 0 .. n
    BY <1>2, <1>4
  <1>6. \A y \in S : x >= y
    BY <1>3, <1>5
  <1>7. \E z \in S : \A y \in S : z >= y
    BY <1>6
  <1>8. Max(S) \in S /\ \A y \in S : Max(S) >= y
    BY <1>7 DEF Max
  <1>9. \A y, z \in 0 .. n : z >= y => y <= z
    OBVIOUS
  <1> QED BY <1>8, <1>9

(* First is a place where an element of S is, or 0 when there is none.     *)
LEMMA FirstIs ==
  ASSUME NEW T, NEW s \in Seq(T), NEW S
  PROVE  /\ First(s, S) # 0 => First(s, S) \in DOMAIN s /\ s[First(s, S)] \in S
         /\ First(s, S) = 0 => \A i \in DOMAIN s : s[i] \notin S
  <1> DEFINE I == {i \in DOMAIN s : s[i] \in S}
  <1>1. DOMAIN s = 1 .. Len(s) /\ Len(s) \in Nat
    OBVIOUS
  <1>2. I \subseteq Nat /\ 0 \notin I
    BY <1>1
  <1>3. CASE I = {}
    <2>1. S \cap ToSet(s) = {}
      BY <1>3 DEF ToSet
    <2> QED BY <1>3, <2>1 DEF First
  <1>4. CASE I # {}
    <2>1. S \cap ToSet(s) # {}
      BY <1>4 DEF ToSet
    <2>2. Min(I) \in I
      <3> HIDE DEF I
      <3> QED BY <1>2, <1>4, MinIs
    <2>3. First(s, S) = Min(I)
      BY <2>1 DEF First
    <2> QED BY <1>2, <2>2, <2>3
  <1> QED BY <1>3, <1>4

(* InsertAt makes room.                                                    *)
LEMMA InsertIs ==
  ASSUME NEW T, NEW s \in Seq(T), NEW p \in 1 .. Len(s) + 1, NEW e \in T
  PROVE  /\ InsertAt(s, p, e) \in Seq(T) /\ Len(InsertAt(s, p, e)) = Len(s) + 1
         /\ \A i \in 1 .. Len(s) + 1 :
              InsertAt(s, p, e)[i] = IF i < p THEN s[i] ELSE IF i = p THEN e ELSE s[i - 1]
  <1> DEFINE a == SubSeq(s, 1, p - 1)
             one == <<e>>
             c == SubSeq(s, p, Len(s))
  <1>1. one \in Seq(T) /\ Len(one) = 1 /\ one[1] = e
    OBVIOUS
  <1>2. /\ a \in Seq(T) /\ Len(a) = p - 1 /\ \A i \in 1 .. p - 1 : a[i] = s[i]
        /\ c \in Seq(T) /\ Len(c) = Len(s) - p + 1 /\ \A i \in 1 .. Len(s) - p + 1 : c[i] = s[i + p - 1]
    OBVIOUS
  <1>3. InsertAt(s, p, e) = (a \o one) \o c
    BY DEF InsertAt
  <1> HIDE DEF a, one, c
  <1>4. PICK b : b = a \o one
    OBVIOUS
  <1>5. /\ b \in Seq(T) /\ Len(b) = p
        /\ \A i \in 1 .. p : b[i] = IF i <= p - 1 THEN a[i] ELSE one[i - (p - 1)]
    <2>1. /\ b \in Seq(T) /\ Len(b) = Len(a) + Len(one)
          /\ \A i \in 1 .. Len(a) + Len(one) : b[i] = IF i <= Len(a) THEN a[i] ELSE one[i - Len(a)]
      <3>1. a \in Seq(T) /\ one \in Seq(T)
        BY <1>1, <1>2
      <3> QED BY <3>1, <1>4, ConcatProperties
    <2> QED BY <1>1, <1>2, <2>1
  <1>6. PICK d : d = b \o c
    OBVIOUS
  <1>7. /\ d \in Seq(T) /\ Len(d) = Len(s) + 1
        /\ \A i \in 1 .. Len(s) + 1 : d[i] = IF i <= p THEN b[i] ELSE c[i - p]
    <2>1. /\ d \in Seq(T) /\ Len(d) = Len(b) + Len(c)
          /\ \A i \in 1 .. Len(b) + Len(c) : d[i] = IF i <= Len(b) THEN b[i] ELSE c[i - Len(b)]
      BY <1>2, <1>5, <1>6, ConcatProperties
    <2>2. Len(b) + Len(c) = Len(s) + 1 /\ Len(b) = p
      BY <1>2, <1>5
    <2> QED BY <2>1, <2>2
  <1>8. ASSUME NEW i \in 1 .. Len(s) + 1
        PROVE  d[i] = IF i < p THEN s[i] ELSE IF i = p THEN e ELSE s[i - 1]
    <2>1. CASE i < p
      <3>1. d[i] = b[i] /\ b[i] = a[i] /\ a[i] = s[i]
        BY <2>1, <1>2, <1>5, <1>7
      <3> QED BY <2>1, <3>1
    <2>2. CASE i = p
      <3>1. d[i] = b[i] /\ b[i] = one[1]
        BY <2>2, <1>5, <1>7
      <3> QED BY <2>2, <3>1, <1>1
    <2>3. CASE i > p
      <3> DEFINE j == i - p
      <3>1. j \in 1 .. Len(s) - p + 1 /\ j + p - 1 = i - 1
        BY <2>3
      <3>2. d[i] = c[j]
        BY <2>3, <1>7
      <3> HIDE DEF j
      <3>3. c[j] = s[j + p - 1]
        BY <3>1, <1>2
      <3> QED BY <2>3, <3>1, <3>2, <3>3
    <2> QED BY <2>1, <2>2, <2>3
  <1> QED BY <1>3, <1>4, <1>6, <1>7, <1>8

(* RemoveAt closes the gap.                                                *)
LEMMA RemoveIs ==
  ASSUME NEW T, NEW s \in Seq(T), NEW p \in DOMAIN s
  PROVE  LET shorter == RemoveAt(s, p)
         IN /\ shorter \in Seq(T) /\ Len(shorter) = Len(s) - 1
            /\ \A i \in 1 .. Len(s) - 1 : shorter[i] = IF i < p THEN s[i] ELSE s[i + 1]
  <1> DEFINE a == SubSeq(s, 1, p - 1)
             c == SubSeq(s, p + 1, Len(s))
  <1>1. p \in 1 .. Len(s) /\ Len(s) \in Nat
    OBVIOUS
  <1>2. /\ a \in Seq(T) /\ Len(a) = p - 1 /\ \A i \in 1 .. p - 1 : a[i] = s[i]
        /\ c \in Seq(T) /\ Len(c) = Len(s) - p /\ \A i \in 1 .. Len(s) - p : c[i] = s[i + p]
    BY <1>1
  <1>3. RemoveAt(s, p) = a \o c
    BY DEF RemoveAt
  <1> HIDE DEF a, c
  <1>4. PICK d : d = a \o c
    OBVIOUS
  <1>5. /\ d \in Seq(T) /\ Len(d) = Len(s) - 1
        /\ \A i \in 1 .. Len(s) - 1 : d[i] = IF i <= p - 1 THEN a[i] ELSE c[i - (p - 1)]
    <2>1. /\ d \in Seq(T) /\ Len(d) = Len(a) + Len(c)
          /\ \A i \in 1 .. Len(a) + Len(c) : d[i] = IF i <= Len(a) THEN a[i] ELSE c[i - Len(a)]
      BY <1>2, <1>4, ConcatProperties
    <2>2. Len(a) + Len(c) = Len(s) - 1 /\ Len(a) = p - 1
      BY <1>1, <1>2
    <2> QED BY <2>1, <2>2
  <1>6. ASSUME NEW i \in 1 .. Len(s) - 1
        PROVE  d[i] = IF i < p THEN s[i] ELSE s[i + 1]
    <2>1. CASE i < p
      BY <2>1, <1>1, <1>2, <1>5
    <2>2. CASE ~(i < p)
      <3> DEFINE j == i - (p - 1)
      <3>1. j \in 1 .. Len(s) - p /\ j + p = i + 1
        BY <2>2, <1>1
      <3>2. d[i] = c[j]
        BY <2>2, <1>1, <1>5
      <3> HIDE DEF j
      <3>3. c[j] = s[j + p]
        BY <3>1, <1>2
      <3> QED BY <2>2, <3>1, <3>2, <3>3
    <2> QED BY <2>1, <2>2
  <1> QED BY <1>3, <1>4, <1>5, <1>6

-----------------------------------------------------------------------------
(* Arranging.                                                              *)

(* The elements of s, each from a place of its own, and x in place p.      *)
Grown(t, s, x, p) ==
  \E g : /\ \A i, j \in DOMAIN t : g[i] = g[j] => i = j
         /\ \A i \in DOMAIN t : (g[i] \in DOMAIN s /\ t[i] = s[g[i]]) \/ (i = p /\ t[i] = x)

(* So is a sequence into which x is put, ...                               *)
LEMMA InsertGrows ==
  ASSUME NEW T, NEW s \in Seq(T), NEW q \in 1 .. Len(s) + 1, NEW x \in T
  PROVE  InsertAt(s, q, x) \in Seq(T) /\ Len(InsertAt(s, q, x)) = Len(s) + 1 /\ Grown(InsertAt(s, q, x), s, x, q)
  <1> DEFINE N == 1 .. Len(s) + 1
             g == [i \in N |-> IF i < q THEN i ELSE IF i = q THEN 0 ELSE i - 1]
  <1>1. Len(s) \in Nat /\ DOMAIN s = 1 .. Len(s) /\ q \in N
    OBVIOUS
  <1>2. PICK t : t = InsertAt(s, q, x)
    OBVIOUS
  <1>3. /\ t \in Seq(T) /\ Len(t) = Len(s) + 1
        /\ \A i \in N : t[i] = IF i < q THEN s[i] ELSE IF i = q THEN x ELSE s[i - 1]
    <2>1. /\ InsertAt(s, q, x) \in Seq(T) /\ Len(InsertAt(s, q, x)) = Len(s) + 1
          /\ \A i \in 1 .. Len(s) + 1 :
               InsertAt(s, q, x)[i] = IF i < q THEN s[i] ELSE IF i = q THEN x ELSE s[i - 1]
      BY InsertIs
    <2> QED BY <1>2, <2>1
  <1>4. DOMAIN t = N
    BY <1>3
  <1>5. \A i, j \in N : g[i] = g[j] => i = j
    BY <1>1
  <1>6. \A i \in N : (g[i] \in DOMAIN s /\ t[i] = s[g[i]]) \/ (i = q /\ t[i] = x)
    BY <1>1, <1>3
  <1> HIDE DEF g, N
  <1>7. Grown(t, s, x, q)
    BY <1>4, <1>5, <1>6 DEF Grown
  <1> QED BY <1>2, <1>3, <1>7

(* ... to which it is appended, ...                                        *)
LEMMA AppendGrows ==
  ASSUME NEW T, NEW s \in Seq(T), NEW x \in T
  PROVE  Append(s, x) \in Seq(T) /\ Grown(Append(s, x), s, x, Len(s) + 1)
  <1> DEFINE N == 1 .. Len(s) + 1
             g == [i \in N |-> i]
  <1>1. PICK t : t = Append(s, x)
    OBVIOUS
  <1>2. /\ t \in Seq(T) /\ DOMAIN t = N /\ Len(s) \in Nat /\ DOMAIN s = 1 .. Len(s)
        /\ \A i \in N : t[i] = IF i <= Len(s) THEN s[i] ELSE x
    BY <1>1
  <1>3. \A i, j \in N : g[i] = g[j] => i = j
    OBVIOUS
  <1>4. \A i \in N : (g[i] \in DOMAIN s /\ t[i] = s[g[i]]) \/ (i = Len(s) + 1 /\ t[i] = x)
    BY <1>2
  <1> HIDE DEF g, N
  <1>5. Grown(t, s, x, Len(s) + 1)
    BY <1>2, <1>3, <1>4 DEF Grown
  <1> QED BY <1>1, <1>2, <1>5

(* ... or, with no x, from which an element is taken.                      *)
LEMMA RemoveShrinks ==
  ASSUME NEW T, NEW s \in Seq(T), NEW q \in DOMAIN s, NEW x
  PROVE  RemoveAt(s, q) \in Seq(T) /\ Grown(RemoveAt(s, q), s, x, 0)
  <1> DEFINE N == 1 .. Len(s) - 1
             g == [i \in N |-> IF i < q THEN i ELSE i + 1]
  <1>1. Len(s) \in Nat /\ DOMAIN s = 1 .. Len(s) /\ q \in 1 .. Len(s)
    OBVIOUS
  <1>2. PICK t : t = RemoveAt(s, q)
    OBVIOUS
  <1>3. /\ t \in Seq(T) /\ Len(t) = Len(s) - 1
        /\ \A i \in N : t[i] = IF i < q THEN s[i] ELSE s[i + 1]
    BY <1>1, <1>2, RemoveIs
  <1>4. DOMAIN t = N
    BY <1>3
  <1>5. \A i, j \in N : g[i] = g[j] => i = j
    BY <1>1
  <1>6. \A i \in N : g[i] \in DOMAIN s /\ t[i] = s[g[i]]
    BY <1>1, <1>3
  <1> HIDE DEF g, N
  <1>7. Grown(t, s, x, 0)
    BY <1>4, <1>5, <1>6 DEF Grown
  <1> QED BY <1>2, <1>3, <1>7

(* Its elements are those, and x.                                          *)
LEMMA GrownIs ==
  ASSUME NEW t, NEW s, NEW x, NEW p, Grown(t, s, x, p)
  PROVE  \A y \in ToSet(t) : y \in ToSet(s) \/ (p \in DOMAIN t /\ y = x)
  BY DEF Grown, ToSet

(* Distinct names stay distinct when the one that comes to them is new.    *)
LEMMA StayDistinct ==
  ASSUME NEW t, NEW s, NEW x, NEW p, Grown(t, s, x, p), Distinct(s),
         p \in DOMAIN t => \A k \in DOMAIN s : Visible(s[k]) # Visible(x)
  PROVE  Distinct(t)
  <1>1. PICK g : /\ \A i, j \in DOMAIN t : g[i] = g[j] => i = j
                 /\ \A i \in DOMAIN t : (g[i] \in DOMAIN s /\ t[i] = s[g[i]]) \/ (i = p /\ t[i] = x)
    BY DEF Grown
  <1>2. ASSUME NEW k \in DOMAIN t, NEW l \in DOMAIN t, Visible(t[k]) = Visible(t[l])
        PROVE  k = l
    <2>1. CASE g[k] \in DOMAIN s /\ t[k] = s[g[k]] /\ g[l] \in DOMAIN s /\ t[l] = s[g[l]]
      BY <1>1, <1>2, <2>1 DEF Distinct
    <2>2. CASE k = p /\ t[k] = x
      BY <1>1, <1>2, <2>2
    <2>3. CASE l = p /\ t[l] = x
      BY <1>1, <1>2, <2>3
    <2> QED BY <1>1, <2>1, <2>2, <2>3
  <1> QED BY <1>2 DEF Distinct

(* The places before each place of 1 .. n, in an order of all of them.     *)
Orders(ahead, n) ==
  /\ ahead \in [1 .. n -> SUBSET (1 .. n)]
  /\ \A j \in 1 .. n : j \notin ahead[j]
  /\ \A k, j \in 1 .. n : k \in ahead[j] => ahead[k] \subseteq ahead[j]
  /\ \A k, j \in 1 .. n : k # j => k \in ahead[j] \/ j \in ahead[k]

(* For each i in 1 .. n there is a place that i - 1 places are before.     *)
LEMMA EveryRank ==
  ASSUME NEW n \in Nat, NEW ahead, Orders(ahead, n), NEW i \in 1 .. n
  PROVE  \E j \in 1 .. n : Cardinality(ahead[j]) = i - 1
  <1> DEFINE N == 1 .. n
             r == [j \in N |-> Cardinality(ahead[j]) + 1]
  <1>1. IsFiniteSet(N) /\ Cardinality(N) = n
    BY FS_Interval
  <1>2. ASSUME NEW j \in N
        PROVE  IsFiniteSet(ahead[j]) /\ Cardinality(ahead[j]) \in 0 .. n - 1
    <2>1. IsFiniteSet(N \ {j}) /\ Cardinality(N \ {j}) = n - 1
      BY <1>1, FS_RemoveElement
    <2>2. ahead[j] \in SUBSET (N \ {j})
      BY DEF Orders
    <2>3. IsFiniteSet(ahead[j]) /\ Cardinality(ahead[j]) <= n - 1
      BY <2>1, <2>2, FS_Subset
    <2>4. Cardinality(ahead[j]) \in Nat
      BY <2>3, FS_CardinalityType
    <2> QED BY <2>3, <2>4
  <1>3. ASSUME NEW k \in N, NEW j \in N, k \in ahead[j]
        PROVE  Cardinality(ahead[k]) # Cardinality(ahead[j])
    <2>1. ahead[k] \in SUBSET ahead[j] /\ k \notin ahead[k]
      BY <1>3 DEF Orders
    <2>2. ahead[k] # ahead[j]
      BY <1>3, <2>1
    <2> QED BY <1>2, <2>1, <2>2, FS_Subset
  <1>4. ASSUME NEW k \in N, NEW j \in N, k # j
        PROVE  Cardinality(ahead[k]) # Cardinality(ahead[j])
    <2>1. k \in ahead[j] \/ j \in ahead[k]
      BY <1>4 DEF Orders
    <2> QED BY <2>1, <1>3
  <1>5. r \in [N -> N]
    <2>1. \A c \in 0 .. n - 1 : c + 1 \in N
      OBVIOUS
    <2> QED BY <1>2, <2>1
  <1>6. \A k, j \in N : r[k] = r[j] => k = j
    <2>1. \A a, c \in 0 .. n - 1 : a + 1 = c + 1 => a = c
      OBVIOUS
    <2> QED BY <1>2, <1>4, <2>1
  <1>7. r \in Injection(N, N)
    <2> HIDE DEF r
    <2> QED BY <1>5, <1>6 DEF Injection, IsInjective
  <1>8. r \in Surjection(N, N)
    <2> HIDE DEF r, N
    <2> QED BY <1>1, <1>7, FS_Injection
  <1>9. PICK j \in N : r[j] = i
    BY <1>8 DEF Surjection
  <1>10. \A c \in 0 .. n - 1 : c + 1 = i => c = i - 1
    OBVIOUS
  <1> QED BY <1>2, <1>9, <1>10

(* Each element of t is from a place of its own in s.                      *)
Rearranges(t, s) ==
  /\ DOMAIN t = DOMAIN s
  /\ \E g \in [DOMAIN s -> DOMAIN s] : /\ \A i, j \in DOMAIN s : g[i] = g[j] => i = j
                                       /\ \A i \in DOMAIN s : t[i] = s[g[i]]

(* So an arranged sequence has the elements of the other.                  *)
LEMMA ArrangedIs ==
  ASSUME NEW T, NEW s \in Seq(T), NEW ahead, Orders(ahead, Len(s))
  PROVE  Arranged(s, ahead) \in Seq(T) /\ Rearranges(Arranged(s, ahead), s)
  <1> DEFINE n == Len(s)
             N == DOMAIN s
             g == [i \in N |-> CHOOSE j \in N : Cardinality(ahead[j]) = i - 1]
             t == Arranged(s, ahead)
  <1>1. n \in Nat /\ N = 1 .. n /\ \A i \in N : s[i] \in T
    OBVIOUS
  <1>2. ASSUME NEW i \in N
        PROVE  g[i] \in N /\ Cardinality(ahead[g[i]]) = i - 1
    <2>1. \E j \in N : Cardinality(ahead[j]) = i - 1
      BY <1>1, EveryRank
    <2> QED BY <2>1
  <1>3. g \in [N -> N]
    BY <1>2
  <1>4. \A i, j \in N : g[i] = g[j] => i = j
    <2>1. \A i, j \in N : i - 1 = j - 1 => i = j
      BY <1>1
    <2> HIDE DEF g
    <2> QED BY <1>2, <2>1
  <1>5. t = [i \in N |-> s[g[i]]]
    BY DEF Arranged
  <1> HIDE DEF g
  <1>6. t \in [1 .. n -> T]
    BY <1>1, <1>3, <1>5
  <1>7. t \in Seq(T)
    BY <1>1, <1>6
  <1>8. DOMAIN t = N /\ \A i \in N : t[i] = s[g[i]]
    BY <1>5
  <1> QED BY <1>3, <1>4, <1>7, <1>8 DEF Rearranges

(* It has grown by nothing.                                                *)
LEMMA ArrangedGrows ==
  ASSUME NEW t, NEW T, NEW s \in Seq(T), Rearranges(t, s), NEW x
  PROVE  Grown(t, s, x, 0) /\ 0 \notin DOMAIN t
  <1>1. DOMAIN t = 1 .. Len(s) /\ Len(s) \in Nat
    BY DEF Rearranges
  <1>2. Grown(t, s, x, 0)
    BY DEF Rearranges, Grown
  <1> QED BY <1>1, <1>2

(* Names are ordered by their numbers, then by their places.               *)
LEMMA NamesOrdered ==
  ASSUME NEW named \in Seq(Specifier)
  PROVE  Orders(NameOrder(named), Len(named))
  <1> DEFINE N == 1 .. Len(named)
             ahead == NameOrder(named)
  <1>1. DOMAIN named = N /\ N \subseteq Nat /\ \A i \in N : named[i].name \in Nat
    <2>1. \A i \in N : named[i] \in Specifier
      OBVIOUS
    <2> QED BY <2>1 DEF Specifier
  <1>2. /\ ahead \in [N -> SUBSET N]
        /\ \A k, j \in N : k \in ahead[j] <=>
             named[k].name < named[j].name \/ (named[k].name = named[j].name /\ k < j)
    BY <1>1 DEF NameOrder
  <1> HIDE DEF N, ahead
  <1>3. \A j \in N : j \notin ahead[j]
    BY <1>1, <1>2
  <1>4. ASSUME NEW k \in N, NEW j \in N, k \in ahead[j], NEW i \in ahead[k]
        PROVE  i \in ahead[j]
    <2>1. i \in N
      BY <1>2
    <2> QED BY <1>1, <1>2, <1>4, <2>1
  <1>5. \A k, j \in N : k # j => k \in ahead[j] \/ j \in ahead[k]
    BY <1>1, <1>2
  <1> QED BY <1>2, <1>3, <1>4, <1>5 DEF Orders, N, ahead

(* Module names have an order: none precedes itself, ...                   *)
LEMMA PrecedesNotItself ==
  ASSUME NEW a \in ModuleName
  PROVE  ~Precedes(a, a)
  <1>1. a \in Seq(Nat) /\ \A k \in 1 .. Len(a) : a[k] \in Nat /\ ~(Len(a) < k)
    BY DEF ModuleName
  <1> QED BY <1>1 DEF Precedes

(* ... what precedes one precedes those behind it, ...                     *)
LEMMA PrecedesOn ==
  ASSUME NEW a \in ModuleName, NEW b \in ModuleName, NEW c \in ModuleName, Precedes(a, b), Precedes(b, c)
  PROVE  Precedes(a, c)
  <1>1. /\ Len(a) \in Nat /\ Len(b) \in Nat /\ Len(c) \in Nat
        /\ \A k \in 1 .. Len(a) : a[k] \in Nat
        /\ \A k \in 1 .. Len(b) : b[k] \in Nat
        /\ \A k \in 1 .. Len(c) : c[k] \in Nat
    BY DEF ModuleName
  <1>2. PICK k \in 1 .. Len(b) : /\ Len(a) >= k - 1 /\ \A i \in 1 .. (k - 1) : a[i] = b[i]
                                 /\ Len(a) < k \/ a[k] < b[k]
    BY DEF Precedes
  <1>3. PICK l \in 1 .. Len(c) : /\ Len(b) >= l - 1 /\ \A i \in 1 .. (l - 1) : b[i] = c[i]
                                 /\ Len(b) < l \/ b[l] < c[l]
    BY DEF Precedes
  <1>4. CASE k < l
    <2>1. k \in 1 .. Len(c) /\ b[k] = c[k]
      BY <1>1, <1>3, <1>4
    <2>2. \A i \in 1 .. (k - 1) : a[i] = c[i]
      BY <1>1, <1>2, <1>3, <1>4
    <2> QED BY <1>2, <2>1, <2>2 DEF Precedes
  <1>5. CASE l < k
    <2>1. Len(a) >= l - 1 /\ l \in 1 .. Len(a) /\ l \in 1 .. Len(b) /\ a[l] = b[l]
      BY <1>1, <1>2, <1>5
    <2>2. \A i \in 1 .. (l - 1) : a[i] = c[i]
      BY <1>1, <1>2, <1>3, <1>5
    <2>3. ~(Len(b) < l)
      BY <1>1, <2>1
    <2> QED BY <1>3, <2>1, <2>2, <2>3 DEF Precedes
  <1>6. CASE k = l
    <2>1. \A i \in 1 .. (l - 1) : a[i] = c[i]
      BY <1>2, <1>3, <1>6
    <2>2. ~(Len(b) < l) /\ b[l] < c[l]
      BY <1>1, <1>2, <1>3, <1>6
    <2>3. Len(a) >= l - 1 /\ (Len(a) < l \/ a[l] < b[l])
      BY <1>2, <1>6
    <2>4. Len(a) < l \/ a[l] < c[l]
      <3>1. CASE Len(a) < l
        BY <3>1
      <3>2. CASE ~(Len(a) < l)
        <4>1. l \in 1 .. Len(a) /\ l \in 1 .. Len(b) /\ l \in 1 .. Len(c)
          BY <1>1, <1>2, <1>3, <1>6, <3>2
        <4>2. a[l] \in Nat /\ b[l] \in Nat /\ c[l] \in Nat /\ a[l] < b[l] /\ b[l] < c[l]
          BY <1>1, <2>2, <2>3, <3>2, <4>1
        <4> QED BY <4>2
      <3> QED BY <3>1, <3>2
    <2> QED BY <2>1, <2>3, <2>4 DEF Precedes
  <1> QED BY <1>1, <1>4, <1>5, <1>6

(* ... and of two that differ one precedes the other.                      *)
LEMMA PrecedesEither ==
  ASSUME NEW a \in ModuleName, NEW b \in ModuleName, a # b
  PROVE  Precedes(a, b) \/ Precedes(b, a)
  <1>1. a \in Seq(Nat) /\ b \in Seq(Nat)
    BY DEF ModuleName
  <1>2. /\ Len(a) \in Nat /\ Len(b) \in Nat
        /\ \A k \in 1 .. Len(a) : a[k] \in Nat
        /\ \A k \in 1 .. Len(b) : b[k] \in Nat
    BY <1>1
  <1> DEFINE Differs == {k \in Nat \ {0} : (k <= Len(a) /\ k <= Len(b)) => a[k] # b[k]}
  <1>3. Len(a) + 1 \in Differs
    BY <1>2
  <1>4. PICK k \in Differs : \A l \in Differs : k <= l
    <2>1. Differs \subseteq Nat /\ Differs # {}
      BY <1>3
    <2> HIDE DEF Differs
    <2> QED BY <2>1, Least
  <1>5. \A i \in 1 .. (k - 1) : i \notin Differs
    <2> SUFFICES ASSUME NEW i \in 1 .. (k - 1), i \in Differs PROVE FALSE
      OBVIOUS
    <2>1. k <= i
      BY <1>4
    <2> QED BY <2>1
  <1>6. \A i \in 1 .. (k - 1) : i <= Len(a) /\ i <= Len(b) /\ a[i] = b[i]
    BY <1>5
  <1>7. k - 1 <= Len(a) /\ k - 1 <= Len(b)
    <2>1. CASE k = 1
      BY <2>1, <1>2
    <2>2. CASE k # 1
      <3>1. k - 1 \in 1 .. (k - 1)
        BY <2>2
      <3> QED BY <3>1, <1>6
    <2> QED BY <2>1, <2>2
  <1>8. CASE k <= Len(a) /\ k <= Len(b)
    <2>1. k \in 1 .. Len(a) /\ k \in 1 .. Len(b) /\ a[k] # b[k]
      BY <1>8
    <2>2. a[k] < b[k] \/ b[k] < a[k]
      BY <2>1, <1>2
    <2> QED BY <2>1, <2>2, <1>2, <1>6, <1>7 DEF Precedes
  <1>9. CASE k <= Len(b) /\ Len(a) < k
    <2>1. k \in 1 .. Len(b)
      BY <1>9
    <2> QED BY <2>1, <1>9, <1>2, <1>6, <1>7 DEF Precedes
  <1>10. CASE k <= Len(a) /\ Len(b) < k
    <2>1. k \in 1 .. Len(a)
      BY <1>10
    <2>2. \A i \in 1 .. (k - 1) : b[i] = a[i]
      BY <1>6
    <2> QED BY <2>1, <2>2, <1>10, <1>2, <1>7 DEF Precedes
  <1>11. CASE Len(a) < k /\ Len(b) < k
    <2>1. Len(a) = k - 1 /\ Len(b) = k - 1
      BY <1>2, <1>7, <1>11
    <2>2. a = b
      BY <1>1, <2>1, <1>6
    <2> QED BY <2>2
  <1> QED BY <1>2, <1>8, <1>9, <1>10, <1>11

(* Places are apart when a side-effect import is on the way; k may go      *)
(* between.                                                                *)
LEMMA ApartIs ==
  ASSUME NEW ds \in Seq(Declaration), NEW i \in DOMAIN ds, NEW k \in DOMAIN ds, NEW j \in DOMAIN ds
  PROVE  /\ Apart(ds, i, k) /\ i < k /\ (Apart(ds, k, j) => k < j) => Apart(ds, i, j) /\ i < j
         /\ Apart(ds, k, j) /\ k < j /\ (Apart(ds, i, k) => i < k) => Apart(ds, i, j) /\ i < j
         /\ ~Apart(ds, i, k) /\ ~Apart(ds, k, j) => ~Apart(ds, i, j)
  <1> DEFINE N == DOMAIN ds
             B == {b \in N : Bare(ds[b])}
             Between(b, x, y) == (x <= b /\ b <= y) \/ (y <= b /\ b <= x)
  <1>1. N \subseteq Nat
    OBVIOUS
  <1>2. \A x, y \in N : Apart(ds, x, y) <=> \E b \in B : Between(b, x, y)
    BY DEF Apart
  <1>3. \A b \in N : Between(b, i, j) => Between(b, i, k) \/ Between(b, k, j)
    BY <1>1
  <1>4. \A b \in N : Between(b, i, k) /\ i < k /\ ~Between(b, k, j) => Between(b, i, j) /\ i < j
    BY <1>1
  <1>5. \A b \in N : Between(b, k, j) /\ k < j /\ ~Between(b, i, k) => Between(b, i, j) /\ i < j
    BY <1>1
  <1>6. i < k /\ k < j => i < j /\ \A b \in N : Between(b, i, k) => Between(b, i, j)
    BY <1>1
  <1>7. i < k /\ k < j => \A b \in N : Between(b, k, j) => Between(b, i, j)
    BY <1>1
  <1> HIDE DEF Between, B
  <1>8. \A b \in B : b \in N
    BY DEF B
  <1>9. ASSUME Apart(ds, i, k), i < k, Apart(ds, k, j) => k < j PROVE Apart(ds, i, j) /\ i < j
    <2>1. CASE Apart(ds, k, j)
      BY <2>1, <1>9, <1>2, <1>6, <1>8
    <2>2. CASE ~Apart(ds, k, j)
      BY <2>2, <1>9, <1>2, <1>4, <1>8
    <2> QED BY <2>1, <2>2
  <1>10. ASSUME Apart(ds, k, j), k < j, Apart(ds, i, k) => i < k PROVE Apart(ds, i, j) /\ i < j
    <2>1. CASE Apart(ds, i, k)
      BY <2>1, <1>10, <1>2, <1>6, <1>8
    <2>2. CASE ~Apart(ds, i, k)
      BY <2>2, <1>10, <1>2, <1>5, <1>8
    <2> QED BY <2>1, <2>2
  <1>11. ASSUME ~Apart(ds, i, k), ~Apart(ds, k, j) PROVE ~Apart(ds, i, j)
    BY <1>11, <1>2, <1>3, <1>8
  <1> QED BY <1>9, <1>10, <1>11

(* So there is an order of the declarations that never takes one across a  *)
(* side-effect import, and sortImports can follow it.                      *)
LEMMA ImportsOrdered ==
  ASSUME NEW ds \in Seq(Declaration)
  PROVE  Orders(ImportOrder(ds), Len(ds))
  <1> DEFINE N == DOMAIN ds
             ahead == ImportOrder(ds)
  <1>1. N = 1 .. Len(ds) /\ N \subseteq Nat /\ \A i \in N : ds[i].from \in ModuleName
    <2>1. \A i \in N : ds[i] \in Declaration
      OBVIOUS
    <2> QED BY <2>1 DEF Declaration
  <1>2. /\ ahead \in [N -> SUBSET N]
        /\ \A k, j \in N : k \in ahead[j] <=> IF Apart(ds, k, j) \/ ds[k].from = ds[j].from THEN k < j
                                             ELSE Precedes(ds[k].from, ds[j].from)
    BY DEF ImportOrder
  <1> HIDE DEF ahead
  <1>3. \A j \in N : j \notin ahead[j]
    BY <1>1, <1>2
  <1>4. ASSUME NEW k \in N, NEW j \in N, k \in ahead[j], NEW i \in ahead[k]
        PROVE  i \in ahead[j]
    <2>1. i \in N /\ (Apart(ds, i, k) => i < k) /\ (Apart(ds, k, j) => k < j)
      BY <1>2, <1>4
    <2>2. CASE Apart(ds, i, k) \/ Apart(ds, k, j)
      <3>1. Apart(ds, i, j) /\ i < j
        BY <2>1, <2>2, ApartIs
      <3> QED BY <3>1, <2>1, <1>2
    <2>3. CASE ~Apart(ds, i, k) /\ ~Apart(ds, k, j)
      <3>1. ~Apart(ds, i, j)
        BY <2>1, <2>3, ApartIs
      <3>2. CASE ds[i].from = ds[k].from /\ ds[k].from = ds[j].from
        <4>1. i < k /\ k < j
          BY <3>2, <2>1, <1>2, <1>4
        <4>2. i < j
          BY <4>1, <2>1, <1>1
        <4> QED BY <3>2, <4>2, <2>1, <1>2
      <3>3. CASE ds[i].from # ds[k].from \/ ds[k].from # ds[j].from
        <4>1. /\ ds[i].from # ds[k].from => Precedes(ds[i].from, ds[k].from)
              /\ ds[k].from # ds[j].from => Precedes(ds[k].from, ds[j].from)
          BY <2>1, <2>3, <1>2, <1>4
        <4>2. Precedes(ds[i].from, ds[j].from)
          BY <3>3, <4>1, <2>1, <1>1, PrecedesOn
        <4>3. ds[i].from # ds[j].from
          BY <4>2, <2>1, <1>1, PrecedesNotItself
        <4> QED BY <4>2, <4>3, <3>1, <2>1, <1>2
      <3> QED BY <3>2, <3>3
    <2> QED BY <2>2, <2>3
  <1>5. ASSUME NEW k \in N, NEW j \in N, k # j PROVE k \in ahead[j] \/ j \in ahead[k]
    <2>1. Apart(ds, k, j) <=> Apart(ds, j, k)
      BY DEF Apart
    <2>2. k < j \/ j < k
      BY <1>1, <1>5
    <2>3. CASE Apart(ds, k, j) \/ ds[k].from = ds[j].from
      BY <2>1, <2>2, <2>3, <1>2
    <2>4. CASE ~Apart(ds, k, j) /\ ds[k].from # ds[j].from
      <3>1. Precedes(ds[k].from, ds[j].from) \/ Precedes(ds[j].from, ds[k].from)
        BY <2>4, <1>1, PrecedesEither
      <3> QED BY <3>1, <2>1, <2>4, <1>2
    <2> QED BY <2>3, <2>4
  <1> HIDE DEF N
  <1>6. \A k, j \in N : k \in ahead[j] => ahead[k] \subseteq ahead[j]
    BY <1>4
  <1> QED BY <1>1, <1>2, <1>3, <1>5, <1>6 DEF Orders, ahead

-----------------------------------------------------------------------------
(* Files.                                                                  *)

(* A name that is not claimed is free.                                     *)
LEMMA FreeIs ==
  ASSUME NEW f \in File, NEW n, ~Claimed(f, n)
  PROVE  /\ \A i \in DOMAIN f.imports : \A b \in Imported(f.imports[i]) : b.local # n
         /\ \A v \in f.locals : v.value => v.name # n
  <1>1. ASSUME NEW d \in ToSet(f.imports), NEW b \in Imported(d)
        PROVE  \E c \in BoundNames(d) : c.local = b.local
    <2>1. ASSUME NEW m \in {d.def, d.ns} \ {Absent}, b.local = m PROVE \E c \in BoundNames(d) : c.local = b.local
      <3> DEFINE c == [local |-> m, whole |-> TRUE, plain |-> TRUE, value |-> ~d.type]
      <3>1. c \in BoundNames(d)
        BY Zenon DEF BoundNames
      <3>2. c.local = m
        OBVIOUS
      <3> QED BY <2>1, <3>1, <3>2
    <2>2. ASSUME NEW s \in ToSet(d.named), b.local = Visible(s) PROVE \E c \in BoundNames(d) : c.local = b.local
      <3> DEFINE c == [local |-> Visible(s), whole |-> FALSE, plain |-> s.as \in {Absent, s.name},
                       value |-> ~d.type /\ ~s.type]
      <3>1. c \in BoundNames(d)
        BY Zenon DEF BoundNames
      <3>2. c.local = Visible(s)
        OBVIOUS
      <3> QED BY <2>2, <3>1, <3>2
    <2>3. \/ \E m \in {d.def, d.ns} \ {Absent} : b.local = m
          \/ \E s \in ToSet(d.named) : b.local = Visible(s)
      BY DEF Imported
    <2> QED BY <2>1, <2>2, <2>3
  <1>2. \A i \in DOMAIN f.imports : f.imports[i] \in ToSet(f.imports)
    BY DEF ToSet
  <1> QED BY <1>1, <1>2 DEF Claimed

(* The parts of a file.                                                    *)
LEMMA Parts ==
  ASSUME NEW f \in File
  PROVE  /\ f.imports \in Seq(Declaration) /\ f.exports \in Seq(Export)
         /\ f.locals \in SUBSET [name: Nat \ {0}, value: BOOLEAN, exported: BOOLEAN]
         /\ f.list \in [usable: BOOLEAN, names: SUBSET Nat]
         /\ f.routes \in Seq([path: Nat, to: Nat]) /\ f.members \in SUBSET [name: Nat, call: Nat]
  BY DEF File

LEMMA DefaultPlaceIs ==
  ASSUME NEW f \in File
  PROVE  DefaultPlace(f) \in 1 .. Len(f.imports) + 1
  BY Parts DEF DefaultPlace

(* Every declaration is allowed, comes from another place than the others  *)
(* and binds what the one in that place did, or, in one place, one free    *)
(* name besides.                                                           *)
Follows(f, es, g, p, z) ==
  /\ \A i, j \in DOMAIN es : g[i] = g[j] => i = j
  /\ \A i \in DOMAIN es : Allowed(es[i])
  /\ \A i \in DOMAIN es : \A b \in Imported(es[i]) :
       \/ g[i] \in DOMAIN f.imports /\ b \in Imported(f.imports[g[i]])
       \/ i = p /\ b = z /\ ~Claimed(f, z.local)

(* With such declarations a file stays one the compiler takes.             *)
LEMMA Rebound ==
  ASSUME NEW f \in File, Compilable(f), NEW es \in Seq(Declaration), NEW g, NEW p, NEW z, Follows(f, es, g, p, z)
  PROVE  [f EXCEPT !.imports = es] \in File /\ Compilable([f EXCEPT !.imports = es])
  <1> DEFINE new == [f EXCEPT !.imports = es]
  <1>1. new \in File /\ new.imports = es /\ new.exports = f.exports /\ new.locals = f.locals
    BY DEF File
  <1> HIDE DEF new
  <1>2. BoundOnce(f.imports)
    BY DEF Compilable
  <1>3. ~Claimed(f, z.local) =>
          /\ \A i \in DOMAIN f.imports : \A b \in Imported(f.imports[i]) : b.local # z.local
          /\ \A v \in f.locals : v.value => v.name # z.local
    BY FreeIs
  <1>4. BoundOnce(es)
    <2> SUFFICES ASSUME NEW i \in DOMAIN es, NEW j \in DOMAIN es,
                        NEW b \in Imported(es[i]), NEW c \in Imported(es[j]), b.local = c.local
                 PROVE  i = j /\ b = c
      BY DEF BoundOnce
    <2>1. /\ (g[i] \in DOMAIN f.imports /\ b \in Imported(f.imports[g[i]])) \/ (i = p /\ b = z /\ ~Claimed(f, z.local))
          /\ (g[j] \in DOMAIN f.imports /\ c \in Imported(f.imports[g[j]])) \/ (j = p /\ c = z /\ ~Claimed(f, z.local))
      BY DEF Follows
    <2>2. CASE i = p /\ b = z /\ ~Claimed(f, z.local)
      BY <2>1, <2>2, <1>3
    <2>3. CASE j = p /\ c = z /\ ~Claimed(f, z.local)
      BY <2>1, <2>3, <1>3
    <2>4. CASE /\ g[i] \in DOMAIN f.imports /\ b \in Imported(f.imports[g[i]])
               /\ g[j] \in DOMAIN f.imports /\ c \in Imported(f.imports[g[j]])
      BY <2>4, <1>2 DEF BoundOnce, Follows
    <2> QED BY <2>1, <2>2, <2>3, <2>4
  <1>5. \A d \in ToSet(es) : Allowed(d)
    BY DEF ToSet, Follows
  <1>6. ASSUME NEW b \in Bindings(new), NEW v \in new.locals, v.value
        PROVE  b.local # v.name
    <2>1. PICK i \in DOMAIN es : b \in Imported(es[i])
      BY <1>1 DEF Bindings, ToSet
    <2>2. CASE g[i] \in DOMAIN f.imports /\ b \in Imported(f.imports[g[i]])
      <3>1. b \in Bindings(f)
        BY <2>2 DEF Bindings, ToSet
      <3> QED BY <3>1, <1>1, <1>6 DEF Compilable
    <2>3. CASE b = z /\ ~Claimed(f, z.local)
      BY <2>3, <1>1, <1>3, <1>6
    <2>4. (g[i] \in DOMAIN f.imports /\ b \in Imported(f.imports[g[i]])) \/ (b = z /\ ~Claimed(f, z.local))
      BY <2>1 DEF Follows
    <2> QED BY <2>2, <2>3, <2>4
  <1>7. Reexports(new) = Reexports(f)
    BY <1>1 DEF Reexports
  <1>8. Compilable(new)
    <2>1. /\ ExportedOnce(new.exports) /\ \A e \in ToSet(new.exports) : Distinct(e.named)
          /\ \A v, w \in new.locals : v.value /\ w.value /\ v.name = w.name => v = w
          /\ \A x \in Reexports(new), v \in new.locals : v.exported => x.visible # v.name
      BY <1>1, <1>7 DEF Compilable
    <2> QED BY <1>1, <1>4, <1>5, <1>6, <2>1 DEF Compilable
  <1> QED BY <1>1, <1>8 DEF new

(* So when a declaration is put in, ...                                    *)
LEMMA PutIn ==
  ASSUME NEW f \in File, Compilable(f), NEW q \in 1 .. Len(f.imports) + 1, NEW d \in Declaration, Allowed(d),
         NEW z, \A b \in Imported(d) : b = z /\ ~Claimed(f, z.local)
  PROVE  InsertImport(f, d, q) \in File /\ Compilable(InsertImport(f, d, q))
  <1>1. f.imports \in Seq(Declaration) /\ \A i \in DOMAIN f.imports : Allowed(f.imports[i])
    BY Parts DEF Compilable, ToSet
  <1>2. PICK es : es = InsertAt(f.imports, q, d)
    OBVIOUS
  <1>3. es \in Seq(Declaration) /\ Grown(es, f.imports, d, q)
    <2>1. InsertAt(f.imports, q, d) \in Seq(Declaration) /\ Grown(InsertAt(f.imports, q, d), f.imports, d, q)
      BY <1>1, InsertGrows
    <2> QED BY <1>2, <2>1
  <1>4. PICK g : /\ \A i, j \in DOMAIN es : g[i] = g[j] => i = j
                 /\ \A i \in DOMAIN es : (g[i] \in DOMAIN f.imports /\ es[i] = f.imports[g[i]]) \/ (i = q /\ es[i] = d)
    BY <1>3 DEF Grown
  <1>5. Follows(f, es, g, q, z)
    BY <1>1, <1>4 DEF Follows
  <1>6. InsertImport(f, d, q) = [f EXCEPT !.imports = es]
    BY <1>2 DEF InsertImport
  <1> QED BY <1>3, <1>5, <1>6, Rebound

(* ... changed in place, ...                                               *)
LEMMA Changed ==
  ASSUME NEW f \in File, Compilable(f), NEW p \in DOMAIN f.imports, NEW d \in Declaration, Allowed(d),
         NEW z, \A b \in Imported(d) : b \in Imported(f.imports[p]) \/ (b = z /\ ~Claimed(f, z.local))
  PROVE  [f EXCEPT !.imports[p] = d] \in File /\ Compilable([f EXCEPT !.imports[p] = d])
  <1> DEFINE ds == f.imports
             es == [ds EXCEPT ![p] = d]
             g == [i \in DOMAIN ds |-> i]
  <1>1. ds \in Seq(Declaration)
    BY Parts
  <1>2. /\ es \in Seq(Declaration) /\ DOMAIN es = DOMAIN ds
        /\ \A i \in DOMAIN ds : es[i] = IF i = p THEN d ELSE ds[i]
    BY <1>1
  <1>3. \A i \in DOMAIN ds : Allowed(ds[i])
    BY DEF Compilable, ToSet
  <1>4. [f EXCEPT !.imports[p] = d] = [f EXCEPT !.imports = es]
    BY DEF File
  <1>5. \A i, j \in DOMAIN es : g[i] = g[j] => i = j
    BY <1>2
  <1>6. \A i \in DOMAIN es : Allowed(es[i])
    BY <1>2, <1>3
  <1>7. \A i \in DOMAIN es : \A b \in Imported(es[i]) :
          \/ g[i] \in DOMAIN ds /\ b \in Imported(ds[g[i]])
          \/ i = p /\ b = z /\ ~Claimed(f, z.local)
    BY <1>2
  <1> HIDE DEF es, g
  <1>8. Follows(f, es, g, p, z)
    BY <1>5, <1>6, <1>7 DEF Follows
  <1> QED BY <1>2, <1>4, <1>8, Rebound

(* ... or taken out.                                                       *)
LEMMA TakenOut ==
  ASSUME NEW f \in File, Compilable(f), NEW p \in DOMAIN f.imports
  PROVE  LET new == [f EXCEPT !.imports = RemoveAt(@, p)] IN new \in File /\ Compilable(new)
  <1>1. f.imports \in Seq(Declaration) /\ \A i \in DOMAIN f.imports : Allowed(f.imports[i])
    BY Parts DEF Compilable, ToSet
  <1>2. PICK es : es = RemoveAt(f.imports, p)
    OBVIOUS
  <1>3. PICK z : z = 0
    OBVIOUS
  <1>4. es \in Seq(Declaration) /\ Grown(es, f.imports, z, 0) /\ 0 \notin DOMAIN es
    BY <1>1, <1>2, RemoveShrinks
  <1>5. PICK g : /\ \A i, j \in DOMAIN es : g[i] = g[j] => i = j
                 /\ \A i \in DOMAIN es : g[i] \in DOMAIN f.imports /\ es[i] = f.imports[g[i]]
    BY <1>4 DEF Grown
  <1>6. Follows(f, es, g, 0, z)
    BY <1>1, <1>5 DEF Follows
  <1> QED BY <1>2, <1>4, <1>6, Rebound

-----------------------------------------------------------------------------
(* Declarations.                                                           *)

(* What a declaration binds as a whole, and by a name in its braces.       *)
Whole(d, n, what) == [local |-> n, from |-> d.from, what |-> what, value |-> ~d.type]
Named(d, s) == [local |-> Visible(s), from |-> d.from, what |-> <<"name", s.name>>, value |-> ~d.type /\ ~s.type]

(* Its bindings are those.                                                 *)
LEMMA ImportedIs ==
  ASSUME NEW d, NEW b
  PROVE  b \in Imported(d) <=>
           \/ d.def # Absent /\ b = Whole(d, d.def, <<"default">>)
           \/ d.ns # Absent /\ b = Whole(d, d.ns, <<"all">>)
           \/ \E s \in ToSet(d.named) : b = Named(d, s)
  <1>1. b \in {[local |-> d.def, from |-> d.from, what |-> <<"default">>, value |-> ~d.type] : n \in {d.def} \ {Absent}}
          <=> d.def # Absent /\ b = Whole(d, d.def, <<"default">>)
    BY Zenon DEF Whole
  <1>2. b \in {[local |-> d.ns, from |-> d.from, what |-> <<"all">>, value |-> ~d.type] : n \in {d.ns} \ {Absent}}
          <=> d.ns # Absent /\ b = Whole(d, d.ns, <<"all">>)
    BY Zenon DEF Whole
  <1>3. b \in {[local |-> Visible(s), from |-> d.from, what |-> <<"name", s.name>>,
                value |-> ~d.type /\ ~s.type] : s \in ToSet(d.named)}
          <=> \E s \in ToSet(d.named) : b = Named(d, s)
    BY Zenon DEF Named
  <1> QED BY <1>1, <1>2, <1>3, Zenon DEF Imported

(* A name as it is has no alias.                                           *)
LEMMA PlainIs ==
  ASSUME NEW n \in Nat \ {0}
  PROVE  /\ Plain(n) \in Specifier /\ Visible(Plain(n)) = n /\ Plain(n) # Plain(Absent)
         /\ \A d : Named(d, Plain(n)).local = n
         /\ \A d, what : Whole(d, n, what).local = n
  <1>1. Plain(n) \in Specifier /\ Visible(Plain(n)) = n /\ Plain(n).name = n /\ Plain(Absent).name = 0
    BY DEF Plain, Specifier, Visible, Absent
  <1> QED BY <1>1 DEF Named, Whole

(* Braces with other names in them, one of them new.                       *)
LEMMA OtherNames ==
  ASSUME NEW d \in Declaration, Allowed(d), NEW t \in Seq(Specifier), NEW x, NEW p,
         Grown(t, d.named, x, p),
         p \in DOMAIN t => d.braces /\ \A k \in DOMAIN d.named : Visible(d.named[k]) # Visible(x)
  PROVE  /\ [d EXCEPT !.named = t] \in Declaration /\ Allowed([d EXCEPT !.named = t])
         /\ \A b \in Imported([d EXCEPT !.named = t]) :
              b \in Imported(d) \/ (b = Named(d, x) /\ p \in DOMAIN t)
  <1> DEFINE e == [d EXCEPT !.named = t]
  <1>1. /\ e \in Declaration /\ e.named = t /\ e.from = d.from /\ e.type = d.type
        /\ e.def = d.def /\ e.ns = d.ns /\ e.braces = d.braces
    BY DEF Declaration
  <1> HIDE DEF e
  <1>2. Allowed(e)
    <2>1. Distinct(t)
      BY StayDistinct DEF Allowed
    <2>2. ~d.braces => t = <<>>
      <3> SUFFICES ASSUME ~d.braces PROVE t = <<>>
        OBVIOUS
      <3>1. DOMAIN d.named = {} /\ p \notin DOMAIN t
        BY DEF Allowed
      <3>2. DOMAIN t = {}
        BY <3>1 DEF Grown
      <3> QED BY <3>2
    <2> QED BY <1>1, <2>1, <2>2 DEF Allowed
  <1>3. /\ \A n, what : Whole(e, n, what) = Whole(d, n, what)
        /\ \A s : Named(e, s) = Named(d, s)
    BY <1>1 DEF Whole, Named
  <1>4. ASSUME NEW b \in Imported(e) PROVE b \in Imported(d) \/ (b = Named(d, x) /\ p \in DOMAIN t)
    <2>1. \/ d.def # Absent /\ b = Whole(d, d.def, <<"default">>)
          \/ d.ns # Absent /\ b = Whole(d, d.ns, <<"all">>)
          \/ \E s \in ToSet(t) : b = Named(d, s)
      <3>1. \/ e.def # Absent /\ b = Whole(e, e.def, <<"default">>)
            \/ e.ns # Absent /\ b = Whole(e, e.ns, <<"all">>)
            \/ \E s \in ToSet(e.named) : b = Named(e, s)
        BY <1>4, ImportedIs, Zenon
      <3> QED BY <3>1, <1>1, <1>3
    <2>2. \A s \in ToSet(t) : s \in ToSet(d.named) \/ (p \in DOMAIN t /\ s = x)
      BY GrownIs
    <2>3. CASE \E s \in ToSet(t) : b = Named(d, s)
      <3>1. PICK s \in ToSet(t) : b = Named(d, s)
        BY <2>3
      <3>2. CASE s \in ToSet(d.named)
        BY <3>1, <3>2, ImportedIs, Zenon
      <3> QED BY <2>2, <3>1, <3>2
    <2>4. CASE \/ d.def # Absent /\ b = Whole(d, d.def, <<"default">>)
               \/ d.ns # Absent /\ b = Whole(d, d.ns, <<"all">>)
      BY <2>4, ImportedIs, Zenon
    <2> QED BY <2>1, <2>3, <2>4
  <1> QED BY <1>1, <1>2, <1>4 DEF e

(* A declaration of a value gains a default, ...                           *)
LEMMA GainsDefault ==
  ASSUME NEW d \in Declaration, Allowed(d), ~d.type, d.def = Absent, NEW n \in Nat
  PROVE  /\ [d EXCEPT !.def = n] \in Declaration /\ Allowed([d EXCEPT !.def = n])
         /\ \A b \in Imported([d EXCEPT !.def = n]) : b \in Imported(d) \/ b = Whole(d, n, <<"default">>)
  <1> DEFINE e == [d EXCEPT !.def = n]
  <1>1. /\ e \in Declaration /\ e.named = d.named /\ e.from = d.from /\ e.type = d.type
        /\ e.def = n /\ e.ns = d.ns /\ e.braces = d.braces
    BY DEF Declaration
  <1> HIDE DEF e
  <1>2. Allowed(e)
    BY <1>1 DEF Allowed
  <1>3. /\ \A k, what : Whole(e, k, what) = Whole(d, k, what)
        /\ \A s : Named(e, s) = Named(d, s)
    BY <1>1 DEF Whole, Named
  <1>4. ASSUME NEW b \in Imported(e) PROVE b \in Imported(d) \/ b = Whole(d, n, <<"default">>)
    <2>1. \/ e.def # Absent /\ b = Whole(e, e.def, <<"default">>)
          \/ e.ns # Absent /\ b = Whole(e, e.ns, <<"all">>)
          \/ \E s \in ToSet(e.named) : b = Named(e, s)
      BY <1>4, ImportedIs, Zenon
    <2>2. \/ b = Whole(d, n, <<"default">>)
          \/ d.ns # Absent /\ b = Whole(d, d.ns, <<"all">>)
          \/ \E s \in ToSet(d.named) : b = Named(d, s)
      BY <2>1, <1>1, <1>3
    <2> QED BY <2>2, ImportedIs, Zenon
  <1> QED BY <1>1, <1>2, <1>4 DEF e

(* ... or, if it has no braces, a namespace.                               *)
LEMMA GainsNamespace ==
  ASSUME NEW d \in Declaration, Allowed(d), ~d.type, ~d.braces, d.ns = Absent, NEW n \in Nat
  PROVE  /\ [d EXCEPT !.ns = n] \in Declaration /\ Allowed([d EXCEPT !.ns = n])
         /\ \A b \in Imported([d EXCEPT !.ns = n]) : b \in Imported(d) \/ b = Whole(d, n, <<"all">>)
  <1> DEFINE e == [d EXCEPT !.ns = n]
  <1>1. /\ e \in Declaration /\ e.named = d.named /\ e.from = d.from /\ e.type = d.type
        /\ e.def = d.def /\ e.ns = n /\ e.braces = d.braces
    BY DEF Declaration
  <1> HIDE DEF e
  <1>2. Allowed(e)
    BY <1>1 DEF Allowed
  <1>3. /\ \A k, what : Whole(e, k, what) = Whole(d, k, what)
        /\ \A s : Named(e, s) = Named(d, s)
    BY <1>1 DEF Whole, Named
  <1>4. ASSUME NEW b \in Imported(e) PROVE b \in Imported(d) \/ b = Whole(d, n, <<"all">>)
    <2>1. \/ e.def # Absent /\ b = Whole(e, e.def, <<"default">>)
          \/ e.ns # Absent /\ b = Whole(e, e.ns, <<"all">>)
          \/ \E s \in ToSet(e.named) : b = Named(e, s)
      BY <1>4, ImportedIs, Zenon
    <2>2. \/ d.def # Absent /\ b = Whole(d, d.def, <<"default">>)
          \/ b = Whole(d, n, <<"all">>)
          \/ \E s \in ToSet(d.named) : b = Named(d, s)
      BY <2>1, <1>1, <1>3
    <2> QED BY <2>2, ImportedIs, Zenon
  <1> QED BY <1>1, <1>2, <1>4 DEF e

(* New declarations bind one name, or none.                                *)
LEMMA OneName ==
  ASSUME NEW m \in ModuleName, NEW type \in BOOLEAN, NEW n \in Nat \ {0}
  PROVE  LET d == Decl(m, type, Absent, Absent, <<Plain(n)>>)
         IN d \in Declaration /\ Allowed(d) /\ \A b \in Imported(d) : b = Named(d, Plain(n))
  <1> DEFINE one == <<Plain(n)>>
             d == Decl(m, type, Absent, Absent, one)
  <1>1. /\ one \in Seq(Specifier) /\ ToSet(one) = {Plain(n)}
        /\ one # NoBraces
    <2>1. Plain(n) \in Specifier /\ Plain(n) # Plain(Absent)
      BY PlainIs
    <2> QED BY <2>1 DEF ToSet, NoBraces
  <1> HIDE DEF one
  <1>2. /\ d \in Declaration /\ d.def = Absent /\ d.ns = Absent /\ d.named = one /\ d.braces
    BY <1>1 DEF Decl, Declaration, InBraces, Absent
  <1> HIDE DEF d
  <1>3. Allowed(d)
    <2>1. DOMAIN one = {1}
      BY DEF one
    <2> QED BY <1>2, <2>1 DEF Allowed, Distinct
  <1>4. ASSUME NEW b \in Imported(d) PROVE b = Named(d, Plain(n))
    <2>1. \/ d.def # Absent /\ b = Whole(d, d.def, <<"default">>)
          \/ d.ns # Absent /\ b = Whole(d, d.ns, <<"all">>)
          \/ \E s \in ToSet(d.named) : b = Named(d, s)
      BY <1>4, ImportedIs, Zenon
    <2> QED BY <2>1, <1>1, <1>2
  <1> QED BY <1>2, <1>3, <1>4 DEF d, one

(* A declaration of one default or namespace.                              *)
LEMMA OneWhole ==
  ASSUME NEW m \in ModuleName, NEW def \in Nat, NEW ns \in Nat
  PROVE  LET d == Decl(m, FALSE, def, ns, NoBraces)
         IN /\ d \in Declaration /\ Allowed(d)
            /\ \A b \in Imported(d) : \/ def # Absent /\ b = Whole(d, def, <<"default">>)
                                      \/ ns # Absent /\ b = Whole(d, ns, <<"all">>)
  <1> DEFINE d == Decl(m, FALSE, def, ns, NoBraces)
  <1>1. /\ d \in Declaration /\ d.def = def /\ d.ns = ns /\ d.named = <<>> /\ ~d.braces /\ ~d.type
    <2>1. InBraces(NoBraces) = <<>> /\ <<>> \in Seq(Specifier)
      BY DEF InBraces
    <2>2. d \in Declaration
      BY <2>1 DEF Decl, Declaration
    <2>3. d.named = InBraces(NoBraces) /\ d.def = def /\ d.ns = ns
      BY DEF Decl
    <2>4. ~d.braces /\ ~d.type
      BY DEF Decl
    <2> QED BY <2>1, <2>2, <2>3, <2>4
  <1> HIDE DEF d
  <1>2. Allowed(d)
    BY <1>1 DEF Allowed, Distinct
  <1>3. ASSUME NEW b \in Imported(d)
        PROVE  \/ def # Absent /\ b = Whole(d, def, <<"default">>)
               \/ ns # Absent /\ b = Whole(d, ns, <<"all">>)
    <2>1. \/ d.def # Absent /\ b = Whole(d, d.def, <<"default">>)
          \/ d.ns # Absent /\ b = Whole(d, d.ns, <<"all">>)
          \/ \E s \in ToSet(d.named) : b = Named(d, s)
      BY <1>3, ImportedIs, Zenon
    <2>2. ToSet(<<>>) = {}
      BY DEF ToSet
    <2> QED BY <2>1, <2>2, <1>1
  <1> QED BY <1>1, <1>2, <1>3 DEF d

-----------------------------------------------------------------------------
(* Where a new import goes.                                                *)

(* A name goes somewhere among the names.                                  *)
LEMMA SpecifierPlaceIs ==
  ASSUME NEW named \in Seq(Specifier), NEW n \in Nat
  PROVE  SpecifierPlace(named, n) \in 1 .. Len(named) + 1
  <1> DEFINE after == {i \in DOMAIN named : named[i].name > n}
  <1>1. DOMAIN named = 1 .. Len(named) /\ Len(named) \in Nat
    OBVIOUS
  <1>2. after \subseteq 1 .. Len(named) /\ after \subseteq Nat
    BY <1>1
  <1>3. SpecifierPlace(named, n) = IF after = {} THEN Len(named) + 1 ELSE Min(after)
    BY DEF SpecifierPlace
  <1> HIDE DEF after
  <1>4. CASE after = {}
    <2>1. SpecifierPlace(named, n) = Len(named) + 1
      BY <1>3, <1>4
    <2> QED BY <1>1, <2>1
  <1>5. CASE after # {}
    <2>1. SpecifierPlace(named, n) = Min(after) /\ Min(after) \in after
      BY <1>2, <1>3, <1>5, MinIs
    <2>2. SpecifierPlace(named, n) \in 1 .. Len(named)
      BY <1>2, <2>1
    <2> QED BY <1>1, <2>2
  <1> QED BY <1>4, <1>5

(* Kinship is bounded by the length of the name that is asked for.         *)
LEMMA KinshipIs ==
  ASSUME NEW a \in ModuleName, NEW b \in ModuleName
  PROVE  Kinship(a, b) \in 0 .. Len(b)
  <1> DEFINE K == {k \in 1 .. Len(a) : k <= Len(b) /\ \A i \in 1 .. k : a[i] = b[i]}
  <1>1. /\ Len(a) \in Nat \ {0} /\ Len(b) \in Nat \ {0}
        /\ Head(a) = a[1] /\ Head(b) = b[1]
    BY DEF ModuleName
  <1>2. K \subseteq 0 .. Len(b)
    BY <1>1
  <1>3. CASE Head(a) # Head(b)
    BY <1>1, <1>3 DEF Kinship
  <1>4. CASE Head(a) = Head(b)
    <2>1. 1 \in K
      BY <1>1, <1>4
    <2>2. Kinship(a, b) = Max(K)
      BY <1>4 DEF Kinship
    <2> HIDE DEF K
    <2>3. Max(K) \in K
      BY <1>1, <1>2, <2>1, MaxIs
    <2> QED BY <1>2, <2>2, <2>3
  <1> QED BY <1>3, <1>4

(* An import goes somewhere among the imports.                             *)
LEMMA SortedPlaceIs ==
  ASSUME NEW ds \in Seq(Declaration), NEW m \in ModuleName
  PROVE  SortedPlace(ds, m) \in 1 .. Len(ds) + 1
  <1> DEFINE kinships == {Kinship(d.from, m) : d \in ToSet(ds)}
             closest == Max(kinships)
             kin == {i \in DOMAIN ds : Kinship(ds[i].from, m) = closest}
             after == {i \in kin : Precedes(m, ds[i].from)}
  <1>1. Len(ds) \in Nat /\ DOMAIN ds = 1 .. Len(ds) /\ Len(m) \in Nat
    BY DEF ModuleName
  <1>2. \A i \in DOMAIN ds : Kinship(ds[i].from, m) \in 0 .. Len(m)
    <2>1. \A i \in DOMAIN ds : ds[i].from \in ModuleName
      <3>1. \A i \in DOMAIN ds : ds[i] \in Declaration
        OBVIOUS
      <3> QED BY <3>1 DEF Declaration
    <2> QED BY <2>1, KinshipIs
  <1>3. CASE ds = <<>>
    BY <1>1, <1>3 DEF SortedPlace
  <1>4. CASE ds # <<>>
    <2>1. 1 \in DOMAIN ds
      BY <1>1, <1>4
    <2>2. kinships \subseteq 0 .. Len(m) /\ kinships # {}
      BY <1>2, <2>1 DEF ToSet
    <2>3. closest \in kinships
      <3> HIDE DEF kinships
      <3> QED BY <1>1, <2>2, MaxIs
    <2>4. \E i \in DOMAIN ds : Kinship(ds[i].from, m) = closest
      <3>1. \E d \in ToSet(ds) : Kinship(d.from, m) = closest
        <4> HIDE DEF closest
        <4> QED BY <2>3
      <3> HIDE DEF closest
      <3> QED BY <3>1 DEF ToSet
    <2>5. SortedPlace(ds, m) = IF after = {} THEN Max(kin) + 1 ELSE Min(after)
      BY <1>4 DEF SortedPlace
    <2> HIDE DEF closest
    <2>6. kin \subseteq 1 .. Len(ds) /\ kin \subseteq 0 .. Len(ds) /\ kin # {} /\ after \subseteq kin /\ kin \subseteq Nat
      BY <1>1, <2>4
    <2> HIDE DEF kin, after
    <2>7. CASE after = {}
      <3>1. Max(kin) \in kin
        BY <1>1, <2>6, MaxIs
      <3>2. SortedPlace(ds, m) = Max(kin) + 1 /\ Max(kin) \in 1 .. Len(ds)
        BY <2>5, <2>6, <2>7, <3>1
      <3> QED BY <1>1, <3>2
    <2>8. CASE after # {}
      <3>1. Min(after) \in after
        <4>1. after \subseteq Nat
          BY <2>6
        <4> QED BY <2>8, <4>1, MinIs
      <3>2. SortedPlace(ds, m) \in 1 .. Len(ds)
        BY <2>5, <2>6, <2>8, <3>1
      <3> QED BY <1>1, <3>2
    <2> QED BY <2>7, <2>8
  <1> QED BY <1>3, <1>4

-----------------------------------------------------------------------------
(* The operations.                                                         *)

(* An operation that is not refused has left a file the compiler takes.    *)
Good(r) == r.ok => r.file \in File /\ Compilable(r.file)

(* An operation that is refused leaves none.                               *)
LEMMA RefusedIsGood == \A f : Good(Refused(f))
  BY DEF Good, Refused

(* One that is done leaves the file it made.                               *)
LEMMA DoneIsGood ==
  ASSUME NEW f \in File, Compilable(f)
  PROVE  Good(Done(f))
  BY DEF Good, Done

(* The declaration found first is one of the file.                         *)
LEMMA FoundIs ==
  ASSUME NEW f \in File, Compilable(f), NEW p, p \in DOMAIN f.imports
  PROVE  f.imports[p] \in Declaration /\ Allowed(f.imports[p])
  <1>1. f.imports \in Seq(Declaration)
    BY Parts
  <1> QED BY <1>1 DEF Compilable, ToSet

(* addImport leaves a file the compiler takes, wherever it puts the name.  *)
LEMMA AddImportIsGood ==
  ASSUME NEW f \in File, Compilable(f), NEW n \in Nat \ {0}, NEW m \in ModuleName, NEW sorted \in BOOLEAN
  PROVE  Good(AddImport(f, n, m, sorted))
  <1> DEFINE S == {d \in Of(f.imports, m) : ~d.type /\ d.braces}
             i == First(f.imports, S)
             fresh == Decl(m, FALSE, Absent, Absent, <<Plain(n)>>)
             bound == \E d \in Of(f.imports, m) : \E b \in BoundNames(d) : b.local = n /\ b.value /\ b.plain
             place == IF sorted THEN SpecifierPlace(f.imports[i].named, n) ELSE Len(f.imports[i].named) + 1
             named == InsertAt(f.imports[i].named, place, Plain(n))
  <1>1. f.imports \in Seq(Declaration)
    BY Parts
  <1>2. i # 0 => i \in DOMAIN f.imports /\ f.imports[i] \in S
    BY <1>1, FirstIs
  <1>3. AddImport(f, n, m, sorted) =
          IF bound THEN Done(f)
          ELSE IF Claimed(f, n) THEN Refused(f)
          ELSE IF i # 0 THEN Done([f EXCEPT !.imports[i].named = named])
          ELSE Done(IF sorted THEN InsertImport(f, fresh, SortedPlace(f.imports, m)) ELSE AppendImport(f, fresh))
    BY DEF AddImport
  <1>4. CASE bound
    BY <1>3, <1>4, DoneIsGood
  <1>5. CASE ~bound /\ Claimed(f, n)
    BY <1>3, <1>5, RefusedIsGood
  <1>6. CASE ~bound /\ ~Claimed(f, n) /\ i # 0
    <2> HIDE DEF i
    <2> DEFINE d == f.imports[i]
    <2>1. i \in DOMAIN f.imports /\ d \in Declaration /\ Allowed(d) /\ d.braces
      <3>1. d \in S
        BY <1>2, <1>6
      <3>2. i \in DOMAIN f.imports /\ d \in Declaration /\ Allowed(d)
        <4> HIDE DEF S
        <4> QED BY <1>2, <1>6, FoundIs
      <3> QED BY <3>1, <3>2
    <2> HIDE DEF S
    <2>2. d.named \in Seq(Specifier) /\ Len(d.named) \in Nat
      BY <2>1 DEF Declaration
    <2>3. place \in 1 .. Len(d.named) + 1
      <3>1. SpecifierPlace(d.named, n) \in 1 .. Len(d.named) + 1
        BY <2>2, SpecifierPlaceIs
      <3>2. Len(d.named) + 1 \in 1 .. Len(d.named) + 1
        BY <2>2
      <3> QED BY <3>1, <3>2
    <2> HIDE DEF place
    <2>4. Plain(n) \in Specifier /\ Named(d, Plain(n)).local = n
      BY PlainIs
    <2>5. named \in Seq(Specifier) /\ Grown(named, d.named, Plain(n), place)
      <3>1. PICK u, x, q : u = d.named /\ x = Plain(n) /\ q = place
        OBVIOUS
      <3>2. u \in Seq(Specifier) /\ q \in 1 .. Len(u) + 1 /\ x \in Specifier
        BY <3>1, <2>2, <2>3, <2>4
      <3>3. InsertAt(u, q, x) \in Seq(Specifier) /\ Grown(InsertAt(u, q, x), u, x, q)
        BY <3>2, InsertGrows
      <3> QED BY <3>1, <3>3
    <2> HIDE DEF named
    <2>6. \A k \in DOMAIN d.named : Visible(d.named[k]) # Visible(Plain(n))
      <3> SUFFICES ASSUME NEW k \in DOMAIN d.named PROVE Visible(d.named[k]) # n
        BY PlainIs
      <3>1. Named(d, d.named[k]) \in Imported(d)
        <4>1. d.named[k] \in ToSet(d.named)
          BY DEF ToSet
        <4> QED BY <4>1, ImportedIs
      <3>2. Named(d, d.named[k]).local # n
        BY <1>6, <2>1, <3>1, FreeIs
      <3> QED BY <3>2 DEF Named
    <2> DEFINE e == [d EXCEPT !.named = named]
    <2>7. /\ e \in Declaration /\ Allowed(e)
          /\ \A b \in Imported(e) : b \in Imported(d) \/ b = Named(d, Plain(n))
      BY <2>1, <2>5, <2>6, OtherNames
    <2>8. [f EXCEPT !.imports[i].named = named] = [f EXCEPT !.imports[i] = e]
      BY DEF File
    <2> HIDE DEF e
    <2>9. \A b \in Imported(e) : b \in Imported(d) \/ (b = Named(d, Plain(n)) /\ ~Claimed(f, Named(d, Plain(n)).local))
      BY <1>6, <2>4, <2>7
    <2>10. [f EXCEPT !.imports[i] = e] \in File /\ Compilable([f EXCEPT !.imports[i] = e])
      BY <2>1, <2>7, <2>9, Changed
    <2> QED BY <1>3, <1>6, <2>8, <2>10, DoneIsGood
  <1>7. CASE ~bound /\ ~Claimed(f, n) /\ i = 0
    <2>1. /\ fresh \in Declaration /\ Allowed(fresh)
          /\ \A b \in Imported(fresh) : b = Named(fresh, Plain(n))
      BY OneName
    <2> HIDE DEF fresh
    <2>2. \A b \in Imported(fresh) : b = Named(fresh, Plain(n)) /\ ~Claimed(f, Named(fresh, Plain(n)).local)
      BY <1>7, <2>1, PlainIs
    <2>3. \A q \in 1 .. Len(f.imports) + 1 : InsertImport(f, fresh, q) \in File /\ Compilable(InsertImport(f, fresh, q))
      BY <2>1, <2>2, PutIn
    <2>4. SortedPlace(f.imports, m) \in 1 .. Len(f.imports) + 1 /\ DefaultPlace(f) \in 1 .. Len(f.imports) + 1
      BY <1>1, SortedPlaceIs, DefaultPlaceIs
    <2> QED BY <1>3, <1>7, <2>3, <2>4, DoneIsGood DEF AppendImport
  <1> QED BY <1>4, <1>5, <1>6, <1>7

(* addDefaultImport does, the default going into no type-only import.      *)
LEMMA AddDefaultIsGood ==
  ASSUME NEW f \in File, Compilable(f), NEW n \in Nat \ {0}, NEW m \in ModuleName
  PROVE  Good(AddDefault(f, n, m))
  <1> DEFINE S == {d \in Of(f.imports, m) : ~d.type /\ ~Bare(d)}
             D == {d \in Of(f.imports, m) : ~d.type /\ d.def # Absent}
             i == First(f.imports, S)
             fresh == Decl(m, FALSE, n, Absent, NoBraces)
             there == Existing(f, m, "def")
  <1>1. f.imports \in Seq(Declaration)
    BY Parts
  <1>2. i # 0 => i \in DOMAIN f.imports /\ f.imports[i] \in S
    BY <1>1, FirstIs
  <1>3. there = Absent => \A k \in DOMAIN f.imports : f.imports[k] \notin D
    <2>1. there = IF First(f.imports, D) = 0 THEN Absent ELSE f.imports[First(f.imports, D)].def
      BY DEF Existing
    <2>2. /\ First(f.imports, D) # 0 => f.imports[First(f.imports, D)] \in D
          /\ First(f.imports, D) = 0 => \A k \in DOMAIN f.imports : f.imports[k] \notin D
      BY <1>1, FirstIs
    <2>3. \A d \in D : d.def # Absent
      OBVIOUS
    <2> HIDE DEF D, there
    <2> QED BY <2>1, <2>2, <2>3
  <1>4. AddDefault(f, n, m) =
          IF there = n THEN Done(f)
          ELSE IF there # Absent \/ Claimed(f, n) THEN Refused(f)
          ELSE IF i # 0 THEN Done([f EXCEPT !.imports[i].def = n])
          ELSE Done(AppendImport(f, fresh))
    BY DEF AddDefault
  <1> HIDE DEF there
  <1>5. CASE there = n
    BY <1>4, <1>5, DoneIsGood
  <1>6. CASE there # n /\ (there # Absent \/ Claimed(f, n))
    BY <1>4, <1>6, RefusedIsGood
  <1>7. CASE there # n /\ there = Absent /\ ~Claimed(f, n) /\ i # 0
    <2> DEFINE d == f.imports[i]
               e == [d EXCEPT !.def = n]
    <2>1. i \in DOMAIN f.imports /\ d \in Declaration /\ Allowed(d) /\ d \in S
      BY <1>2, <1>7, FoundIs
    <2>2. ~d.type /\ d.def = Absent
      BY <2>1, <1>3, <1>7
    <2> HIDE DEF i, S, D
    <2>3. /\ e \in Declaration /\ Allowed(e)
          /\ \A b \in Imported(e) : b \in Imported(d) \/ b = Whole(d, n, <<"default">>)
      BY <2>1, <2>2, GainsDefault
    <2>4. [f EXCEPT !.imports[i].def = n] = [f EXCEPT !.imports[i] = e]
      BY DEF File
    <2>5. Whole(d, n, <<"default">>).local = n
      BY PlainIs
    <2> HIDE DEF e
    <2>6. PICK z : z = Whole(d, n, <<"default">>)
      OBVIOUS
    <2>7. \A b \in Imported(e) : b \in Imported(f.imports[i]) \/ (b = z /\ ~Claimed(f, z.local))
      BY <1>7, <2>3, <2>5, <2>6
    <2>8. [f EXCEPT !.imports[i] = e] \in File /\ Compilable([f EXCEPT !.imports[i] = e])
      BY <2>1, <2>3, <2>7, Changed
    <2> QED BY <1>4, <1>7, <2>4, <2>8, DoneIsGood
  <1>8. CASE there # n /\ there = Absent /\ ~Claimed(f, n) /\ i = 0
    <2>1. /\ fresh \in Declaration /\ Allowed(fresh)
          /\ \A b \in Imported(fresh) : b = Whole(fresh, n, <<"default">>)
      BY OneWhole DEF Absent
    <2>2. Whole(fresh, n, <<"default">>).local = n
      BY PlainIs
    <2> HIDE DEF fresh
    <2>3. PICK z : z = Whole(fresh, n, <<"default">>)
      OBVIOUS
    <2>4. \A b \in Imported(fresh) : b = z /\ ~Claimed(f, z.local)
      BY <1>8, <2>1, <2>2, <2>3
    <2>5. DefaultPlace(f) \in 1 .. Len(f.imports) + 1
      BY DefaultPlaceIs
    <2>6. AppendImport(f, fresh) \in File /\ Compilable(AppendImport(f, fresh))
      BY <2>1, <2>4, <2>5, PutIn DEF AppendImport
    <2> QED BY <1>4, <1>8, <2>6, DoneIsGood
  <1> QED BY <1>5, <1>6, <1>7, <1>8

(* addNamespaceImport does, as a namespace never joins braces.             *)
LEMMA AddNamespaceIsGood ==
  ASSUME NEW f \in File, Compilable(f), NEW n \in Nat \ {0}, NEW m \in ModuleName
  PROVE  Good(AddNamespace(f, n, m))
  <1> DEFINE S == {d \in Of(f.imports, m) : ~d.type /\ d.def # Absent /\ d.ns = Absent /\ ~d.braces}
             i == First(f.imports, S)
             fresh == Decl(m, FALSE, Absent, n, NoBraces)
             there == Existing(f, m, "ns")
  <1>1. f.imports \in Seq(Declaration)
    BY Parts
  <1>2. i # 0 => i \in DOMAIN f.imports /\ f.imports[i] \in S
    BY <1>1, FirstIs
  <1>3. AddNamespace(f, n, m) =
          IF there = n THEN Done(f)
          ELSE IF there # Absent \/ Claimed(f, n) THEN Refused(f)
          ELSE IF i # 0 THEN Done([f EXCEPT !.imports[i].ns = n])
          ELSE Done(AppendImport(f, fresh))
    BY DEF AddNamespace
  <1> HIDE DEF there
  <1>4. CASE there = n
    BY <1>3, <1>4, DoneIsGood
  <1>5. CASE there # n /\ (there # Absent \/ Claimed(f, n))
    BY <1>3, <1>5, RefusedIsGood
  <1>6. CASE there # n /\ there = Absent /\ ~Claimed(f, n) /\ i # 0
    <2> DEFINE d == f.imports[i]
               e == [d EXCEPT !.ns = n]
    <2>1. i \in DOMAIN f.imports /\ d \in Declaration /\ Allowed(d) /\ d \in S
      BY <1>2, <1>6, FoundIs
    <2>2. ~d.type /\ ~d.braces /\ d.ns = Absent
      BY <2>1
    <2> HIDE DEF i, S
    <2>3. /\ e \in Declaration /\ Allowed(e)
          /\ \A b \in Imported(e) : b \in Imported(d) \/ b = Whole(d, n, <<"all">>)
      BY <2>1, <2>2, GainsNamespace
    <2>4. [f EXCEPT !.imports[i].ns = n] = [f EXCEPT !.imports[i] = e]
      BY DEF File
    <2>5. Whole(d, n, <<"all">>).local = n
      BY PlainIs
    <2> HIDE DEF e
    <2>6. PICK z : z = Whole(d, n, <<"all">>)
      OBVIOUS
    <2>7. \A b \in Imported(e) : b \in Imported(f.imports[i]) \/ (b = z /\ ~Claimed(f, z.local))
      BY <1>6, <2>3, <2>5, <2>6
    <2>8. [f EXCEPT !.imports[i] = e] \in File /\ Compilable([f EXCEPT !.imports[i] = e])
      BY <2>1, <2>3, <2>7, Changed
    <2> QED BY <1>3, <1>6, <2>4, <2>8, DoneIsGood
  <1>7. CASE there # n /\ there = Absent /\ ~Claimed(f, n) /\ i = 0
    <2>1. /\ fresh \in Declaration /\ Allowed(fresh)
          /\ \A b \in Imported(fresh) : b = Whole(fresh, n, <<"all">>)
      BY OneWhole DEF Absent
    <2>2. Whole(fresh, n, <<"all">>).local = n
      BY PlainIs
    <2> HIDE DEF fresh
    <2>3. PICK z : z = Whole(fresh, n, <<"all">>)
      OBVIOUS
    <2>4. \A b \in Imported(fresh) : b = z /\ ~Claimed(f, z.local)
      BY <1>7, <2>1, <2>2, <2>3
    <2>5. DefaultPlace(f) \in 1 .. Len(f.imports) + 1
      BY DefaultPlaceIs
    <2>6. AppendImport(f, fresh) \in File /\ Compilable(AppendImport(f, fresh))
      BY <2>1, <2>4, <2>5, PutIn DEF AppendImport
    <2> QED BY <1>3, <1>7, <2>6, DoneIsGood
  <1> QED BY <1>4, <1>5, <1>6, <1>7

(* addTypeImport does.                                                     *)
LEMMA AddTypeIsGood ==
  ASSUME NEW f \in File, Compilable(f), NEW n \in Nat \ {0}, NEW m \in ModuleName
  PROVE  Good(AddType(f, n, m))
  <1> DEFINE bound == \E d \in Of(f.imports, m) : \E b \in BoundNames(d) : b.local = n /\ ~b.whole /\ b.plain
             taken == Claimed(f, n) \/ \E v \in f.locals : v.name = n
             fresh == Decl(m, TRUE, Absent, Absent, <<Plain(n)>>)
  <1>1. f.imports \in Seq(Declaration)
    BY Parts
  <1>2. AddType(f, n, m) = IF bound THEN Done(f) ELSE IF taken THEN Refused(f) ELSE Done(AppendImport(f, fresh))
    BY DEF AddType
  <1>3. CASE bound
    BY <1>2, <1>3, DoneIsGood
  <1>4. CASE ~bound /\ taken
    BY <1>2, <1>4, RefusedIsGood
  <1>5. CASE ~bound /\ ~taken
    <2>1. /\ fresh \in Declaration /\ Allowed(fresh)
          /\ \A b \in Imported(fresh) : b = Named(fresh, Plain(n))
      BY OneName
    <2> HIDE DEF fresh
    <2>2. PICK z : z = Named(fresh, Plain(n))
      OBVIOUS
    <2>3. \A b \in Imported(fresh) : b = z /\ ~Claimed(f, z.local)
      BY <1>5, <2>1, <2>2, PlainIs
    <2>4. DefaultPlace(f) \in 1 .. Len(f.imports) + 1
      BY DefaultPlaceIs
    <2>5. AppendImport(f, fresh) \in File /\ Compilable(AppendImport(f, fresh))
      BY <2>1, <2>3, <2>4, PutIn DEF AppendImport
    <2> QED BY <1>2, <1>5, <2>5, DoneIsGood
  <1> QED BY <1>3, <1>4, <1>5

(* addSideEffectImport does.                                               *)
LEMMA AddSideEffectIsGood ==
  ASSUME NEW f \in File, Compilable(f), NEW m \in ModuleName
  PROVE  Good(AddSideEffect(f, m))
  <1> DEFINE there == \E d \in Of(f.imports, m) : Bare(d)
             fresh == Decl(m, FALSE, Absent, Absent, NoBraces)
  <1>1. f.imports \in Seq(Declaration)
    BY Parts
  <1>2. AddSideEffect(f, m) = IF there THEN Done(f) ELSE Done(AppendImport(f, fresh))
    BY DEF AddSideEffect
  <1>3. fresh \in Declaration /\ Allowed(fresh) /\ \A b \in Imported(fresh) : FALSE
    BY OneWhole DEF Absent
  <1> HIDE DEF fresh, there
  <1>4. PICK z : z = 0
    OBVIOUS
  <1>5. \A b \in Imported(fresh) : b = z /\ ~Claimed(f, z.local)
    BY <1>3
  <1>6. DefaultPlace(f) \in 1 .. Len(f.imports) + 1
    BY DefaultPlaceIs
  <1>7. AppendImport(f, fresh) \in File /\ Compilable(AppendImport(f, fresh))
    BY <1>3, <1>5, <1>6, PutIn DEF AppendImport
  <1> QED BY <1>2, <1>7, DoneIsGood

(* A declaration without one of its names, and without braces that would   *)
(* be empty, is another that is allowed and binds no more.                 *)
Without(d, k) == [d EXCEPT !.named = RemoveAt(d.named, k), !.braces = Len(d.named) > 1]

LEMMA WithoutIs ==
  ASSUME NEW d \in Declaration, Allowed(d), NEW k \in DOMAIN d.named,
         ~(Len(d.named) = 1 /\ d.def = Absent /\ d.ns = Absent),
         NEW e, e = Without(d, k)
  PROVE  /\ e \in Declaration /\ Allowed(e) /\ ~Bare(e)
         /\ e.named = RemoveAt(d.named, k) /\ e.from = d.from /\ e.type = d.type /\ e.def = d.def /\ e.ns = d.ns
         /\ \A b \in Imported(e) : b \in Imported(d)
  <1>1. PICK u, t : u = d.named /\ t = RemoveAt(u, k)
    OBVIOUS
  <1>2. u \in Seq(Specifier) /\ k \in DOMAIN u /\ d.braces
    <2>1. u # <<>>
      BY <1>1
    <2> QED BY <1>1, <2>1 DEF Declaration, Allowed
  <1>3. PICK x : x = Plain(Absent)
    OBVIOUS
  <1>4. t \in Seq(Specifier) /\ Len(t) = Len(u) - 1 /\ Grown(t, u, x, 0) /\ 0 \notin DOMAIN t
    <2>1. RemoveAt(u, k) \in Seq(Specifier) /\ Grown(RemoveAt(u, k), u, x, 0)
      BY <1>2, RemoveShrinks
    <2>2. Len(RemoveAt(u, k)) = Len(u) - 1
      BY <1>2, RemoveIs
    <2> QED BY <1>1, <2>1, <2>2
  <1> DEFINE h == [d EXCEPT !.named = t]
  <1>5. /\ h \in Declaration /\ Allowed(h)
        /\ \A b \in Imported(h) : b \in Imported(d)
    BY <1>1, <1>4, OtherNames
  <1>6. /\ h.named = t /\ h.from = d.from /\ h.type = d.type /\ h.def = d.def /\ h.ns = d.ns
    BY DEF Declaration
  <1> HIDE DEF h
  <1>7. PICK w \in BOOLEAN : (w <=> Len(u) > 1) /\ e = [d EXCEPT !.named = t, !.braces = w]
    <2>1. PICK w : w = (Len(d.named) > 1)
      OBVIOUS
    <2>2. w \in BOOLEAN
      BY <2>1
    <2>3. w <=> Len(u) > 1
      BY <1>1, <2>1, <2>2
    <2>4. e = [d EXCEPT !.named = t, !.braces = w]
      BY <1>1, <2>1 DEF Without
    <2> QED BY <2>2, <2>3, <2>4
  <1>8. /\ e \in Declaration /\ e.named = t /\ e.from = d.from /\ e.type = d.type
        /\ e.def = d.def /\ e.ns = d.ns /\ e.braces = w
    BY <1>4, <1>7 DEF Declaration
  <1>9. ASSUME NEW b \in Imported(e) PROVE b \in Imported(h)
    <2>1. /\ \A n, what : Whole(e, n, what) = Whole(h, n, what)
          /\ \A s : Named(e, s) = Named(h, s)
      BY <1>6, <1>8 DEF Whole, Named
    <2>2. \/ e.def # Absent /\ b = Whole(e, e.def, <<"default">>)
          \/ e.ns # Absent /\ b = Whole(e, e.ns, <<"all">>)
          \/ \E s \in ToSet(e.named) : b = Named(e, s)
      BY ImportedIs, Zenon
    <2>3. \/ h.def # Absent /\ b = Whole(h, h.def, <<"default">>)
          \/ h.ns # Absent /\ b = Whole(h, h.ns, <<"all">>)
          \/ \E s \in ToSet(h.named) : b = Named(h, s)
      BY <1>6, <1>8, <2>1, <2>2
    <2> QED BY <2>3, ImportedIs, Zenon
  <1>10. ~e.braces => t = <<>> /\ (d.def # Absent \/ d.ns # Absent)
    <2>1. Len(u) \in Nat /\ Len(u) # 0
      BY <1>2
    <2>2. ~w => Len(u) = 1
      <3>1. ~w => ~(Len(u) > 1)
        BY <1>7, Zenon
      <3>2. ~(Len(u) > 1) => Len(u) = 1
        BY <2>1
      <3> QED BY <3>1, <3>2, Zenon
    <2>3. Len(u) = 1 => t = <<>> /\ (d.def # Absent \/ d.ns # Absent)
      BY <1>1, <1>4
    <2> QED BY <1>8, <2>2, <2>3
  <1>11. Allowed(e)
    BY <1>2, <1>5, <1>6, <1>8, <1>10 DEF Allowed
  <1>12. ~Bare(e)
    BY <1>8, <1>10 DEF Bare
  <1> QED BY <1>1, <1>5, <1>8, <1>9, <1>11, <1>12

(* removeImport does, whether a name goes or the declaration.              *)
LEMMA RemoveImportIsGood ==
  ASSUME NEW f \in File, Compilable(f), NEW n \in Nat, NEW m \in ModuleName
  PROVE  Good(RemoveImport(f, n, m))
  <1> DEFINE S == {d \in Of(f.imports, m) : \E s \in ToSet(d.named) : s.name = n}
             i == First(f.imports, S)
             d == f.imports[i]
             R == {s \in ToSet(d.named) : s.name = n}
             k == First(d.named, R)
             e == Without(d, k)
  <1>1. f.imports \in Seq(Declaration)
    BY Parts
  <1>2. i # 0 => i \in DOMAIN f.imports /\ d \in S
    BY <1>1, FirstIs
  <1>3. RemoveImport(f, n, m) =
          IF i = 0 THEN Done(f)
          ELSE IF Len(d.named) = 1 /\ d.def = Absent /\ d.ns = Absent
          THEN Done([f EXCEPT !.imports = RemoveAt(@, i)])
          ELSE Done([f EXCEPT !.imports[i] = e])
    BY DEF RemoveImport, Without
  <1>4. CASE i = 0
    BY <1>3, <1>4, DoneIsGood
  <1>5. CASE i # 0
    <2>1. i \in DOMAIN f.imports /\ d \in Declaration /\ Allowed(d) /\ d \in S
      BY <1>2, <1>5, FoundIs
    <2>2. d.named \in Seq(Specifier)
      BY <2>1 DEF Declaration
    <2>3. k \in DOMAIN d.named
      <3>1. PICK s \in ToSet(d.named) : s.name = n
        BY <2>1
      <3>2. PICK j \in DOMAIN d.named : d.named[j] = s
        BY DEF ToSet
      <3>3. d.named[j] \in R
        BY <3>1, <3>2
      <3> HIDE DEF d, R
      <3> QED BY <2>2, <3>2, <3>3, FirstIs
    <2> HIDE DEF i, S, k, R
    <2>4. [f EXCEPT !.imports = RemoveAt(@, i)] \in File /\ Compilable([f EXCEPT !.imports = RemoveAt(@, i)])
      BY <2>1, TakenOut
    <2>5. CASE Len(d.named) = 1 /\ d.def = Absent /\ d.ns = Absent
      BY <1>3, <1>5, <2>4, <2>5, DoneIsGood
    <2>6. CASE ~(Len(d.named) = 1 /\ d.def = Absent /\ d.ns = Absent)
      <3>1. PICK h : h = e
        OBVIOUS
      <3>2. h \in Declaration /\ Allowed(h) /\ \A b \in Imported(h) : b \in Imported(d)
        BY <2>1, <2>3, <2>6, <3>1, WithoutIs
      <3>3. PICK z : z = 0
        OBVIOUS
      <3>4. \A b \in Imported(h) : b \in Imported(f.imports[i]) \/ (b = z /\ ~Claimed(f, z.local))
        BY <3>2
      <3>5. [f EXCEPT !.imports[i] = h] \in File /\ Compilable([f EXCEPT !.imports[i] = h])
        BY <2>1, <3>2, <3>4, Changed
      <3> QED BY <1>3, <1>5, <2>6, <3>1, <3>5, DoneIsGood
    <2> QED BY <2>5, <2>6
  <1> QED BY <1>4, <1>5

(* sortImports does, as it only moves declarations and names.              *)
LEMMA SortImportsIsGood ==
  ASSUME NEW f \in File, Compilable(f)
  PROVE  Good(SortImports(f))
  <1> DEFINE ds == f.imports
             placed == Arranged(ds, ImportOrder(ds))
             Sorted(d) == [d EXCEPT !.named = Arranged(@, NameOrder(@))]
             es == [i \in DOMAIN placed |-> Sorted(placed[i])]
  <1>1. ds \in Seq(Declaration)
    BY Parts
  <1> HIDE DEF ds
  <1>2. placed \in Seq(Declaration) /\ Rearranges(placed, ds)
    BY <1>1, ImportsOrdered, ArrangedIs
  <1>3. PICK g \in [DOMAIN ds -> DOMAIN ds] :
          /\ \A i, j \in DOMAIN ds : g[i] = g[j] => i = j
          /\ \A i \in DOMAIN ds : placed[i] = ds[g[i]]
    BY <1>2 DEF Rearranges
  <1>4. ASSUME NEW d \in Declaration, Allowed(d)
        PROVE  Sorted(d) \in Declaration /\ Allowed(Sorted(d)) /\ \A b \in Imported(Sorted(d)) : b \in Imported(d)
    <2>1. PICK u, t : u = d.named /\ t = Arranged(u, NameOrder(u))
      OBVIOUS
    <2>2. u \in Seq(Specifier)
      BY <2>1 DEF Declaration
    <2>3. t \in Seq(Specifier) /\ Rearranges(t, u)
      BY <2>1, <2>2, NamesOrdered, ArrangedIs
    <2>4. PICK x : x = Plain(Absent)
      OBVIOUS
    <2>5. Grown(t, u, x, 0) /\ 0 \notin DOMAIN t
      BY <2>2, <2>3, ArrangedGrows
    <2>7. /\ [d EXCEPT !.named = t] \in Declaration /\ Allowed([d EXCEPT !.named = t])
          /\ \A b \in Imported([d EXCEPT !.named = t]) : b \in Imported(d)
      BY <1>4, <2>1, <2>3, <2>5, OtherNames
    <2>8. Sorted(d) = [d EXCEPT !.named = t]
      BY <2>1
    <2> QED BY <2>7, <2>8
  <1>5. \A i \in DOMAIN ds : ds[i] \in Declaration /\ Allowed(ds[i])
    BY FoundIs DEF ds
  <1>6. SortImports(f) = Done([f EXCEPT !.imports = es])
    BY DEF SortImports, ds
  <1>7. DOMAIN es = DOMAIN ds /\ \A i \in DOMAIN ds : es[i] = Sorted(ds[g[i]])
    <2>1. DOMAIN placed = DOMAIN ds
      BY <1>2 DEF Rearranges
    <2> HIDE DEF placed, Sorted
    <2> QED BY <1>3, <2>1
  <1> DEFINE n == Len(ds)
  <1>8. n \in Nat /\ DOMAIN ds = 1 .. n
    BY <1>1
  <1> HIDE DEF es, Sorted, n
  <1>9. es \in Seq(Declaration)
    <2>1. es = [i \in 1 .. n |-> es[i]]
      BY <1>7, <1>8 DEF es
    <2>2. \A i \in 1 .. n : es[i] \in Declaration
      BY <1>3, <1>4, <1>5, <1>7, <1>8
    <2>3. es \in [1 .. n -> Declaration]
      BY <2>1, <2>2
    <2> QED BY <1>8, <2>3
  <1>10. \A i, j \in DOMAIN es : g[i] = g[j] => i = j
    BY <1>3, <1>7
  <1>11. \A i \in DOMAIN es : Allowed(es[i])
    BY <1>3, <1>4, <1>5, <1>7
  <1>12. PICK z : z = 0
    OBVIOUS
  <1>13. \A i \in DOMAIN es : \A b \in Imported(es[i]) :
           \/ g[i] \in DOMAIN ds /\ b \in Imported(ds[g[i]])
           \/ i = 0 /\ b = z /\ ~Claimed(f, z.local)
    BY <1>3, <1>4, <1>5, <1>7
  <1>14. Follows(f, es, g, 0, z)
    BY <1>10, <1>11, <1>13 DEF Follows, ds
  <1>15. [f EXCEPT !.imports = es] \in File /\ Compilable([f EXCEPT !.imports = es])
    BY <1>9, <1>14, Rebound
  <1> QED BY <1>6, <1>15, DoneIsGood

(* A name that is not exported is free.                                    *)
LEMMA UnexportedIs ==
  ASSUME NEW f \in File, NEW n, n # Absent, n \notin ExportedNames(f)
  PROVE  /\ \A x \in Reexports(f) : x.visible # n
         /\ \A v \in f.locals : v.exported => v.name # n
  <1>1. ASSUME NEW e \in ToSet(f.exports), NEW x \in Reexported(e) PROVE x.visible # n
    <2> DEFINE E == {Visible(s) : s \in ToSet(e.named)} \cup ({e.ns} \ {Absent})
    <2>1. E \subseteq ExportedNames(f)
      BY DEF ExportedNames
    <2>2. x.visible \in {Visible(s) : s \in ToSet(e.named)} \/ x.visible = e.ns
      BY DEF Reexported
    <2>3. x.visible \in E \/ x.visible = Absent
      BY <2>2
    <2> QED BY <2>1, <2>3
  <1>2. \A x \in Reexports(f) : \E e \in ToSet(f.exports) : x \in Reexported(e)
    BY DEF Reexports
  <1>3. ASSUME NEW v \in f.locals, v.exported PROVE v.name \in ExportedNames(f)
    <2> DEFINE L == {w \in f.locals : w.exported}
    <2>1. v \in L
      BY <1>3
    <2> HIDE DEF L
    <2>2. v.name \in {w.name : w \in L}
      BY <2>1
    <2>3. {w.name : w \in L} \subseteq ExportedNames(f)
      BY Zenon DEF ExportedNames, L
    <2> QED BY <2>2, <2>3
  <1> QED BY <1>1, <1>2, <1>3

(* Whether the compiler takes a file lies in these parts.                  *)
LEMMA Untouched ==
  ASSUME NEW f, Compilable(f), NEW h, h.imports = f.imports, h.exports = f.exports, h.locals = f.locals
  PROVE  Compilable(h)
  <1>1. Bindings(h) = Bindings(f) /\ Reexports(h) = Reexports(f)
    BY DEF Bindings, Reexports
  <1>2. BoundOnce(h.imports) /\ \A d \in ToSet(h.imports) : Allowed(d)
    BY DEF Compilable
  <1>3. \A b \in Bindings(h), v \in h.locals : v.value => b.local # v.name
    BY <1>1 DEF Compilable
  <1>4. /\ ExportedOnce(h.exports) /\ \A e \in ToSet(h.exports) : Distinct(e.named)
        /\ \A v, w \in h.locals : v.value /\ w.value /\ v.name = w.name => v = w
    BY DEF Compilable
  <1>5. \A x \in Reexports(h), v \in h.locals : v.exported => x.visible # v.name
    BY <1>1 DEF Compilable
  <1> QED BY <1>2, <1>3, <1>4, <1>5 DEF Compilable

(* It still takes one in which a name is declared that was free.           *)
LEMMA DeclareIsGood ==
  ASSUME NEW f \in File, Compilable(f), NEW n \in Nat \ {0}, NEW exported \in BOOLEAN,
         exported => n \notin ExportedNames(f)
  PROVE  Good(Declare(f, n, exported))
  <1> DEFINE w == [name |-> n, value |-> TRUE, exported |-> exported]
             h == [f EXCEPT !.locals = @ \cup {w}]
  <1>1. CASE Claimed(f, n)
    BY <1>1, RefusedIsGood DEF Declare
  <1>2. CASE ~Claimed(f, n)
    <2>1. Declare(f, n, exported) = Done(h)
      BY <1>2 DEF Declare
    <2>2. w \in [name: Nat \ {0}, value: BOOLEAN, exported: BOOLEAN] /\ w.name = n /\ w.exported = exported
      OBVIOUS
    <2> HIDE DEF w
    <2>3. /\ h \in File /\ h.imports = f.imports /\ h.exports = f.exports /\ h.locals = f.locals \cup {w}
      BY <2>2 DEF File
    <2> HIDE DEF h
    <2>4. Bindings(h) = Bindings(f) /\ Reexports(h) = Reexports(f)
      BY <2>3 DEF Bindings, Reexports
    <2>5. \A b \in Bindings(f) : b.local # n
      <3>1. \A i \in DOMAIN f.imports : \A b \in Imported(f.imports[i]) : b.local # n
        BY <1>2, FreeIs
      <3> QED BY <3>1 DEF Bindings, ToSet
    <2>6. exported => \A x \in Reexports(f) : x.visible # n
      BY UnexportedIs DEF Absent
    <2>7. \A b \in Bindings(h), v \in h.locals : v.value => b.local # v.name
      BY <2>2, <2>3, <2>4, <2>5 DEF Compilable
    <2>8. \A x \in Reexports(h), v \in h.locals : v.exported => x.visible # v.name
      BY <2>2, <2>3, <2>4, <2>6 DEF Compilable
    <2>9. Compilable(h)
      <3>1. \A v \in f.locals : v.value => v.name # n
        BY <1>2, FreeIs
      <3>2. \A v, x \in h.locals : v.value /\ x.value /\ v.name = x.name => v = x
        BY <2>2, <2>3, <3>1 DEF Compilable
      <3> QED BY <2>3, <2>4, <2>7, <2>8, <3>2 DEF Compilable
    <2> QED BY <2>1, <2>3, <2>9, DoneIsGood
  <1> QED BY <1>1, <1>2

(* Every export declaration comes from another place than the others and   *)
(* exports what the one in that place did, or, in place p, z besides.      *)
ExportsFollow(f, es, g, p, z) ==
  /\ \A i, j \in DOMAIN es : g[i] = g[j] => i = j
  /\ \A i \in DOMAIN es : Distinct(es[i].named)
  /\ \A i \in DOMAIN es : \A x \in Reexported(es[i]) :
       (g[i] \in DOMAIN f.exports /\ x \in Reexported(f.exports[g[i]])) \/ (i = p /\ x = z)

(* With such exports a file stays one the compiler takes, if z is no name  *)
(* or a free one.                                                          *)
LEMMA Reexporting ==
  ASSUME NEW f \in File, Compilable(f), NEW es \in Seq(Export), NEW g, NEW p, NEW z,
         z.visible = Absent \/ z.visible \notin ExportedNames(f), ExportsFollow(f, es, g, p, z)
  PROVE  [f EXCEPT !.exports = es] \in File /\ Compilable([f EXCEPT !.exports = es])
  <1> DEFINE h == [f EXCEPT !.exports = es]
  <1>1. h \in File /\ h.imports = f.imports /\ h.exports = es /\ h.locals = f.locals
    BY DEF File
  <1> HIDE DEF h
  <1>2. Bindings(h) = Bindings(f)
    BY <1>1 DEF Bindings
  <1>3. /\ \A i \in DOMAIN f.exports : \A x \in Reexported(f.exports[i]) : x \in Reexports(f)
        /\ \A x \in Reexports(h) : \E i \in DOMAIN es : x \in Reexported(es[i])
    BY <1>1 DEF Reexports, ToSet
  <1>4. z.visible # Absent => /\ \A x \in Reexports(f) : x.visible # z.visible
                              /\ \A v \in f.locals : v.exported => v.name # z.visible
    BY UnexportedIs
  <1>5. \A v \in f.locals : v.name # Absent
    BY DEF File, Absent
  <1>6. ExportedOnce(es)
    <2> SUFFICES ASSUME NEW i \in DOMAIN es, NEW j \in DOMAIN es, NEW x \in Reexported(es[i]), NEW y \in Reexported(es[j]),
                        x.visible = y.visible, x.visible # Absent
                 PROVE  i = j /\ x = y
      BY DEF ExportedOnce
    <2>1. /\ (g[i] \in DOMAIN f.exports /\ x \in Reexported(f.exports[g[i]])) \/ (i = p /\ x = z)
          /\ (g[j] \in DOMAIN f.exports /\ y \in Reexported(f.exports[g[j]])) \/ (j = p /\ y = z)
      BY DEF ExportsFollow
    <2>2. CASE i = p /\ x = z
      BY <2>1, <2>2, <1>3, <1>4
    <2>3. CASE j = p /\ y = z
      BY <2>1, <2>3, <1>3, <1>4
    <2>4. CASE /\ g[i] \in DOMAIN f.exports /\ x \in Reexported(f.exports[g[i]])
               /\ g[j] \in DOMAIN f.exports /\ y \in Reexported(f.exports[g[j]])
      <3>1. ExportedOnce(f.exports)
        BY DEF Compilable
      <3>2. g[i] = g[j] /\ x = y
        BY <2>4, <3>1 DEF ExportedOnce
      <3> QED BY <3>2 DEF ExportsFollow
    <2> QED BY <2>1, <2>2, <2>3, <2>4
  <1>7. ASSUME NEW x \in Reexports(h), NEW v \in h.locals, v.exported
        PROVE  x.visible # v.name
    <2>1. x \in Reexports(f) \/ x = z
      BY <1>3 DEF ExportsFollow
    <2> QED BY <2>1, <1>1, <1>4, <1>5, <1>7 DEF Compilable
  <1>8. /\ \A e \in ToSet(es) : Distinct(e.named)
        /\ \A v, w \in h.locals : v.value /\ w.value /\ v.name = w.name => v = w
        /\ BoundOnce(h.imports) /\ \A d \in ToSet(h.imports) : Allowed(d)
        /\ \A b \in Bindings(h), v \in h.locals : v.value => b.local # v.name
    BY <1>1, <1>2 DEF ExportsFollow, ToSet, Compilable
  <1>9. Compilable(h)
    BY <1>1, <1>6, <1>7, <1>8 DEF Compilable
  <1> QED BY <1>1, <1>9 DEF h

(* What an export declaration exports.                                     *)
AsName(m, s) == [visible |-> Visible(s), from |-> m, what |-> <<"name", s.name>>]
AsAll(m, n) == [visible |-> n, from |-> m, what |-> <<"all">>]

(* It exports those.                                                       *)
LEMMA ReexportedIs ==
  ASSUME NEW e
  PROVE  \A x : x \in Reexported(e) <=> (\E s \in ToSet(e.named) : x = AsName(e.from, s)) \/ (e.star = TRUE /\ x = AsAll(e.from, e.ns))
  BY DEF Reexported, AsName, AsAll

(* One whose names are among those of another exports no more, or one more.*)
LEMMA OtherExports ==
  ASSUME NEW e \in Export, NEW named \in Seq(Specifier), NEW s, NEW p, Grown(named, e.named, s, p)
  PROVE  /\ [e EXCEPT !.named = named] \in Export
         /\ \A x \in Reexported([e EXCEPT !.named = named]) : x \in Reexported(e) \/ (p \in DOMAIN named /\ x = AsName(e.from, s))
  <1> DEFINE g == [e EXCEPT !.named = named]
  <1>1. g \in Export /\ g.from = e.from /\ g.ns = e.ns /\ g.star = e.star /\ g.named = named
    BY DEF Export
  <1> HIDE DEF g
  <1>2. \A x \in ToSet(named) : x \in ToSet(e.named) \/ (p \in DOMAIN named /\ x = s)
    BY GrownIs
  <1>3. ASSUME NEW x \in Reexported(g) PROVE x \in Reexported(e) \/ (p \in DOMAIN named /\ x = AsName(e.from, s))
    <2>1. CASE \E y \in ToSet(g.named) : x = AsName(g.from, y)
      <3>1. PICK y \in ToSet(named) : x = AsName(e.from, y)
        BY <1>1, <2>1
      <3> QED BY <1>2, <3>1, ReexportedIs
    <2>2. CASE g.star = TRUE /\ x = AsAll(g.from, g.ns)
      BY <1>1, <2>2, ReexportedIs
    <2> QED BY <2>1, <2>2, ReexportedIs
  <1> QED BY <1>1, <1>3 DEF g

(* An export declaration whose names are taken out, or joined by a new one.*)
LEMMA ExportChanged ==
  ASSUME NEW f \in File, Compilable(f), NEW p \in DOMAIN f.exports, NEW named \in Seq(Specifier), NEW s, NEW q,
         Grown(named, f.exports[p].named, s, q),
         q \in DOMAIN named => Visible(s) # Absent /\ Visible(s) \notin ExportedNames(f)
  PROVE  /\ [f EXCEPT !.exports[p].named = named] \in File
         /\ Compilable([f EXCEPT !.exports[p].named = named])
  <1> DEFINE old == f.exports[p]
             e == [old EXCEPT !.named = named]
             es == [f.exports EXCEPT ![p] = e]
             g == [i \in DOMAIN f.exports |-> i]
  <1>1. f.exports \in Seq(Export) /\ old \in Export /\ old \in ToSet(f.exports)
    BY Parts DEF ToSet
  <1>2. PICK z : z = IF q \in DOMAIN named THEN AsName(old.from, s) ELSE AsAll(Absent, Absent)
    OBVIOUS
  <1>3. z.visible = Absent \/ z.visible \notin ExportedNames(f)
    BY <1>2 DEF AsName, AsAll
  <1>4. e \in Export /\ \A x \in Reexported(e) : x \in Reexported(old) \/ x = z
    BY <1>1, <1>2, OtherExports
  <1>5. e.named = named
    BY <1>1 DEF Export
  <1>6. Distinct(named)
    <2>1. ASSUME q \in DOMAIN named, NEW k \in DOMAIN old.named PROVE Visible(old.named[k]) # Visible(s)
      <3>1. AsName(old.from, old.named[k]) \in Reexported(old)
        <4>1. old.named[k] \in ToSet(old.named)
          BY DEF ToSet
        <4> QED BY <4>1, ReexportedIs
      <3>2. AsName(old.from, old.named[k]) \in Reexports(f)
        BY <1>1, <3>1 DEF Reexports
      <3>3. AsName(old.from, old.named[k]).visible # Visible(s)
        BY <2>1, <3>2, UnexportedIs
      <3> QED BY <3>3 DEF AsName
    <2>2. Distinct(old.named)
      BY <1>1 DEF Compilable
    <2> QED BY <2>1, <2>2, StayDistinct
  <1>7. [f EXCEPT !.exports[p].named = named] = [f EXCEPT !.exports = es]
    BY DEF File
  <1> HIDE DEF e, old
  <1>8. /\ es \in Seq(Export) /\ DOMAIN es = DOMAIN f.exports
        /\ \A i \in DOMAIN f.exports : es[i] = IF i = p THEN e ELSE f.exports[i]
    BY <1>1, <1>4
  <1>9. \A i, j \in DOMAIN es : g[i] = g[j] => i = j
    BY <1>8
  <1>10. \A i \in DOMAIN es : Distinct(es[i].named)
    BY <1>5, <1>6, <1>8 DEF Compilable, ToSet
  <1>11. \A i \in DOMAIN es : \A x \in Reexported(es[i]) :
           (g[i] \in DOMAIN f.exports /\ x \in Reexported(f.exports[g[i]])) \/ (i = p /\ x = z)
    BY <1>4, <1>8 DEF old
  <1>12. PICK xs : xs = es
    OBVIOUS
  <1> HIDE DEF es, g
  <1>13. xs \in Seq(Export) /\ ExportsFollow(f, xs, g, p, z)
    BY <1>8, <1>9, <1>10, <1>11, <1>12 DEF ExportsFollow
  <1>14. [f EXCEPT !.exports = xs] \in File /\ Compilable([f EXCEPT !.exports = xs])
    BY <1>3, <1>13, Reexporting
  <1> QED BY <1>7, <1>12, <1>14

(* An export declaration of one's own, with the name it gives.             *)
LEMMA ExportAdded ==
  ASSUME NEW f \in File, Compilable(f), NEW e \in Export, NEW z,
         z.visible = Absent \/ z.visible \notin ExportedNames(f),
         Distinct(e.named), \A x \in Reexported(e) : x = z
  PROVE  [f EXCEPT !.exports = Append(@, e)] \in File /\ Compilable([f EXCEPT !.exports = Append(@, e)])
  <1> DEFINE n == Len(f.exports)
             g == [i \in 1 .. n + 1 |-> i]
  <1>1. PICK xs : xs = Append(f.exports, e)
    OBVIOUS
  <1>2. /\ f.exports \in Seq(Export) /\ n \in Nat /\ DOMAIN f.exports = 1 .. n
        /\ xs \in Seq(Export) /\ DOMAIN xs = 1 .. n + 1 /\ xs[n + 1] = e
        /\ \A i \in 1 .. n : xs[i] = f.exports[i]
    BY <1>1, Parts
  <1> HIDE DEF n
  <1>3. \A i \in 1 .. n + 1 : i = n + 1 \/ i \in 1 .. n
    BY <1>2
  <1>4. \A i \in DOMAIN xs : Distinct(xs[i].named)
    BY <1>2, <1>3 DEF Compilable, ToSet
  <1>5. \A i \in DOMAIN xs : \A x \in Reexported(xs[i]) :
           (g[i] \in DOMAIN f.exports /\ x \in Reexported(f.exports[g[i]])) \/ (i = n + 1 /\ x = z)
    BY <1>2, <1>3
  <1>6. \A i, j \in DOMAIN xs : g[i] = g[j] => i = j
    BY <1>2
  <1> HIDE DEF g
  <1>7. ExportsFollow(f, xs, g, n + 1, z)
    BY <1>4, <1>5, <1>6 DEF ExportsFollow
  <1>8. [f EXCEPT !.exports = xs] \in File /\ Compilable([f EXCEPT !.exports = xs])
    BY <1>2, <1>7, Reexporting
  <1> QED BY <1>1, <1>8

(* An export declaration taken out.                                        *)
LEMMA ExportTakenOut ==
  ASSUME NEW f \in File, Compilable(f), NEW i \in DOMAIN f.exports
  PROVE  [f EXCEPT !.exports = RemoveAt(@, i)] \in File /\ Compilable([f EXCEPT !.exports = RemoveAt(@, i)])
  <1>1. PICK xs : xs = RemoveAt(f.exports, i)
    OBVIOUS
  <1>2. PICK z : z = AsAll(Absent, Absent)
    OBVIOUS
  <1>3. xs \in Seq(Export) /\ Grown(xs, f.exports, z, 0)
    BY <1>1, Parts, RemoveShrinks
  <1>4. 0 \notin DOMAIN xs
    BY <1>3
  <1>5. PICK g : /\ \A j, k \in DOMAIN xs : g[j] = g[k] => j = k
                 /\ \A j \in DOMAIN xs : g[j] \in DOMAIN f.exports /\ xs[j] = f.exports[g[j]]
    BY <1>3, <1>4 DEF Grown
  <1>6. ExportsFollow(f, xs, g, 0, z)
    BY <1>5 DEF ExportsFollow, Compilable, ToSet
  <1>7. z.visible = Absent
    BY <1>2 DEF AsAll
  <1>8. [f EXCEPT !.exports = xs] \in File /\ Compilable([f EXCEPT !.exports = xs])
    BY <1>3, <1>6, <1>7, Reexporting
  <1> QED BY <1>1, <1>8

(* addReExport leaves a file the compiler takes.                           *)
LEMMA AddReExportIsGood ==
  ASSUME NEW f \in File, Compilable(f), NEW n \in Nat \ {0}, NEW m \in ModuleName
  PROVE  Good(AddReExport(f, n, m))
  <1> DEFINE there == \E e \in Of(f.exports, m) : \E s \in ToSet(e.named) : s.name = n
             S == {e \in Of(f.exports, m) : ~e.star}
             i == First(f.exports, S)
             fresh == ExportDecl(m, Absent, <<Plain(n)>>)
  <1>1. f.exports \in Seq(Export)
    BY Parts
  <1>2. i # 0 => i \in DOMAIN f.exports
    BY <1>1, FirstIs
  <1>3. AddReExport(f, n, m) =
          IF there THEN Done(f)
          ELSE IF n \in ExportedNames(f) THEN Refused(f)
          ELSE IF i # 0 THEN Done([f EXCEPT !.exports[i].named = Append(@, Plain(n))])
          ELSE Done([f EXCEPT !.exports = Append(@, fresh)])
    BY DEF AddReExport
  <1> HIDE DEF there, i, S
  <1>4. PICK s : s = Plain(n)
    OBVIOUS
  <1>5. s \in Specifier /\ Visible(s) = n /\ s.name = n
    BY <1>4 DEF Plain, Specifier, Visible, Absent
  <1>6. CASE there
    BY <1>3, <1>6, DoneIsGood
  <1>7. CASE ~there /\ n \in ExportedNames(f)
    BY <1>3, <1>7, RefusedIsGood
  <1>8. CASE ~there /\ n \notin ExportedNames(f) /\ i # 0
    <2>1. i \in DOMAIN f.exports /\ f.exports[i].named \in Seq(Specifier)
      <3>1. i \in DOMAIN f.exports /\ f.exports[i] \in Export
        BY <1>1, <1>2, <1>8
      <3> QED BY <3>1 DEF Export
    <2>2. PICK named : named = Append(f.exports[i].named, s)
      OBVIOUS
    <2>3. named \in Seq(Specifier) /\ Grown(named, f.exports[i].named, s, Len(f.exports[i].named) + 1)
      BY <1>5, <2>1, <2>2, AppendGrows
    <2>4. [f EXCEPT !.exports[i].named = named] \in File /\ Compilable([f EXCEPT !.exports[i].named = named])
      <3>1. Visible(s) # Absent /\ Visible(s) \notin ExportedNames(f)
        BY <1>5, <1>8 DEF Absent
      <3> QED BY <2>1, <2>3, <3>1, ExportChanged
    <2> QED BY <1>3, <1>4, <1>8, <2>2, <2>4, DoneIsGood
  <1>9. CASE ~there /\ n \notin ExportedNames(f) /\ i = 0
    <2>1. PICK e : e = fresh
      OBVIOUS
    <2>2. <<Plain(n)>> # NoBraces
      BY DEF Plain, NoBraces, Absent
    <2>3. e = [from |-> m, ns |-> Absent, star |-> FALSE, named |-> <<s>>]
      BY <1>4, <2>1, <2>2 DEF ExportDecl, InBraces
    <2>4. e \in Export /\ ToSet(e.named) = {s} /\ Distinct(e.named)
      BY <1>5, <2>3 DEF Export, Absent, ToSet, Distinct
    <2>5. PICK z : z = AsName(m, s)
      OBVIOUS
    <2>6. z.visible = n
      BY <1>5, <2>5 DEF AsName
    <2>7. \A x \in Reexported(e) : x = z
      <3>1. e.from = m /\ e.star = FALSE
        BY <2>3
      <3> QED BY <2>4, <2>5, <3>1, ReexportedIs
    <2>8. [f EXCEPT !.exports = Append(@, e)] \in File /\ Compilable([f EXCEPT !.exports = Append(@, e)])
      BY <1>9, <2>4, <2>6, <2>7, ExportAdded
    <2> QED BY <1>3, <1>9, <2>1, <2>8, DoneIsGood
  <1> QED BY <1>6, <1>7, <1>8, <1>9

(* addExportAll leaves one, too.                                           *)
LEMMA AddExportAllIsGood ==
  ASSUME NEW f \in File, Compilable(f), NEW m \in ModuleName, NEW ns \in Nat
  PROVE  Good(AddExportAll(f, m, ns))
  <1> DEFINE there == \E e \in Of(f.exports, m) : e.star /\ e.ns = ns
             fresh == ExportDecl(m, ns, NoBraces)
  <1>1. AddExportAll(f, m, ns) =
          IF there THEN Done(f)
          ELSE IF ns # Absent /\ ns \in ExportedNames(f) THEN Refused(f)
          ELSE Done([f EXCEPT !.exports = Append(@, fresh)])
    BY DEF AddExportAll
  <1> HIDE DEF there
  <1>2. CASE there
    BY <1>1, <1>2, DoneIsGood
  <1>3. CASE ~there /\ ns # Absent /\ ns \in ExportedNames(f)
    BY <1>1, <1>3, RefusedIsGood
  <1>4. CASE ~there /\ ~(ns # Absent /\ ns \in ExportedNames(f))
    <2>1. PICK e : e = fresh
      OBVIOUS
    <2>2. e = [from |-> m, ns |-> ns, star |-> TRUE, named |-> <<>>]
      BY <2>1 DEF ExportDecl, InBraces
    <2>3. e \in Export /\ ToSet(e.named) = {} /\ Distinct(e.named)
      BY <2>2 DEF Export, ToSet, Distinct
    <2>4. PICK z : z = AsAll(m, ns)
      OBVIOUS
    <2>5. z.visible = ns
      BY <2>4 DEF AsAll
    <2>6. \A x \in Reexported(e) : x = z
      BY <2>2, <2>3, <2>4, ReexportedIs
    <2>7. [f EXCEPT !.exports = Append(@, e)] \in File /\ Compilable([f EXCEPT !.exports = Append(@, e)])
      BY <1>4, <2>3, <2>5, <2>6, ExportAdded
    <2> QED BY <1>1, <1>4, <2>1, <2>7, DoneIsGood
  <1> QED BY <1>2, <1>3, <1>4

(* removeReExport leaves one.                                              *)
LEMMA RemoveReExportIsGood ==
  ASSUME NEW f \in File, Compilable(f), NEW n, NEW m
  PROVE  Good(RemoveReExport(f, n, m))
  <1> DEFINE S == {e \in Of(f.exports, m) : \E s \in ToSet(e.named) : s.name = n}
             i == First(f.exports, S)
             R == {s \in ToSet(f.exports[i].named) : s.name = n}
             k == First(f.exports[i].named, R)
  <1>1. f.exports \in Seq(Export)
    BY Parts
  <1>2. i # 0 => i \in DOMAIN f.exports /\ f.exports[i] \in S
    BY <1>1, FirstIs
  <1>3. RemoveReExport(f, n, m) =
          IF i = 0 THEN Done(f)
          ELSE IF Len(f.exports[i].named) = 1 THEN Done([f EXCEPT !.exports = RemoveAt(@, i)])
          ELSE Done([f EXCEPT !.exports[i].named = RemoveAt(@, k)])
    BY DEF RemoveReExport
  <1>4. CASE i = 0
    BY <1>3, <1>4, DoneIsGood
  <1>5. CASE i # 0
    <2>1. i \in DOMAIN f.exports /\ f.exports[i].named \in Seq(Specifier) /\ f.exports[i] \in S
      <3>1. i \in DOMAIN f.exports /\ f.exports[i] \in S
        BY <1>2, <1>5
      <3> HIDE DEF i, S
      <3>2. f.exports[i] \in Export
        BY <1>1, <3>1
      <3> QED BY <3>1, <3>2 DEF Export
    <2>2. k \in DOMAIN f.exports[i].named
      <3>1. PICK s \in ToSet(f.exports[i].named) : s.name = n
        BY <2>1
      <3>2. PICK j \in DOMAIN f.exports[i].named : f.exports[i].named[j] = s
        BY DEF ToSet
      <3>3. f.exports[i].named[j] \in R
        BY <3>1, <3>2
      <3> HIDE DEF i, S, R
      <3> QED BY <2>1, <3>2, <3>3, FirstIs
    <2> HIDE DEF i, S, k, R
    <2>3. PICK named : named = RemoveAt(f.exports[i].named, k)
      OBVIOUS
    <2>4. PICK s : s = Plain(Absent)
      OBVIOUS
    <2>5. named \in Seq(Specifier) /\ Grown(named, f.exports[i].named, s, 0) /\ 0 \notin DOMAIN named
      BY <2>1, <2>2, <2>3, RemoveShrinks
    <2>6. [f EXCEPT !.exports[i].named = named] \in File /\ Compilable([f EXCEPT !.exports[i].named = named])
      BY <2>1, <2>5, ExportChanged
    <2>7. [f EXCEPT !.exports = RemoveAt(@, i)] \in File /\ Compilable([f EXCEPT !.exports = RemoveAt(@, i)])
      BY <2>1, ExportTakenOut
    <2> QED BY <1>3, <1>5, <2>3, <2>6, <2>7, DoneIsGood
  <1> QED BY <1>4, <1>5

(* removeExportAll leaves one.                                             *)
LEMMA RemoveExportAllIsGood ==
  ASSUME NEW f \in File, Compilable(f), NEW m, NEW ns
  PROVE  Good(RemoveExportAll(f, m, ns))
  <1> DEFINE S == {e \in Of(f.exports, m) : e.star /\ e.ns = ns}
             i == First(f.exports, S)
  <1>1. i # 0 => i \in DOMAIN f.exports
    BY Parts, FirstIs
  <1>2. RemoveExportAll(f, m, ns) = Done(IF i = 0 THEN f ELSE [f EXCEPT !.exports = RemoveAt(@, i)])
    BY DEF RemoveExportAll
  <1> HIDE DEF i
  <1> QED BY <1>1, <1>2, ExportTakenOut, DoneIsGood

(* An entry is written after its import.                                   *)
LEMMA AddEntryIsGood ==
  ASSUME NEW f \in File, Compilable(f), NEW n \in Nat \ {0}, NEW m \in ModuleName
  PROVE  Good(AddEntry(f, n, m))
  <1>1. PICK r : r = AddImport(f, n, m, FALSE)
    OBVIOUS
  <1>2. Good(r)
    BY <1>1, AddImportIsGood
  <1>3. AddEntry(f, n, m) = IF ~f.list.usable \/ ~r.ok THEN Refused(f)
                            ELSE Done([r.file EXCEPT !.list.names = @ \cup {n}])
    BY <1>1 DEF AddEntry
  <1>4. CASE ~f.list.usable \/ ~r.ok
    BY <1>3, <1>4, RefusedIsGood
  <1>5. CASE ~(~f.list.usable \/ ~r.ok)
    <2>1. PICK g : g = r.file
      OBVIOUS
    <2>2. g \in File /\ Compilable(g)
      BY <1>2, <1>5, <2>1 DEF Good
    <2>3. PICK h : h = [g EXCEPT !.list.names = @ \cup {n}]
      OBVIOUS
    <2>4. h \in File /\ h.imports = g.imports /\ h.exports = g.exports /\ h.locals = g.locals
      BY <2>2, <2>3 DEF File
    <2>5. Compilable(h)
      BY <2>2, <2>4, Untouched
    <2> QED BY <1>3, <1>5, <2>1, <2>3, <2>4, <2>5, DoneIsGood
  <1> QED BY <1>4, <1>5

(* An element is written before its import.                                *)
LEMMA AddElementIsGood ==
  ASSUME NEW f \in File, Compilable(f), NEW n \in Nat \ {0}, NEW m \in ModuleName
  PROVE  Good(AddElement(f, n, m))
  <1>1. PICK h : h = [f EXCEPT !.list.names = @ \cup {n}]
    OBVIOUS
  <1>2. AddElement(f, n, m) = IF ~f.list.usable THEN Refused(f) ELSE AddImport(h, n, m, FALSE)
    BY <1>1 DEF AddElement
  <1>3. h \in File /\ h.imports = f.imports /\ h.exports = f.exports /\ h.locals = f.locals
    BY <1>1 DEF File
  <1>4. Compilable(h)
    BY <1>3, Untouched
  <1>5. Good(AddImport(h, n, m, FALSE))
    BY <1>3, <1>4, AddImportIsGood
  <1> QED BY <1>2, <1>5, RefusedIsGood

(* A route is written before its import.                                   *)
LEMMA AddRouteIsGood ==
  ASSUME NEW f \in File, Compilable(f), NEW path \in Nat, NEW n \in Nat \ {0}, NEW m \in ModuleName
  PROVE  Good(AddRoute(f, path, n, m))
  <1> DEFINE T == [path: Nat, to: Nat]
             S == {r \in ToSet(f.routes) : r.path = Wildcard}
             i == First(f.routes, S)
  <1>1. PICK route : route = [path |-> path, to |-> n]
    OBVIOUS
  <1>2. PICK place : place = IF i = 0 THEN Len(f.routes) + 1 ELSE i
    OBVIOUS
  <1>3. PICK routes : routes = InsertAt(f.routes, place, route)
    OBVIOUS
  <1>4. PICK h : h = [f EXCEPT !.routes = routes]
    OBVIOUS
  <1>5. AddRoute(f, path, n, m) =
          IF route \in ToSet(f.routes) THEN AddImport(f, n, m, FALSE)
          ELSE IF \E r \in ToSet(f.routes) : r.path = path THEN Refused(f)
          ELSE AddImport(h, n, m, FALSE)
    BY <1>1, <1>2, <1>3, <1>4 DEF AddRoute
  <1>6. f.routes \in Seq(T) /\ Len(f.routes) \in Nat /\ DOMAIN f.routes = 1 .. Len(f.routes) /\ route \in T
    BY <1>1, Parts
  <1>7. i # 0 => i \in DOMAIN f.routes
    BY <1>6, FirstIs
  <1> HIDE DEF i, S
  <1>8. place \in 1 .. Len(f.routes) + 1
    BY <1>2, <1>6, <1>7
  <1>9. routes \in Seq(T)
    <2>1. PICK u : u = f.routes
      OBVIOUS
    <2>2. u \in Seq(T) /\ place \in 1 .. Len(u) + 1 /\ route \in T
      BY <1>6, <1>8, <2>1
    <2> HIDE DEF T
    <2>3. InsertAt(u, place, route) \in Seq(T)
      BY <2>2, InsertGrows
    <2> QED BY <1>3, <2>1, <2>3
  <1>10. h \in File /\ h.imports = f.imports /\ h.exports = f.exports /\ h.locals = f.locals
    BY <1>4, <1>9 DEF File
  <1>11. Compilable(h)
    BY <1>10, Untouched
  <1>12. Good(AddImport(f, n, m, FALSE)) /\ Good(AddImport(h, n, m, FALSE))
    BY <1>10, <1>11, AddImportIsGood
  <1> QED BY <1>5, <1>12, RefusedIsGood

(* A member is written before the import of what it calls.                 *)
LEMMA AddMemberIsGood ==
  ASSUME NEW f \in File, Compilable(f), NEW n \in Nat, NEW call \in Nat \ {0}, Core \in ModuleName
  PROVE  Good(AddMember(f, n, call))
  <1>1. PICK member : member = [name |-> n, call |-> call]
    OBVIOUS
  <1>2. PICK h : h = [f EXCEPT !.members = @ \cup {member}]
    OBVIOUS
  <1>3. AddMember(f, n, call) =
          IF \E x \in f.members : x.name = n /\ x # member THEN Refused(f) ELSE AddImport(h, call, Core, FALSE)
    BY <1>1, <1>2 DEF AddMember
  <1>4. member \in [name: Nat, call: Nat]
    BY <1>1
  <1>5. h \in File /\ h.imports = f.imports /\ h.exports = f.exports /\ h.locals = f.locals
    BY <1>2, <1>4 DEF File
  <1>6. Compilable(h)
    BY <1>5, Untouched
  <1>7. Good(AddImport(h, call, Core, FALSE))
    BY <1>5, <1>6, AddImportIsGood
  <1> QED BY <1>3, <1>7, RefusedIsGood

(* The verbs of an ask.                                                    *)
Verbs == {"import", "sorted", "default", "namespace", "type", "remove", "reexport", "unexport", "entry",
          "element", "star", "unstar", "effect", "declare", "route", "member", "sort"}

(* Each ask is of one of these verbs, with what the verb needs.            *)
LEMMA Asked ==
  ASSUME NEW a \in Asks
  PROVE  /\ a.verb \in Verbs /\ a.name \in Nat /\ a.from \in ModuleName /\ a.with \in Nat
         /\ a.verb \notin {"star", "unstar", "effect", "sort"} => a.name # 0
         /\ a.verb = "member" => a.with # 0
  <1> USE ModuleAssumption
  <1>1. CASE \E v \in {"import", "sorted", "default", "namespace", "type", "remove", "reexport", "unexport",
                       "entry", "element"}, n \in Names, m \in Modules : a = Ask(v, n, m, 0)
    BY <1>1 DEF Ask, Verbs
  <1>2. CASE \E v \in {"star", "unstar"}, m \in Modules, x \in Names \cup {Absent} : a = Ask(v, Absent, m, x)
    BY <1>2 DEF Ask, Verbs, Absent
  <1>3. CASE \E m \in Modules : a = Ask("effect", Absent, m, 0)
    BY <1>3 DEF Ask, Verbs, Absent
  <1>4. CASE \E n \in Names, x \in {0, 1} : a = Ask("declare", n, Core, x)
    BY <1>4 DEF Ask, Verbs
  <1>5. CASE \E n \in Names, p \in {1, Wildcard} : a = Ask("route", n, Core, p)
    BY <1>5 DEF Ask, Verbs, Wildcard
  <1>6. CASE \E n \in Names, x \in Names : a = Ask("member", n, Core, x)
    BY <1>6 DEF Ask, Verbs
  <1>7. CASE a = Ask("sort", Absent, Core, 0)
    BY <1>7 DEF Ask, Verbs, Absent
  <1> QED BY <1>1, <1>2, <1>3, <1>4, <1>5, <1>6, <1>7 DEF Asks

(* Whatever is asked, a file the compiler takes stays one.                 *)
LEMMA ApplyIsGood ==
  ASSUME NEW f \in File, Compilable(f), NEW a \in Asks, Sensible(f, a)
  PROVE  Good(Apply(f, a))
  <1>1. /\ a.verb \in Verbs /\ a.name \in Nat /\ a.from \in ModuleName /\ a.with \in Nat
        /\ a.verb \notin {"star", "unstar", "effect", "sort"} => a.name # 0
        /\ a.verb = "member" => a.with # 0
    BY Asked
  <1>2. CASE a.verb = "import"
    BY <1>1, <1>2, AddImportIsGood DEF Apply
  <1>3. CASE a.verb = "sorted"
    BY <1>1, <1>3, AddImportIsGood DEF Apply
  <1>4. CASE a.verb = "default"
    BY <1>1, <1>4, AddDefaultIsGood DEF Apply
  <1>5. CASE a.verb = "namespace"
    BY <1>1, <1>5, AddNamespaceIsGood DEF Apply
  <1>6. CASE a.verb = "type"
    BY <1>1, <1>6, AddTypeIsGood DEF Apply
  <1>7. CASE a.verb = "effect"
    BY <1>1, <1>7, AddSideEffectIsGood DEF Apply
  <1>8. CASE a.verb = "remove"
    BY <1>1, <1>8, RemoveImportIsGood DEF Apply
  <1>9. CASE a.verb = "declare"
    <2>1. a.with = 1 => a.name \notin ExportedNames(f)
      BY <1>9 DEF Sensible
    <2>2. PICK exported \in BOOLEAN : exported = (a.with = 1)
      OBVIOUS
    <2>3. Apply(f, a) = Declare(f, a.name, exported)
      BY <1>9, <2>2 DEF Apply
    <2> QED BY <1>1, <1>9, <2>1, <2>2, <2>3, DeclareIsGood
  <1>10. CASE a.verb = "reexport"
    BY <1>1, <1>10, AddReExportIsGood DEF Apply
  <1>11. CASE a.verb = "unexport"
    BY <1>11, RemoveReExportIsGood DEF Apply
  <1>12. CASE a.verb = "star"
    BY <1>1, <1>12, AddExportAllIsGood DEF Apply
  <1>13. CASE a.verb = "unstar"
    BY <1>13, RemoveExportAllIsGood DEF Apply
  <1>14. CASE a.verb = "entry"
    BY <1>1, <1>14, AddEntryIsGood DEF Apply
  <1>15. CASE a.verb = "element"
    BY <1>1, <1>15, AddElementIsGood DEF Apply
  <1>16. CASE a.verb = "route"
    BY <1>1, <1>16, AddRouteIsGood DEF Apply
  <1>17. CASE a.verb = "member"
    BY <1>1, <1>17, AddMemberIsGood, ModuleAssumption DEF Apply
  <1>18. CASE a.verb = "sort"
    BY <1>18, SortImportsIsGood DEF Apply
  <1> QED BY <1>1, <1>2, <1>3, <1>4, <1>5, <1>6, <1>7, <1>8, <1>9, <1>10, <1>11, <1>12, <1>13, <1>14,
             <1>15, <1>16, <1>17, <1>18 DEF Verbs

(* The invariant: the file has its type, and the compiler takes it.         *)
IInv == file \in File /\ Compilable(file)

(* It is inductive.                                                        *)
LEMMA StaysCompilable == Editing => []IInv
  <1>1. Init => IInv
    BY ModuleAssumption DEF Init, IInv
  <1>2. IInv /\ [Next]_<<file, edits>> => IInv'
    <2> SUFFICES ASSUME IInv, [Next]_<<file, edits>> PROVE IInv'
      OBVIOUS
    <2>1. CASE Next
      <3>1. PICK a \in Asks : Edit(a)
        BY <2>1 DEF Next
      <3>2. PICK r : r = Apply(file, a) /\ r.ok /\ file' = r.file /\ Sensible(file, a)
        BY <3>1 DEF Edit
      <3>3. Good(r)
        BY <3>2, ApplyIsGood DEF IInv
      <3> QED BY <3>2, <3>3 DEF Good, IInv
    <2>2. CASE UNCHANGED <<file, edits>>
      BY <2>2 DEF IInv
    <2> QED BY <2>1, <2>2
  <1> QED BY <1>1, <1>2, PTL DEF Editing

(* However the operations of ops.ts and of the other dialects are          *)
(* combined, and in whatever order, the file stays one the compiler takes: *)
(* no name is bound twice or exported twice, and no import declaration has *)
(* a form that is not one.                                                 *)
THEOREM NoNameIsTwice == Editing => []NoNameTwice
  <1>1. IInv => NoNameTwice
    BY DEF IInv, NoNameTwice
  <1> QED BY <1>1, StaysCompilable, PTL

-----------------------------------------------------------------------------
(* What an operation has done.                                             *)

(* What is done and what is refused.                                       *)
LEMMA ResultsAre ==
  /\ \A f : Done(f).ok = TRUE /\ Done(f).file = f
  /\ \A f : Refused(f).ok = FALSE /\ Refused(f).file = f
  BY DEF Done, Refused

(* InsertAt, as its result is used.                                        *)
MadeRoom(t, s, p, e) ==
  /\ Len(t) = Len(s) + 1
  /\ \A i \in 1 .. Len(s) + 1 : t[i] = IF i < p THEN s[i] ELSE IF i = p THEN e ELSE s[i - 1]

LEMMA InsertMakesRoom ==
  ASSUME NEW T, NEW s \in Seq(T), NEW p \in 1 .. Len(s) + 1, NEW e \in T
  PROVE  InsertAt(s, p, e) \in Seq(T) /\ MadeRoom(InsertAt(s, p, e), s, p, e)
  BY InsertIs DEF MadeRoom

(* A file binds a name to something of a module.                           *)
Binds(f, n, m, what, value) ==
  \E d \in ToSet(f.imports) : \E b \in Imported(d) :
     b.local = n /\ b.from = m /\ b.what \in what /\ (value => b.value)

(* That is what an author is given.                                        *)
LEMMA BindsGives ==
  ASSUME NEW f, NEW a, NEW what, NEW value, Binds(f, a.name, a.from, what, value)
  PROVE  Gives(f, a, what, value)
  BY DEF Binds, Gives, Bindings

(* What a name in the file is bound to, as boundNamesIn tells it.          *)
LEMMA BoundIs ==
  ASSUME NEW d, NEW b \in BoundNames(d), b.plain
  PROVE  \E c \in Imported(d) :
           /\ c.local = b.local /\ c.from = d.from /\ (b.value => c.value)
           /\ c.what \in IF b.whole THEN {<<"default">>, <<"all">>} ELSE {<<"name", b.local>>}
  <1> DEFINE N == {d.def, d.ns} \ {Absent}
             B(n) == [local |-> n, whole |-> TRUE, plain |-> TRUE, value |-> ~d.type]
             C(s) == [local |-> Visible(s), whole |-> FALSE, plain |-> s.as \in {Absent, s.name},
                      value |-> ~d.type /\ ~s.type]
  <1>1. b \in {B(n) : n \in N} \/ b \in {C(s) : s \in ToSet(d.named)}
    BY Zenon DEF BoundNames
  <1>2. CASE b \in {B(n) : n \in N}
    <2>1. PICK n \in N : b = B(n)
      BY <1>2
    <2>2. b.local = n /\ b.whole /\ (b.value => ~d.type)
      BY <2>1
    <2>3. CASE n = d.def
      <3>1. Whole(d, n, <<"default">>) \in Imported(d)
        BY <2>3, ImportedIs
      <3> QED BY <2>2, <3>1 DEF Whole
    <2>4. CASE n = d.ns
      <3>1. Whole(d, n, <<"all">>) \in Imported(d)
        BY <2>4, ImportedIs
      <3> QED BY <2>2, <3>1 DEF Whole
    <2> QED BY <2>3, <2>4
  <1>3. CASE b \in {C(s) : s \in ToSet(d.named)}
    <2>1. PICK s \in ToSet(d.named) : b = C(s)
      BY <1>3
    <2>2. b.local = Visible(s) /\ ~b.whole /\ s.as \in {Absent, s.name} /\ (b.value => ~d.type /\ ~s.type)
      BY <2>1
    <2>3. Visible(s) = s.name
      BY <2>2 DEF Visible
    <2>4. Named(d, s) \in Imported(d)
      BY ImportedIs
    <2> QED BY <2>2, <2>3, <2>4 DEF Named
  <1> QED BY <1>1, <1>2, <1>3

(* A declaration that is put in is there, ...                              *)
LEMMA PutInIs ==
  ASSUME NEW f \in File, NEW q \in 1 .. Len(f.imports) + 1, NEW d \in Declaration
  PROVE  d \in ToSet(InsertImport(f, d, q).imports)
  <1>1. PICK s : s = f.imports
    OBVIOUS
  <1>2. s \in Seq(Declaration) /\ q \in 1 .. Len(s) + 1 /\ Len(s) \in Nat
    BY <1>1, Parts
  <1>3. InsertAt(s, q, d) \in Seq(Declaration) /\ MadeRoom(InsertAt(s, q, d), s, q, d)
    BY <1>2, InsertMakesRoom
  <1>4. q \in DOMAIN InsertAt(s, q, d) /\ InsertAt(s, q, d)[q] = d
    BY <1>2, <1>3 DEF MadeRoom
  <1>5. InsertImport(f, d, q).imports = InsertAt(s, q, d)
    BY <1>1 DEF InsertImport, File
  <1> QED BY <1>4, <1>5 DEF ToSet

(* ... and so is one that is changed.                                      *)
LEMMA ChangedIs ==
  ASSUME NEW f \in File, NEW i \in DOMAIN f.imports, NEW e
  PROVE  e \in ToSet([f EXCEPT !.imports[i] = e].imports)
  <1>1. [f EXCEPT !.imports[i] = e].imports = [f.imports EXCEPT ![i] = e]
    BY DEF File
  <1>2. f.imports \in Seq(Declaration)
    BY Parts
  <1>3. i \in DOMAIN [f.imports EXCEPT ![i] = e] /\ [f.imports EXCEPT ![i] = e][i] = e
    BY <1>2
  <1> QED BY <1>1, <1>3 DEF ToSet

(* The first place is before the others.                                   *)
LEMMA FirstIsFirst ==
  ASSUME NEW T, NEW s \in Seq(T), NEW S, NEW j \in DOMAIN s, s[j] \in S
  PROVE  First(s, S) # 0 /\ First(s, S) <= j
  <1> DEFINE I == {i \in DOMAIN s : s[i] \in S}
  <1>1. I \subseteq Nat /\ j \in I /\ 0 \notin I
    OBVIOUS
  <1>2. S \cap ToSet(s) # {}
    BY DEF ToSet
  <1>3. First(s, S) = Min(I)
    BY <1>2 DEF First
  <1> HIDE DEF I
  <1>4. Min(I) \in I /\ Min(I) <= j
    BY <1>1, MinIs
  <1> QED BY <1>1, <1>3, <1>4

(* A new declaration of one name imports it.                               *)
LEMMA OneNameIs ==
  ASSUME NEW m \in ModuleName, NEW type \in BOOLEAN, NEW n \in Nat \ {0}
  PROVE  LET d == Decl(m, type, Absent, Absent, <<Plain(n)>>)
         IN /\ d \in Declaration /\ Named(d, Plain(n)) \in Imported(d) /\ d.from = m /\ d.type = type
  <1> DEFINE one == <<Plain(n)>>
             d == Decl(m, type, Absent, Absent, one)
  <1>1. /\ one \in Seq(Specifier) /\ Plain(n) \in ToSet(one) /\ one # NoBraces
    <2>1. Plain(n) \in Specifier /\ Plain(n) # Plain(Absent)
      BY PlainIs
    <2> QED BY <2>1 DEF ToSet, NoBraces
  <1> HIDE DEF one
  <1>2. d \in Declaration /\ d.named = one /\ d.from = m /\ d.type = type
    BY <1>1 DEF Decl, Declaration, InBraces, Absent
  <1> HIDE DEF d
  <1>3. Named(d, Plain(n)) \in Imported(d)
    BY <1>1, <1>2, ImportedIs
  <1> QED BY <1>2, <1>3 DEF d, one

(* What addImport may have found or made of it.                            *)
Ways(n) == {<<"name", n>>, <<"default">>, <<"all">>}

(* addImport has bound the value.                                          *)
LEMMA AddImportGives ==
  ASSUME NEW f \in File, NEW n \in Nat \ {0}, NEW m \in ModuleName, NEW sorted \in BOOLEAN,
         AddImport(f, n, m, sorted).ok
  PROVE  Binds(AddImport(f, n, m, sorted).file, n, m, Ways(n), TRUE)
  <1> DEFINE S == {d \in Of(f.imports, m) : ~d.type /\ d.braces}
             i == First(f.imports, S)
             fresh == Decl(m, FALSE, Absent, Absent, <<Plain(n)>>)
             bound == \E d \in Of(f.imports, m) : \E b \in BoundNames(d) : b.local = n /\ b.value /\ b.plain
             place == IF sorted THEN SpecifierPlace(f.imports[i].named, n) ELSE Len(f.imports[i].named) + 1
             named == InsertAt(f.imports[i].named, place, Plain(n))
  <1>1. f.imports \in Seq(Declaration)
    BY Parts
  <1>2. i # 0 => i \in DOMAIN f.imports /\ f.imports[i] \in S
    BY <1>1, FirstIs
  <1>3. AddImport(f, n, m, sorted) =
          IF bound THEN Done(f)
          ELSE IF Claimed(f, n) THEN Refused(f)
          ELSE IF i # 0 THEN Done([f EXCEPT !.imports[i].named = named])
          ELSE Done(IF sorted THEN InsertImport(f, fresh, SortedPlace(f.imports, m)) ELSE AppendImport(f, fresh))
    BY DEF AddImport
  <1>4. PICK s : s = Plain(n)
    OBVIOUS
  <1>5. s \in Specifier /\ Visible(s) = n /\ s.name = n /\ s.type = FALSE
    BY <1>4 DEF Plain, Specifier, Visible, Absent
  <1>6. CASE bound
    <2>1. PICK d \in Of(f.imports, m) : \E b \in BoundNames(d) : b.local = n /\ b.value /\ b.plain
      BY <1>6
    <2>2. PICK b \in BoundNames(d) : b.local = n /\ b.value /\ b.plain
      BY <2>1
    <2>3. d \in ToSet(f.imports) /\ d.from = m
      BY DEF Of
    <2>4. \E c \in Imported(d) : c.local = n /\ c.from = m /\ c.what \in Ways(n) /\ c.value
      BY <2>2, <2>3, BoundIs DEF Ways
    <2>5. AddImport(f, n, m, sorted).file = f
      <3> HIDE DEF bound
      <3>1. AddImport(f, n, m, sorted) = Done(f)
        BY <1>3, <1>6
      <3> QED BY <3>1, ResultsAre
    <2> QED BY <2>3, <2>4, <2>5 DEF Binds
  <1>7. CASE ~bound /\ ~Claimed(f, n) /\ i # 0
    <2> HIDE DEF i
    <2> DEFINE d == f.imports[i]
    <2>1. i \in DOMAIN f.imports /\ d \in Declaration /\ d.from = m /\ ~d.type
      BY <1>1, <1>2, <1>7 DEF Of
    <2>2. d.named \in Seq(Specifier) /\ Len(d.named) \in Nat
      BY <2>1 DEF Declaration
    <2>3. PICK u, q : u = d.named /\ q = place
      OBVIOUS
    <2>4. u \in Seq(Specifier) /\ q \in 1 .. Len(u) + 1
      <3>1. SpecifierPlace(u, n) \in 1 .. Len(u) + 1
        BY <2>2, <2>3, SpecifierPlaceIs
      <3> QED BY <2>2, <2>3, <3>1
    <2>5. PICK t : t = InsertAt(u, q, s)
      OBVIOUS
    <2>6. /\ t \in Seq(Specifier) /\ Len(t) = Len(u) + 1
          /\ \A k \in 1 .. Len(u) + 1 : t[k] = IF k < q THEN u[k] ELSE IF k = q THEN s ELSE u[k - 1]
      <3>1. InsertAt(u, q, s) \in Seq(Specifier) /\ MadeRoom(InsertAt(u, q, s), u, q, s)
        BY <1>5, <2>4, InsertMakesRoom
      <3> QED BY <2>5, <3>1 DEF MadeRoom
    <2>7. q \in DOMAIN t /\ t[q] = s
      BY <2>2, <2>3, <2>4, <2>6, SMTT(20)
    <2> HIDE DEF place
    <2>8. named = t
      BY <1>4, <2>3, <2>5
    <2> HIDE DEF named
    <2>9. PICK e : e = [d EXCEPT !.named = t]
      OBVIOUS
    <2>10. e.from = m /\ ~e.type /\ e.named = t
      BY <2>1, <2>9 DEF Declaration
    <2>11. Named(e, s) \in Imported(e)
      BY <2>7, <2>10, ImportedIs DEF ToSet
    <2>12. AddImport(f, n, m, sorted).file = [f EXCEPT !.imports[i] = e]
      BY <1>3, <1>7, <2>8, <2>9 DEF Done, File
    <2>13. e \in ToSet(AddImport(f, n, m, sorted).file.imports)
      BY <2>1, <2>12, ChangedIs
    <2>14. Named(e, s).local = n /\ Named(e, s).from = m /\ Named(e, s).what \in Ways(n) /\ Named(e, s).value
      BY <1>5, <2>10 DEF Named, Ways
    <2> QED BY <2>11, <2>13, <2>14 DEF Binds
  <1>8. CASE ~bound /\ ~Claimed(f, n) /\ i = 0
    <2>1. PICK e : e = fresh
      OBVIOUS
    <2>2. e \in Declaration /\ Named(e, s) \in Imported(e) /\ e.from = m /\ e.type = FALSE
      BY <1>4, <2>1, OneNameIs
    <2>3. PICK q \in 1 .. Len(f.imports) + 1 : AddImport(f, n, m, sorted).file = InsertImport(f, e, q)
      <3>1. SortedPlace(f.imports, m) \in 1 .. Len(f.imports) + 1 /\ DefaultPlace(f) \in 1 .. Len(f.imports) + 1
        BY <1>1, SortedPlaceIs, DefaultPlaceIs
      <3> HIDE DEF bound, i, fresh
      <3>2. AddImport(f, n, m, sorted) =
              Done(IF sorted THEN InsertImport(f, e, SortedPlace(f.imports, m)) ELSE AppendImport(f, e))
        BY <1>3, <1>8, <2>1
      <3>3. AddImport(f, n, m, sorted).file =
              IF sorted THEN InsertImport(f, e, SortedPlace(f.imports, m)) ELSE AppendImport(f, e)
        BY <3>2, ResultsAre
      <3> QED BY <3>1, <3>3 DEF AppendImport
    <2>4. e \in ToSet(InsertImport(f, e, q).imports)
      BY <2>2, PutInIs
    <2>5. Named(e, s).local = n /\ Named(e, s).from = m /\ Named(e, s).what \in Ways(n) /\ Named(e, s).value
      BY <1>5, <2>2 DEF Named, Ways
    <2> QED BY <2>2, <2>3, <2>4, <2>5 DEF Binds
  <1>9. CASE ~bound /\ Claimed(f, n)
    <2> HIDE DEF bound
    <2>1. AddImport(f, n, m, sorted) = Refused(f)
      BY <1>3, <1>9
    <2> QED BY <2>1, ResultsAre
  <1> QED BY <1>6, <1>7, <1>8, <1>9

(* A new declaration without braces.                                       *)
Alone(m, def, ns) == Decl(m, FALSE, def, ns, NoBraces)

LEMMA AloneIs ==
  ASSUME NEW m \in ModuleName, NEW def, NEW ns, def \in Nat, ns \in Nat
  PROVE  /\ Alone(m, def, ns) \in Declaration /\ Alone(m, def, ns).from = m
         /\ Alone(m, def, ns).def = def /\ Alone(m, def, ns).ns = ns
         /\ ~Alone(m, def, ns).braces /\ ~Alone(m, def, ns).type
  <1>1. PICK d : d = Alone(m, def, ns)
    OBVIOUS
  <1>2. InBraces(NoBraces) = <<>> /\ <<>> \in Seq(Specifier)
    BY DEF InBraces
  <1>3. d \in Declaration
    BY <1>1, <1>2 DEF Alone, Decl, Declaration
  <1>4. d.def = def /\ d.ns = ns /\ d.from = m
    BY <1>1 DEF Alone, Decl
  <1>5. ~d.braces /\ ~d.type
    BY <1>1 DEF Alone, Decl
  <1> QED BY <1>1, <1>3, <1>4, <1>5

(* What is there under a field is there in a declaration of values.        *)
LEMMA ExistingIs ==
  ASSUME NEW f \in File, NEW m, NEW field \in {"def", "ns"}, Existing(f, m, field) # Absent
  PROVE  \E d \in ToSet(f.imports) : d.from = m /\ ~d.type /\ d[field] = Existing(f, m, field)
  <1> DEFINE S == {d \in Of(f.imports, m) : ~d.type /\ d[field] # Absent}
             i == First(f.imports, S)
  <1>1. f.imports \in Seq(Declaration)
    BY Parts
  <1>2. i # 0 => i \in DOMAIN f.imports /\ f.imports[i] \in S
    BY <1>1, FirstIs
  <1>3. Existing(f, m, field) = IF i = 0 THEN Absent ELSE f.imports[i][field]
    BY DEF Existing
  <1> HIDE DEF i
  <1>4. i # 0 /\ Existing(f, m, field) = f.imports[i][field]
    BY <1>3
  <1> QED BY <1>2, <1>4 DEF Of

(* addDefaultImport has bound the default.                                 *)
LEMMA AddDefaultGives ==
  ASSUME NEW f \in File, NEW n \in Nat \ {0}, NEW m \in ModuleName, AddDefault(f, n, m).ok
  PROVE  Binds(AddDefault(f, n, m).file, n, m, {<<"default">>}, TRUE)
  <1> DEFINE S == {d \in Of(f.imports, m) : ~d.type /\ ~Bare(d)}
             i == First(f.imports, S)
             there == Existing(f, m, "def")
             fresh == Alone(m, n, Absent)
  <1>1. f.imports \in Seq(Declaration)
    BY Parts
  <1>2. i # 0 => i \in DOMAIN f.imports /\ f.imports[i] \in S
    BY <1>1, FirstIs
  <1>3. i # 0 => f.imports[i].from = m /\ ~f.imports[i].type /\ f.imports[i] \in Declaration
    <2> HIDE DEF i
    <2> QED BY <1>1, <1>2 DEF Of
  <1>4. AddDefault(f, n, m) =
          IF there = n THEN Done(f)
          ELSE IF there # Absent \/ Claimed(f, n) THEN Refused(f)
          ELSE IF i # 0 THEN Done([f EXCEPT !.imports[i].def = n])
          ELSE Done(AppendImport(f, fresh))
    BY DEF AddDefault, Alone
  <1>5. \A d : /\ Whole(d, n, <<"default">>).local = n /\ Whole(d, n, <<"default">>).from = d.from
               /\ Whole(d, n, <<"default">>).what = <<"default">> /\ (Whole(d, n, <<"default">>).value <=> ~d.type)
    BY DEF Whole
  <1>6. \A d : d.def = n => Whole(d, n, <<"default">>) \in Imported(d)
    BY ImportedIs DEF Absent
  <1>7. ASSUME NEW g, NEW d \in ToSet(g.imports), d.from = m, ~d.type, d.def = n
        PROVE  Binds(g, n, m, {<<"default">>}, TRUE)
    BY <1>5, <1>6, <1>7 DEF Binds
  <1> HIDE DEF i, there
  <1>8. CASE there = n
    <2>1. \E d \in ToSet(f.imports) : d.from = m /\ ~d.type /\ d.def = n
      BY <1>8, ExistingIs DEF there, Absent
    <2>2. AddDefault(f, n, m).file = f
      BY <1>4, <1>8, ResultsAre
    <2> QED BY <1>7, <2>1, <2>2
  <1>9. CASE there # n /\ (there # Absent \/ Claimed(f, n))
    <2>1. AddDefault(f, n, m) = Refused(f)
      BY <1>4, <1>9
    <2> QED BY <2>1, ResultsAre
  <1>10. CASE there # n /\ ~(there # Absent \/ Claimed(f, n)) /\ i # 0
    <2>1. PICK e : e = [f.imports[i] EXCEPT !.def = n]
      OBVIOUS
    <2>2. e.from = m /\ ~e.type /\ e.def = n
      BY <1>3, <1>10, <2>1 DEF Declaration
    <2>3. AddDefault(f, n, m).file = [f EXCEPT !.imports[i].def = n]
      BY <1>4, <1>10, ResultsAre
    <2>4. AddDefault(f, n, m).file = [f EXCEPT !.imports[i] = e]
      BY <2>1, <2>3 DEF File
    <2>5. e \in ToSet(AddDefault(f, n, m).file.imports)
      BY <1>2, <1>10, <2>4, ChangedIs
    <2> QED BY <1>7, <2>2, <2>5
  <1>11. CASE there # n /\ ~(there # Absent \/ Claimed(f, n)) /\ i = 0
    <2>1. PICK e : e = fresh
      OBVIOUS
    <2>2. e \in Declaration /\ e.from = m /\ ~e.type /\ e.def = n
      <3>1. Absent \in Nat /\ n \in Nat
        BY DEF Absent
      <3> QED BY <2>1, <3>1, AloneIs
    <2>3. AddDefault(f, n, m) = Done(InsertImport(f, e, DefaultPlace(f)))
      <3> HIDE DEF fresh
      <3> QED BY <2>1, <1>4, <1>11 DEF AppendImport
    <2>4. DefaultPlace(f) \in 1 .. Len(f.imports) + 1
      BY DefaultPlaceIs
    <2>5. e \in ToSet(AddDefault(f, n, m).file.imports)
      BY <2>2, <2>3, <2>4, PutInIs, ResultsAre
    <2> QED BY <1>7, <2>2, <2>5
  <1> QED BY <1>8, <1>9, <1>10, <1>11

(* addNamespaceImport has bound the namespace.                             *)
LEMMA AddNamespaceGives ==
  ASSUME NEW f \in File, NEW n \in Nat \ {0}, NEW m \in ModuleName, AddNamespace(f, n, m).ok
  PROVE  Binds(AddNamespace(f, n, m).file, n, m, {<<"all">>}, TRUE)
  <1> DEFINE S == {d \in Of(f.imports, m) : ~d.type /\ d.def # Absent /\ d.ns = Absent /\ ~d.braces}
             i == First(f.imports, S)
             there == Existing(f, m, "ns")
             fresh == Alone(m, Absent, n)
  <1>1. f.imports \in Seq(Declaration)
    BY Parts
  <1>2. i # 0 => i \in DOMAIN f.imports /\ f.imports[i] \in S
    BY <1>1, FirstIs
  <1>3. i # 0 => f.imports[i].from = m /\ ~f.imports[i].type /\ f.imports[i] \in Declaration
    <2> HIDE DEF i
    <2> QED BY <1>1, <1>2 DEF Of
  <1>4. AddNamespace(f, n, m) =
          IF there = n THEN Done(f)
          ELSE IF there # Absent \/ Claimed(f, n) THEN Refused(f)
          ELSE IF i # 0 THEN Done([f EXCEPT !.imports[i].ns = n])
          ELSE Done(AppendImport(f, fresh))
    BY DEF AddNamespace, Alone
  <1>5. \A d : /\ Whole(d, n, <<"all">>).local = n /\ Whole(d, n, <<"all">>).from = d.from
               /\ Whole(d, n, <<"all">>).what = <<"all">> /\ (Whole(d, n, <<"all">>).value <=> ~d.type)
    BY DEF Whole
  <1>6. \A d : d.ns = n => Whole(d, n, <<"all">>) \in Imported(d)
    BY ImportedIs DEF Absent
  <1>7. ASSUME NEW g, NEW d \in ToSet(g.imports), d.from = m, ~d.type, d.ns = n
        PROVE  Binds(g, n, m, {<<"all">>}, TRUE)
    BY <1>5, <1>6, <1>7 DEF Binds
  <1> HIDE DEF i, there
  <1>8. CASE there = n
    <2>1. \E d \in ToSet(f.imports) : d.from = m /\ ~d.type /\ d.ns = n
      BY <1>8, ExistingIs DEF there, Absent
    <2>2. AddNamespace(f, n, m).file = f
      BY <1>4, <1>8, ResultsAre
    <2> QED BY <1>7, <2>1, <2>2
  <1>9. CASE there # n /\ (there # Absent \/ Claimed(f, n))
    <2>1. AddNamespace(f, n, m) = Refused(f)
      BY <1>4, <1>9
    <2> QED BY <2>1, ResultsAre
  <1>10. CASE there # n /\ ~(there # Absent \/ Claimed(f, n)) /\ i # 0
    <2>1. PICK e : e = [f.imports[i] EXCEPT !.ns = n]
      OBVIOUS
    <2>2. e.from = m /\ ~e.type /\ e.ns = n
      BY <1>3, <1>10, <2>1 DEF Declaration
    <2>3. AddNamespace(f, n, m).file = [f EXCEPT !.imports[i].ns = n]
      BY <1>4, <1>10, ResultsAre
    <2>4. AddNamespace(f, n, m).file = [f EXCEPT !.imports[i] = e]
      BY <2>1, <2>3 DEF File
    <2>5. e \in ToSet(AddNamespace(f, n, m).file.imports)
      BY <1>2, <1>10, <2>4, ChangedIs
    <2> QED BY <1>7, <2>2, <2>5
  <1>11. CASE there # n /\ ~(there # Absent \/ Claimed(f, n)) /\ i = 0
    <2>1. PICK e : e = fresh
      OBVIOUS
    <2>2. e \in Declaration /\ e.from = m /\ ~e.type /\ e.ns = n
      <3>1. Absent \in Nat /\ n \in Nat
        BY DEF Absent
      <3> QED BY <2>1, <3>1, AloneIs
    <2>3. AddNamespace(f, n, m) = Done(InsertImport(f, e, DefaultPlace(f)))
      <3> HIDE DEF fresh
      <3> QED BY <2>1, <1>4, <1>11 DEF AppendImport
    <2>4. DefaultPlace(f) \in 1 .. Len(f.imports) + 1
      BY DefaultPlaceIs
    <2>5. e \in ToSet(AddNamespace(f, n, m).file.imports)
      BY <2>2, <2>3, <2>4, PutInIs, ResultsAre
    <2> QED BY <1>7, <2>2, <2>5
  <1> QED BY <1>8, <1>9, <1>10, <1>11

(* addTypeImport has bound the name.                                       *)
LEMMA AddTypeGives ==
  ASSUME NEW f \in File, NEW n \in Nat \ {0}, NEW m \in ModuleName, AddType(f, n, m).ok
  PROVE  Binds(AddType(f, n, m).file, n, m, {<<"name", n>>}, FALSE)
  <1> DEFINE bound == \E d \in Of(f.imports, m) : \E b \in BoundNames(d) : b.local = n /\ ~b.whole /\ b.plain
             taken == Claimed(f, n) \/ \E v \in f.locals : v.name = n
             fresh == Decl(m, TRUE, Absent, Absent, <<Plain(n)>>)
  <1>1. AddType(f, n, m) = IF bound THEN Done(f) ELSE IF taken THEN Refused(f) ELSE Done(AppendImport(f, fresh))
    BY DEF AddType
  <1>2. CASE bound
    <2>1. PICK d \in Of(f.imports, m) : \E b \in BoundNames(d) : b.local = n /\ ~b.whole /\ b.plain
      BY <1>2
    <2>2. PICK b \in BoundNames(d) : b.local = n /\ ~b.whole /\ b.plain
      BY <2>1
    <2>3. d \in ToSet(f.imports) /\ d.from = m
      BY DEF Of
    <2>4. \E c \in Imported(d) : c.local = n /\ c.from = m /\ c.what \in {<<"name", n>>}
      BY <2>2, <2>3, BoundIs
    <2> HIDE DEF bound
    <2>5. AddType(f, n, m).file = f
      BY <1>1, <1>2, ResultsAre
    <2> QED BY <2>3, <2>4, <2>5 DEF Binds
  <1> HIDE DEF bound, taken, fresh
  <1>3. CASE ~bound /\ taken
    <2>1. AddType(f, n, m) = Refused(f)
      BY <1>1, <1>3
    <2> QED BY <2>1, ResultsAre
  <1>4. CASE ~bound /\ ~taken
    <2>1. fresh \in Declaration /\ Named(fresh, Plain(n)) \in Imported(fresh) /\ fresh.from = m
      BY OneNameIs DEF fresh
    <2>2. AddType(f, n, m).file = InsertImport(f, fresh, DefaultPlace(f))
      BY <1>1, <1>4, ResultsAre DEF AppendImport
    <2>3. DefaultPlace(f) \in 1 .. Len(f.imports) + 1
      BY DefaultPlaceIs
    <2>4. fresh \in ToSet(AddType(f, n, m).file.imports)
      BY <2>1, <2>2, <2>3, PutInIs
    <2>5. Visible(Plain(n)) = n /\ Plain(n).name = n
      BY PlainIs DEF Plain
    <2>6. /\ Named(fresh, Plain(n)).local = n /\ Named(fresh, Plain(n)).from = m
          /\ Named(fresh, Plain(n)).what = <<"name", n>>
      BY <2>1, <2>5 DEF Named
    <2> QED BY <2>1, <2>4, <2>6 DEF Binds
  <1> QED BY <1>2, <1>3, <1>4

(* addSideEffectImport has the module run.                                 *)
LEMMA AddSideEffectGives ==
  ASSUME NEW f \in File, NEW m \in ModuleName
  PROVE  \E d \in ToSet(AddSideEffect(f, m).file.imports) : Bare(d) /\ d.from = m
  <1> DEFINE fresh == Alone(m, Absent, Absent)
  <1>1. AddSideEffect(f, m) =
          IF \E d \in Of(f.imports, m) : Bare(d) THEN Done(f) ELSE Done(AppendImport(f, fresh))
    BY DEF AddSideEffect, Alone
  <1>2. CASE \E d \in Of(f.imports, m) : Bare(d)
    <2>1. AddSideEffect(f, m).file = f
      BY <1>1, <1>2, ResultsAre
    <2> QED BY <1>2, <2>1 DEF Of
  <1>3. CASE ~\E d \in Of(f.imports, m) : Bare(d)
    <2>1. PICK e : e = fresh
      OBVIOUS
    <2>2. e \in Declaration /\ e.from = m /\ e.def = Absent /\ e.ns = Absent /\ ~e.braces
      <3>1. Absent \in Nat
        BY DEF Absent
      <3> QED BY <2>1, <3>1, AloneIs
    <2>3. AddSideEffect(f, m) = Done(InsertImport(f, e, DefaultPlace(f)))
      <3> HIDE DEF fresh
      <3> QED BY <2>1, <1>1, <1>3 DEF AppendImport
    <2>4. DefaultPlace(f) \in 1 .. Len(f.imports) + 1
      BY DefaultPlaceIs
    <2>5. e \in ToSet(AddSideEffect(f, m).file.imports)
      BY <2>2, <2>3, <2>4, PutInIs, ResultsAre
    <2> QED BY <2>2, <2>5 DEF Bare
  <1> QED BY <1>2, <1>3

(* What stands for a name of a module is a name in braces.                 *)
LEMMA NamedIs ==
  ASSUME NEW d, NEW n, NEW b \in Imported(d), b.what = <<"name", n>>
  PROVE  \E s \in ToSet(d.named) : b = Named(d, s) /\ s.name = n
  <1>1. <<"name", n>> # <<"default">> /\ <<"name", n>> # <<"all">>
    <2>1. Len(<<"name", n>>) = 2 /\ Len(<<"default">>) = 1 /\ Len(<<"all">>) = 1
      OBVIOUS
    <2> QED BY <2>1
  <1>2. b # Whole(d, d.def, <<"default">>) /\ b # Whole(d, d.ns, <<"all">>)
    BY <1>1 DEF Whole
  <1>3. PICK s \in ToSet(d.named) : b = Named(d, s)
    BY <1>2, ImportedIs
  <1>4. <<"name", s.name>> = <<"name", n>>
    BY <1>3 DEF Named
  <1>5. <<"name", s.name>>[2] = s.name /\ <<"name", n>>[2] = n
    OBVIOUS
  <1> QED BY <1>3, <1>4, <1>5

(* A binding for a name of a module.                                       *)
StandsFor(b, n, m) == b.from = m /\ b.what = <<"name", n>>

(* removeImport takes out a binding of the name: one that is left under it *)
(* is another one.                                                         *)
LEMMA RemoveImportTakes ==
  ASSUME NEW f \in File, Compilable(f), NEW n \in Nat, NEW m \in ModuleName,
         NEW e \in ToSet(RemoveImport(f, n, m).file.imports), NEW b \in Imported(e),
         StandsFor(b, n, m)
  PROVE  \E d \in ToSet(f.imports) : \E c \in Imported(d) : StandsFor(c, n, m) /\ c # b
  <1> DEFINE S == {d \in Of(f.imports, m) : \E s \in ToSet(d.named) : s.name = n}
             i == First(f.imports, S)
             d == f.imports[i]
             R == {s \in ToSet(d.named) : s.name = n}
             k == First(d.named, R)
             gone == [f EXCEPT !.imports = RemoveAt(@, i)]
             less == [f EXCEPT !.imports[i] = Without(d, k)]
  <1>1. f.imports \in Seq(Declaration) /\ BoundOnce(f.imports)
    BY Parts DEF Compilable
  <1>2. i # 0 => i \in DOMAIN f.imports /\ d \in S
    <2> HIDE DEF S
    <2> QED BY <1>1, FirstIs
  <1>3. i = 0 => \A j \in DOMAIN f.imports : f.imports[j] \notin S
    <2> HIDE DEF S
    <2> QED BY <1>1, FirstIs
  <1>4. RemoveImport(f, n, m) =
          IF i = 0 THEN Done(f)
          ELSE IF Len(d.named) = 1 /\ d.def = Absent /\ d.ns = Absent THEN Done(gone)
          ELSE Done(less)
    BY DEF RemoveImport, Without
  <1>5. PICK s \in ToSet(e.named) : b = Named(e, s) /\ s.name = n
    BY NamedIs DEF StandsFor
  <1>6. e.from = m
    BY <1>5 DEF Named, StandsFor
  <1>7. i # 0
    <2> SUFFICES ASSUME i = 0 PROVE FALSE
      OBVIOUS
    <2> HIDE DEF i, d, k, gone, less
    <2>1. RemoveImport(f, n, m).file = f
      BY <1>4, ResultsAre
    <2>2. e \in S
      BY <1>5, <1>6, <2>1 DEF Of
    <2> HIDE DEF S
    <2> QED BY <1>3, <2>1, <2>2 DEF ToSet
  <1>8. i \in DOMAIN f.imports /\ d \in Declaration /\ d \in ToSet(f.imports) /\ d.from = m /\ Allowed(d)
    <2> HIDE DEF i
    <2>1. i \in DOMAIN f.imports /\ d \in S
      BY <1>2, <1>7
    <2>2. d \in ToSet(f.imports) /\ d.from = m
      BY <2>1 DEF Of
    <2> QED BY <1>1, <2>1, <2>2 DEF Compilable
  <1>9. k \in DOMAIN d.named /\ d.named[k].name = n /\ d.named \in Seq(Specifier)
    <2> HIDE DEF i
    <2>1. d.named \in Seq(Specifier)
      BY <1>8 DEF Declaration
    <2>2. PICK j \in DOMAIN d.named : d.named[j] \in R
      BY <1>2, <1>7 DEF ToSet
    <2> HIDE DEF d
    <2>3. k \in DOMAIN d.named /\ d.named[k] \in R
      BY <2>1, <2>2, FirstIs
    <2> QED BY <2>1, <2>3
  <1> HIDE DEF i, d, k
  <1>10. PICK c : c = Named(d, d.named[k])
    OBVIOUS
  <1>11. c \in Imported(d) /\ StandsFor(c, n, m) /\ c.local = Visible(d.named[k])
    <2>1. d.named[k] \in ToSet(d.named)
      BY <1>9 DEF ToSet
    <2>2. c \in Imported(d)
      BY <1>10, <2>1, ImportedIs
    <2> QED BY <1>8, <1>9, <1>10, <2>2 DEF Named, StandsFor
  <1>12. ASSUME NEW j \in DOMAIN f.imports, j # i, e = f.imports[j] PROVE c # b
    <2>1. b \in Imported(f.imports[j]) /\ c \in Imported(f.imports[i])
      BY <1>11, <1>12 DEF d
    <2>2. b.local = c.local => j = i
      BY <1>1, <1>8, <2>1 DEF BoundOnce
    <2> QED BY <1>12, <2>2
  <1>13. CASE RemoveImport(f, n, m) = Done(gone)
    <2>1. RemoveImport(f, n, m).file.imports = RemoveAt(f.imports, i)
      BY <1>13, ResultsAre DEF File
    <2>2. PICK t : t = RemoveAt(f.imports, i)
      OBVIOUS
    <2>3. PICK x : x = 0
      OBVIOUS
    <2>4. Grown(t, f.imports, x, 0)
      BY <1>1, <1>8, <2>2, RemoveShrinks
    <2>5. e \in ToSet(t)
      BY <2>1, <2>2
    <2>6. PICK j \in DOMAIN f.imports : j # i /\ e = f.imports[j]
      <3>1. /\ t \in Seq(Declaration) /\ Len(t) = Len(f.imports) - 1
            /\ \A l \in 1 .. Len(f.imports) - 1 : t[l] = IF l < i THEN f.imports[l] ELSE f.imports[l + 1]
        BY <1>1, <1>8, <2>2, RemoveIs
      <3>2. PICK l \in 1 .. Len(f.imports) - 1 : e = t[l]
        BY <2>5, <3>1 DEF ToSet
      <3>3. i \in 1 .. Len(f.imports) /\ Len(f.imports) \in Nat
        BY <1>1, <1>8
      <3>4. CASE l < i
        BY <3>1, <3>2, <3>3, <3>4, <1>1
      <3>5. CASE ~(l < i)
        <4>1. l + 1 \in DOMAIN f.imports /\ l + 1 # i /\ e = f.imports[l + 1]
          BY <3>1, <3>2, <3>3, <3>5, <1>1
        <4> QED BY <4>1
      <3> QED BY <3>4, <3>5
    <2>7. c # b
      BY <1>12, <2>6
    <2> QED BY <1>8, <1>11, <2>7
  <1>14. CASE RemoveImport(f, n, m) = Done(less)
    <2> SUFFICES c # b
      BY <1>8, <1>11
    <2>1. PICK u, t : u = d.named /\ t = RemoveAt(u, k)
      OBVIOUS
    <2>2. PICK h : h = Without(d, k)
      OBVIOUS
    <2>3. RemoveImport(f, n, m).file.imports = [f.imports EXCEPT ![i] = h]
      <3>1. RemoveImport(f, n, m).file = less
        BY <1>14, ResultsAre
      <3> QED BY <2>2, <3>1 DEF File
    <2>4. PICK j \in DOMAIN f.imports : e = [f.imports EXCEPT ![i] = h][j]
      BY <2>3 DEF ToSet
    <2>5. CASE j # i
      BY <1>12, <2>4, <2>5
    <2>6. CASE j = i
      <3>1. e = h /\ e.named = t
        BY <1>8, <2>1, <2>2, <2>4, <2>6 DEF Declaration, Without
      <3>2. PICK l \in DOMAIN t : s = t[l]
        BY <1>5, <3>1 DEF ToSet
      <3>3. u \in Seq(Specifier) /\ k \in DOMAIN u /\ Distinct(u)
        BY <1>8, <1>9, <2>1 DEF Allowed
      <3>4. /\ t \in Seq(Specifier) /\ Len(t) = Len(u) - 1
            /\ \A q \in 1 .. Len(u) - 1 : t[q] = IF q < k THEN u[q] ELSE u[q + 1]
        BY <2>1, <3>3, RemoveIs
      <3>5. PICK q \in DOMAIN u : q # k /\ s = u[q]
        <4>1. l \in 1 .. Len(u) - 1 /\ k \in 1 .. Len(u) /\ Len(u) \in Nat
          BY <3>2, <3>3, <3>4
        <4>2. CASE l < k
          BY <3>2, <3>3, <3>4, <4>1, <4>2
        <4>3. CASE ~(l < k)
          <5>1. l + 1 \in DOMAIN u /\ l + 1 # k /\ s = u[l + 1]
            BY <3>2, <3>3, <3>4, <4>1, <4>3
          <5> QED BY <5>1
        <4> QED BY <4>2, <4>3
      <3>6. Visible(u[q]) # Visible(u[k])
        BY <3>3, <3>5 DEF Distinct
      <3>7. b.local = Visible(u[q]) /\ c.local = Visible(u[k])
        BY <1>5, <1>11, <2>1, <3>5 DEF Named
      <3> QED BY <3>6, <3>7
    <2> QED BY <2>5, <2>6
  <1> QED BY <1>4, <1>7, <1>8, <1>11, <1>13, <1>14

(* A file re-exports a name.                                               *)
ReexportsName(f, n, m) ==
  \E e \in ToSet(f.exports) : \E x \in Reexported(e) : StandsFor(x, n, m)

(* addReExport has re-exported the name.                                   *)
LEMMA AddReExportGives ==
  ASSUME NEW f \in File, NEW n \in Nat \ {0}, NEW m \in ModuleName, AddReExport(f, n, m).ok
  PROVE  ReexportsName(AddReExport(f, n, m).file, n, m)
  <1> DEFINE there == \E e \in Of(f.exports, m) : \E s \in ToSet(e.named) : s.name = n
             S == {e \in Of(f.exports, m) : ~e.star}
             i == First(f.exports, S)
             fresh == ExportDecl(m, Absent, <<Plain(n)>>)
  <1>1. f.exports \in Seq(Export)
    BY Parts
  <1>2. i # 0 => i \in DOMAIN f.exports /\ f.exports[i] \in S
    <2> HIDE DEF S
    <2> QED BY <1>1, FirstIs
  <1>3. AddReExport(f, n, m) =
          IF there THEN Done(f)
          ELSE IF n \in ExportedNames(f) THEN Refused(f)
          ELSE IF i # 0 THEN Done([f EXCEPT !.exports[i].named = Append(@, Plain(n))])
          ELSE Done([f EXCEPT !.exports = Append(@, fresh)])
    BY DEF AddReExport
  <1>4. PICK s : s = Plain(n)
    OBVIOUS
  <1>5. s \in Specifier /\ s.name = n
    BY <1>4 DEF Plain, Specifier, Absent
  <1>6. ASSUME NEW e \in ToSet(AddReExport(f, n, m).file.exports), e.from = m,
               NEW y \in ToSet(e.named), y.name = n
        PROVE  ReexportsName(AddReExport(f, n, m).file, n, m)
    <2>1. AsName(m, y) \in Reexported(e)
      BY <1>6, ReexportedIs
    <2> QED BY <1>6, <2>1 DEF AsName, StandsFor, ReexportsName
  <1>7. CASE there
    <2>1. PICK e \in Of(f.exports, m) : \E y \in ToSet(e.named) : y.name = n
      BY <1>7
    <2> HIDE DEF there, i
    <2>2. AddReExport(f, n, m).file = f
      BY <1>3, <1>7, ResultsAre
    <2>3. PICK y \in ToSet(e.named) : y.name = n
      BY <2>1
    <2>4. e \in ToSet(f.exports) /\ e.from = m
      BY DEF Of
    <2> QED BY <1>6, <2>2, <2>3, <2>4
  <1> HIDE DEF there, i, fresh
  <1>8. CASE ~there /\ n \in ExportedNames(f)
    <2>1. AddReExport(f, n, m) = Refused(f)
      BY <1>3, <1>8
    <2> QED BY <2>1, ResultsAre
  <1>9. CASE ~there /\ n \notin ExportedNames(f) /\ i # 0
    <2>1. /\ i \in DOMAIN f.exports /\ f.exports[i] \in Export /\ f.exports[i].from = m
          /\ f.exports[i].named \in Seq(Specifier)
      <3>1. i \in DOMAIN f.exports /\ f.exports[i] \in Export /\ f.exports[i] \in S
        <4> HIDE DEF S
        <4> QED BY <1>1, <1>2, <1>9
      <3>2. f.exports[i].from = m
        BY <3>1 DEF Of
      <3> QED BY <3>1, <3>2 DEF Export
    <2>2. PICK u, t : u = f.exports[i].named /\ t = Append(u, s)
      OBVIOUS
    <2>3. PICK e : e = [f.exports[i] EXCEPT !.named = t]
      OBVIOUS
    <2>4. e.from = m /\ e.named = t
      BY <2>1, <2>3 DEF Export
    <2>5. AddReExport(f, n, m).file = [f EXCEPT !.exports[i].named = Append(@, Plain(n))]
      BY <1>3, <1>9, ResultsAre
    <2>6. AddReExport(f, n, m).file.exports = [f.exports EXCEPT ![i] = e]
      BY <1>4, <2>2, <2>3, <2>5 DEF File
    <2>7. e \in ToSet(AddReExport(f, n, m).file.exports)
      <3>1. i \in DOMAIN [f.exports EXCEPT ![i] = e] /\ [f.exports EXCEPT ![i] = e][i] = e
        BY <2>1
      <3> QED BY <2>6, <3>1 DEF ToSet
    <2>8. s \in ToSet(t)
      <3>1. Len(u) + 1 \in DOMAIN t /\ t[Len(u) + 1] = s
        BY <2>1, <2>2
      <3> QED BY <3>1 DEF ToSet
    <2> QED BY <1>5, <1>6, <2>4, <2>7, <2>8
  <1>10. CASE ~there /\ n \notin ExportedNames(f) /\ i = 0
    <2>1. fresh.from = m /\ s \in ToSet(fresh.named)
      <3>1. Plain(n) # Plain(Absent)
        BY PlainIs
      <3>2. fresh.from = m /\ fresh.named = <<s>>
        BY <1>4, <3>1 DEF fresh, ExportDecl, InBraces, NoBraces
      <3> QED BY <3>2 DEF ToSet
    <2>2. AddReExport(f, n, m).file = [f EXCEPT !.exports = Append(@, fresh)]
      BY <1>3, <1>10, ResultsAre
    <2>3. AddReExport(f, n, m).file.exports = Append(f.exports, fresh)
      BY <2>2 DEF File
    <2>4. fresh \in ToSet(Append(f.exports, fresh))
      <3>1. Len(f.exports) + 1 \in DOMAIN Append(f.exports, fresh) /\ Append(f.exports, fresh)[Len(f.exports) + 1] = fresh
        BY <1>1
      <3> QED BY <3>1 DEF ToSet
    <2> QED BY <1>5, <1>6, <2>1, <2>3, <2>4
  <1> QED BY <1>7, <1>8, <1>9, <1>10

(* addExportAll has exported everything, under the name asked for.         *)
LEMMA AddExportAllGives ==
  ASSUME NEW f \in File, NEW m \in ModuleName, NEW ns \in Nat, AddExportAll(f, m, ns).ok
  PROVE  \E e \in ToSet(AddExportAll(f, m, ns).file.exports) :
           \E x \in Reexported(e) : x.from = m /\ x.visible = ns
  <1> DEFINE there == \E e \in Of(f.exports, m) : e.star /\ e.ns = ns
             fresh == ExportDecl(m, ns, NoBraces)
  <1>1. AddExportAll(f, m, ns) =
          IF there THEN Done(f)
          ELSE IF ns # Absent /\ ns \in ExportedNames(f) THEN Refused(f)
          ELSE Done([f EXCEPT !.exports = Append(@, fresh)])
    BY DEF AddExportAll
  <1>2. ASSUME NEW e \in ToSet(AddExportAll(f, m, ns).file.exports), e.from = m, e.star = TRUE, e.ns = ns
        PROVE  \E x \in Reexported(e) : x.from = m /\ x.visible = ns
    <2>1. AsAll(m, ns) \in Reexported(e)
      BY <1>2, ReexportedIs
    <2> QED BY <2>1 DEF AsAll
  <1>3. CASE there
    <2>1. PICK e \in Of(f.exports, m) : e.star /\ e.ns = ns
      BY <1>3
    <2>2. e \in ToSet(f.exports) /\ e.from = m /\ e.star = TRUE
      <3>1. e \in ToSet(f.exports) /\ e.from = m
        BY DEF Of
      <3>2. e \in Export
        BY <3>1, Parts DEF ToSet
      <3> QED BY <2>1, <3>1, <3>2 DEF Export
    <2> HIDE DEF there
    <2>3. AddExportAll(f, m, ns).file = f
      BY <1>1, <1>3, ResultsAre
    <2> QED BY <1>2, <2>1, <2>2, <2>3
  <1> HIDE DEF there, fresh
  <1>4. CASE ~there /\ ns # Absent /\ ns \in ExportedNames(f)
    <2>1. AddExportAll(f, m, ns) = Refused(f)
      BY <1>1, <1>4
    <2> QED BY <2>1, ResultsAre
  <1>5. CASE ~there /\ ~(ns # Absent /\ ns \in ExportedNames(f))
    <2>1. fresh.from = m /\ fresh.star = TRUE /\ fresh.ns = ns
      BY DEF fresh, ExportDecl
    <2>2. AddExportAll(f, m, ns).file = [f EXCEPT !.exports = Append(@, fresh)]
      BY <1>1, <1>5, ResultsAre
    <2>3. AddExportAll(f, m, ns).file.exports = Append(f.exports, fresh)
      BY <2>2 DEF File
    <2>4. fresh \in ToSet(Append(f.exports, fresh))
      <3>1. Len(f.exports) + 1 \in DOMAIN Append(f.exports, fresh) /\ Append(f.exports, fresh)[Len(f.exports) + 1] = fresh
        BY Parts
      <3> QED BY <3>1 DEF ToSet
    <2> QED BY <1>2, <2>1, <2>3, <2>4
  <1> QED BY <1>3, <1>4, <1>5

(* addImport leaves the list and the routes alone.                         *)
LEMMA OnlyImports ==
  ASSUME NEW f \in File, NEW n \in Nat \ {0}, NEW m \in ModuleName, NEW sorted \in BOOLEAN
  PROVE  /\ AddImport(f, n, m, sorted).file.list = f.list
         /\ AddImport(f, n, m, sorted).file.routes = f.routes
  <1>1. \A s : [f EXCEPT !.imports = s].list = f.list /\ [f EXCEPT !.imports = s].routes = f.routes
    BY DEF File
  <1>2. PICK r : r = AddImport(f, n, m, sorted)
    OBVIOUS
  <1>3. r = Done(f) \/ r = Refused(f) \/ \E s : r = Done([f EXCEPT !.imports = s])
    BY <1>2 DEF AddImport, InsertImport, AppendImport
  <1>4. r.file = f \/ \E s : r.file = [f EXCEPT !.imports = s]
    BY <1>3, ResultsAre
  <1>5. r.file.list = f.list /\ r.file.routes = f.routes
    BY <1>1, <1>4
  <1> QED BY <1>2, <1>5

(* An entry of a list is there, and its import.                            *)
LEMMA AddEntryGives ==
  ASSUME NEW f \in File, Compilable(f), NEW n \in Nat \ {0}, NEW m \in ModuleName, AddEntry(f, n, m).ok
  PROVE  n \in AddEntry(f, n, m).file.list.names /\ Binds(AddEntry(f, n, m).file, n, m, Ways(n), TRUE)
  <1>1. PICK r : r = AddImport(f, n, m, FALSE)
    OBVIOUS
  <1>2. AddEntry(f, n, m) = IF ~f.list.usable \/ ~r.ok THEN Refused(f)
                            ELSE Done([r.file EXCEPT !.list.names = @ \cup {n}])
    BY <1>1 DEF AddEntry
  <1>3. r.ok /\ AddEntry(f, n, m) = Done([r.file EXCEPT !.list.names = @ \cup {n}])
    BY <1>2, ResultsAre
  <1>4. r.file \in File /\ Binds(r.file, n, m, Ways(n), TRUE)
    BY <1>1, <1>3, AddImportIsGood, AddImportGives DEF Good
  <1>5. PICK g : g = r.file
    OBVIOUS
  <1>6. PICK h : h = [g EXCEPT !.list.names = @ \cup {n}]
    OBVIOUS
  <1>7. h.imports = g.imports /\ n \in h.list.names
    BY <1>4, <1>5, <1>6 DEF File
  <1>8. AddEntry(f, n, m).file = h
    BY <1>3, <1>5, <1>6, ResultsAre
  <1> QED BY <1>4, <1>5, <1>7, <1>8 DEF Binds

(* An element is there before its import, and after it.                    *)
LEMMA AddElementGives ==
  ASSUME NEW f \in File, NEW n \in Nat \ {0}, NEW m \in ModuleName, AddElement(f, n, m).ok
  PROVE  n \in AddElement(f, n, m).file.list.names /\ Binds(AddElement(f, n, m).file, n, m, Ways(n), TRUE)
  <1>1. PICK h : h = [f EXCEPT !.list.names = @ \cup {n}]
    OBVIOUS
  <1>2. AddElement(f, n, m) = IF ~f.list.usable THEN Refused(f) ELSE AddImport(h, n, m, FALSE)
    BY <1>1 DEF AddElement
  <1>3. AddElement(f, n, m) = AddImport(h, n, m, FALSE)
    BY <1>2, ResultsAre
  <1>4. h \in File /\ n \in h.list.names
    BY <1>1 DEF File
  <1>5. AddImport(h, n, m, FALSE).file.list = h.list
    BY <1>4, OnlyImports
  <1>6. Binds(AddImport(h, n, m, FALSE).file, n, m, Ways(n), TRUE)
    BY <1>3, <1>4, AddImportGives
  <1> QED BY <1>3, <1>4, <1>5, <1>6

(* A route is there, and a new one before every wildcard.                  *)
RouteIsThere(old, new, route) ==
  \E i \in DOMAIN new :
     /\ new[i] = route
     /\ route.path # Wildcard /\ route \notin ToSet(old) => \A j \in 1 .. i : new[j].path # Wildcard

LEMMA AddRouteGives ==
  ASSUME NEW f \in File, NEW path \in Nat, NEW n \in Nat \ {0}, NEW m \in ModuleName, AddRoute(f, path, n, m).ok
  PROVE  RouteIsThere(f.routes, AddRoute(f, path, n, m).file.routes, [path |-> path, to |-> n])
  <1> DEFINE T == [path: Nat, to: Nat]
             S == {r \in ToSet(f.routes) : r.path = Wildcard}
             i == First(f.routes, S)
  <1>1. PICK route : route = [path |-> path, to |-> n]
    OBVIOUS
  <1>2. PICK place : place = IF i = 0 THEN Len(f.routes) + 1 ELSE i
    OBVIOUS
  <1>3. PICK old, new : old = f.routes /\ new = InsertAt(old, place, route)
    OBVIOUS
  <1>4. PICK h : h = [f EXCEPT !.routes = new]
    OBVIOUS
  <1>5. AddRoute(f, path, n, m) =
          IF route \in ToSet(f.routes) THEN AddImport(f, n, m, FALSE)
          ELSE IF \E r \in ToSet(f.routes) : r.path = path THEN Refused(f)
          ELSE AddImport(h, n, m, FALSE)
    BY <1>1, <1>2, <1>3, <1>4 DEF AddRoute
  <1>6. old \in Seq(T) /\ Len(old) \in Nat /\ DOMAIN old = 1 .. Len(old) /\ route \in T
    BY <1>1, <1>3, Parts
  <1>7. i # 0 => i \in DOMAIN old
    <2> HIDE DEF S, T
    <2> QED BY <1>3, <1>6, FirstIs
  <1>8. \A j \in DOMAIN old : old[j].path = Wildcard => i # 0 /\ i <= j
    <2>1. \A j \in DOMAIN old : old[j].path = Wildcard => old[j] \in S
      BY <1>3 DEF ToSet
    <2> HIDE DEF S, T
    <2> QED BY <1>3, <1>6, <2>1, FirstIsFirst
  <1> HIDE DEF i, S, T
  <1>9. CASE route \in ToSet(f.routes)
    <2>1. AddRoute(f, path, n, m).file.routes = old
      <3>1. AddRoute(f, path, n, m) = AddImport(f, n, m, FALSE)
        BY <1>5, <1>9
      <3>2. AddImport(f, n, m, FALSE).file.routes = f.routes
        BY OnlyImports
      <3> QED BY <1>3, <3>1, <3>2
    <2>2. PICK j \in DOMAIN old : old[j] = route
      BY <1>3, <1>9 DEF ToSet
    <2> QED BY <1>1, <1>3, <1>9, <2>1, <2>2 DEF RouteIsThere
  <1>10. CASE route \notin ToSet(f.routes) /\ \E r \in ToSet(f.routes) : r.path = path
    <2>1. AddRoute(f, path, n, m) = Refused(f)
      BY <1>5, <1>10
    <2> QED BY <2>1, ResultsAre
  <1>11. CASE route \notin ToSet(f.routes) /\ ~\E r \in ToSet(f.routes) : r.path = path
    <2>1. place \in 1 .. Len(old) + 1
      BY <1>2, <1>3, <1>6, <1>7
    <2>2. /\ new \in Seq(T) /\ Len(new) = Len(old) + 1
          /\ \A j \in 1 .. Len(old) + 1 :
               new[j] = IF j < place THEN old[j] ELSE IF j = place THEN route ELSE old[j - 1]
      <3>1. InsertAt(old, place, route) \in Seq(T) /\ MadeRoom(InsertAt(old, place, route), old, place, route)
        BY <1>6, <2>1, InsertMakesRoom
      <3> QED BY <1>3, <3>1 DEF MadeRoom
    <2>3. h \in File /\ h.routes = new
      BY <1>4, <2>2 DEF File, T
    <2>4. AddRoute(f, path, n, m) = AddImport(h, n, m, FALSE)
      BY <1>5, <1>11
    <2>5. AddRoute(f, path, n, m).file.routes = new
      <3>1. AddImport(h, n, m, FALSE).file.routes = h.routes
        BY <2>3, OnlyImports
      <3> QED BY <2>3, <2>4, <3>1
    <2>6. place \in DOMAIN new /\ new[place] = route
      BY <1>6, <2>1, <2>2
    <2>7. ASSUME route.path # Wildcard, NEW j \in 1 .. place PROVE new[j].path # Wildcard
      <3>1. CASE j = place
        BY <2>6, <2>7, <3>1
      <3>2. CASE j # place
        <4>1. j \in DOMAIN old /\ j < place /\ new[j] = old[j]
          BY <1>6, <2>1, <2>2, <3>2
        <4>2. ~(i # 0 /\ i <= j)
          BY <1>2, <1>6, <1>7, <4>1
        <4> QED BY <1>8, <4>1, <4>2
      <3> QED BY <3>1, <3>2
    <2> QED BY <1>1, <2>5, <2>6, <2>7 DEF RouteIsThere
  <1> QED BY <1>9, <1>10, <1>11

(* What is asked for and not refused is done, for every verb.              *)
LEMMA ApplyDoesIt ==
  ASSUME IInv, NEW a \in Asks, NEW r, r = Apply(file, a), r.ok
  PROVE  IsDone(a, r.file)
  <1> DEFINE named == <<"name", a.name>>
  <1>1. /\ a.verb \in Verbs /\ a.name \in Nat /\ a.from \in ModuleName /\ a.with \in Nat
        /\ a.verb \notin {"star", "unstar", "effect", "sort"} => a.name \in Nat \ {0}
    BY Asked
  <1>2. file \in File /\ Compilable(file)
    BY DEF IInv
  <1>3. Ways(a.name) = {named, <<"default">>, <<"all">>}
    BY DEF Ways
  <1>4. CASE a.verb = "import"
    <2>1. r = AddImport(file, a.name, a.from, FALSE)
      BY <1>4 DEF Apply
    <2>2. Binds(r.file, a.name, a.from, Ways(a.name), TRUE)
      BY <1>1, <1>2, <1>4, <2>1, AddImportGives
    <2>3. Gives(r.file, a, Ways(a.name), TRUE)
      BY <2>2, BindsGives
    <2> QED BY <1>3, <1>4, <2>3 DEF IsDone
  <1>5. CASE a.verb = "sorted"
    <2>1. r = AddImport(file, a.name, a.from, TRUE)
      BY <1>5 DEF Apply
    <2>2. Binds(r.file, a.name, a.from, Ways(a.name), TRUE)
      BY <1>1, <1>2, <1>5, <2>1, AddImportGives
    <2>3. Gives(r.file, a, Ways(a.name), TRUE)
      BY <2>2, BindsGives
    <2> QED BY <1>3, <1>5, <2>3 DEF IsDone
  <1>6. CASE a.verb = "default"
    <2>1. r = AddDefault(file, a.name, a.from)
      BY <1>6 DEF Apply
    <2>2. Binds(r.file, a.name, a.from, {<<"default">>}, TRUE)
      BY <1>1, <1>2, <1>6, <2>1, AddDefaultGives
    <2>3. Gives(r.file, a, {<<"default">>}, TRUE)
      BY <2>2, BindsGives
    <2> QED BY <1>6, <2>3 DEF IsDone
  <1>7. CASE a.verb = "namespace"
    <2>1. r = AddNamespace(file, a.name, a.from)
      BY <1>7 DEF Apply
    <2>2. Binds(r.file, a.name, a.from, {<<"all">>}, TRUE)
      BY <1>1, <1>2, <1>7, <2>1, AddNamespaceGives
    <2>3. Gives(r.file, a, {<<"all">>}, TRUE)
      BY <2>2, BindsGives
    <2> QED BY <1>7, <2>3 DEF IsDone
  <1>8. CASE a.verb = "type"
    <2>1. r = AddType(file, a.name, a.from)
      BY <1>8 DEF Apply
    <2>2. Binds(r.file, a.name, a.from, {named}, FALSE)
      BY <1>1, <1>2, <1>8, <2>1, AddTypeGives
    <2>3. Gives(r.file, a, {named}, FALSE)
      BY <2>2, BindsGives
    <2> QED BY <1>8, <2>3 DEF IsDone
  <1>9. CASE a.verb = "effect"
    <2>1. r = AddSideEffect(file, a.from)
      BY <1>9 DEF Apply
    <2>2. \E d \in ToSet(r.file.imports) : Bare(d) /\ d.from = a.from
      BY <1>1, <1>2, <2>1, AddSideEffectGives
    <2> QED BY <1>9, <2>2 DEF IsDone
  <1>10. CASE a.verb = "remove"
    <2>1. r = RemoveImport(file, a.name, a.from)
      BY <1>10 DEF Apply
    <2>2. ASSUME NEW b \in NamedAs(file, a) \cap NamedAs(r.file, a)
          PROVE  \E c \in NamedAs(file, a) : b # c
      <3>1. PICK e \in ToSet(r.file.imports) : b \in Imported(e)
        BY DEF NamedAs, Bindings
      <3>2. StandsFor(b, a.name, a.from)
        BY DEF NamedAs, StandsFor
      <3>3. PICK d \in ToSet(file.imports) :
              \E c \in Imported(d) : StandsFor(c, a.name, a.from) /\ c # b
        BY <1>1, <1>2, <2>1, <3>1, <3>2, RemoveImportTakes
      <3> QED BY <3>3 DEF NamedAs, Bindings, StandsFor
    <2>3. NamedAs(file, a) \cap NamedAs(r.file, a) # {} => \E b, c \in NamedAs(file, a) : b # c
      BY <2>2
    <2> QED BY <1>10, <2>3 DEF IsDone
  <1>11. CASE a.verb = "reexport"
    <2>1. r = AddReExport(file, a.name, a.from)
      BY <1>11 DEF Apply
    <2>2. ReexportsName(r.file, a.name, a.from)
      BY <1>1, <1>2, <1>11, <2>1, AddReExportGives
    <2>3. \E x \in Reexports(r.file) : x.from = a.from /\ x.what = named
      BY <2>2 DEF Reexports, ReexportsName, StandsFor
    <2> QED BY <1>11, <2>3 DEF IsDone
  <1>12. CASE a.verb = "star"
    <2>1. r = AddExportAll(file, a.from, a.with)
      BY <1>12 DEF Apply
    <2>2. \E e \in ToSet(r.file.exports) : \E x \in Reexported(e) : x.from = a.from /\ x.visible = a.with
      BY <1>1, <1>2, <2>1, AddExportAllGives
    <2>3. \E x \in Reexports(r.file) : x.from = a.from /\ x.visible = a.with
      BY <2>2 DEF Reexports
    <2> QED BY <1>12, <2>3 DEF IsDone
  <1>13. CASE a.verb = "entry"
    <2>1. r = AddEntry(file, a.name, a.from)
      BY <1>13 DEF Apply
    <2>2. a.name \in r.file.list.names /\ Binds(r.file, a.name, a.from, Ways(a.name), TRUE)
      BY <1>1, <1>2, <1>13, <2>1, AddEntryGives
    <2>3. Gives(r.file, a, Ways(a.name), TRUE)
      BY <2>2, BindsGives
    <2> QED BY <1>3, <1>13, <2>2, <2>3 DEF IsDone
  <1>14. CASE a.verb = "element"
    <2>1. r = AddElement(file, a.name, a.from)
      BY <1>14 DEF Apply
    <2>2. a.name \in r.file.list.names /\ Binds(r.file, a.name, a.from, Ways(a.name), TRUE)
      BY <1>1, <1>2, <1>14, <2>1, AddElementGives
    <2>3. Gives(r.file, a, Ways(a.name), TRUE)
      BY <2>2, BindsGives
    <2> QED BY <1>3, <1>14, <2>2, <2>3 DEF IsDone
  <1>15. CASE a.verb = "route"
    <2>1. r = AddRoute(file, a.with, a.name, a.from)
      BY <1>15 DEF Apply
    <2>2. PICK route : route = [path |-> a.with, to |-> a.name]
      OBVIOUS
    <2>3. RouteIsThere(file.routes, r.file.routes, route)
      BY <1>1, <1>2, <1>15, <2>1, <2>2, AddRouteGives
    <2>4. PICK i \in DOMAIN r.file.routes :
            /\ r.file.routes[i] = route
            /\ route.path # Wildcard /\ route \notin ToSet(file.routes)
                 => \A j \in 1 .. i : r.file.routes[j].path # Wildcard
      BY <2>3 DEF RouteIsThere
    <2>5. route.path = a.with
      BY <2>2
    <2> QED BY <1>15, <2>2, <2>4, <2>5 DEF IsDone
  <1>16. CASE a.verb \in {"declare", "unexport", "unstar", "member", "sort"}
    BY <1>16 DEF IsDone
  <1> QED BY <1>1, <1>4, <1>5, <1>6, <1>7, <1>8, <1>9, <1>10, <1>11, <1>12, <1>13, <1>14, <1>15, <1>16 DEF Verbs

(* An operation of ops.ts or of the other dialects that is not refused has *)
(* done what it says, whatever was asked for before it and whatever the    *)
(* file looked like: the name is bound to what was asked for, a removed    *)
(* one is not left as it was, the entry is listed, and a new route is      *)
(* reached before any wildcard.                                            *)
THEOREM WhatIsAskedIsDone == Editing => []AskedIsDone
  <1>1. IInv => AskedIsDone
    <2> SUFFICES ASSUME IInv, NEW a \in Asks PROVE \E r \in {Apply(file, a)} : r.ok => IsDone(a, r.file)
      BY DEF AskedIsDone
    <2>1. PICK r : r = Apply(file, a)
      OBVIOUS
    <2>2. r.ok => IsDone(a, r.file)
      BY <2>1, ApplyDoesIt
    <2> QED BY <2>1, <2>2
  <1> QED BY <1>1, StaysCompilable, PTL

-----------------------------------------------------------------------------
(* What sorting does to the order.                                         *)

(* A place has fewer places before it than one it is before.               *)
LEMMA RankIs ==
  ASSUME NEW n \in Nat, NEW ahead, Orders(ahead, n)
  PROVE  /\ \A j \in 1 .. n : Cardinality(ahead[j]) \in 0 .. n - 1
         /\ \A k, j \in 1 .. n : k \in ahead[j] => Cardinality(ahead[k]) < Cardinality(ahead[j])
  <1> DEFINE N == 1 .. n
  <1>1. IsFiniteSet(N) /\ Cardinality(N) = n
    BY FS_Interval
  <1>2. ASSUME NEW j \in N
        PROVE  IsFiniteSet(ahead[j]) /\ Cardinality(ahead[j]) \in 0 .. n - 1
    <2>1. IsFiniteSet(N \ {j}) /\ Cardinality(N \ {j}) = n - 1
      BY <1>1, FS_RemoveElement
    <2>2. ahead[j] \in SUBSET (N \ {j})
      BY DEF Orders
    <2>3. IsFiniteSet(ahead[j]) /\ Cardinality(ahead[j]) <= n - 1
      BY <2>1, <2>2, FS_Subset
    <2>4. Cardinality(ahead[j]) \in Nat
      BY <2>3, FS_CardinalityType
    <2> QED BY <2>3, <2>4
  <1>3. ASSUME NEW k \in N, NEW j \in N, k \in ahead[j]
        PROVE  Cardinality(ahead[k]) < Cardinality(ahead[j])
    <2>1. ahead[k] \in SUBSET ahead[j] /\ k \notin ahead[k]
      BY <1>3 DEF Orders
    <2>2. ahead[k] # ahead[j]
      BY <1>3, <2>1
    <2>3. Cardinality(ahead[k]) <= Cardinality(ahead[j]) /\ Cardinality(ahead[k]) # Cardinality(ahead[j])
      BY <1>2, <2>1, <2>2, FS_Subset
    <2> QED BY <1>2, <2>3
  <1> QED BY <1>2, <1>3

(* t has the elements of s, in the order of ahead.                         *)
InOrder(t, s, ahead, g) ==
  /\ g \in [DOMAIN s -> DOMAIN s] /\ DOMAIN t = DOMAIN s
  /\ \A i \in DOMAIN s : t[i] = s[g[i]] /\ Cardinality(ahead[g[i]]) = i - 1
  /\ \A x \in DOMAIN s : \E i \in DOMAIN s : g[i] = x
  /\ \A i, j \in DOMAIN s : g[i] \in ahead[g[j]] <=> i < j

LEMMA ArrangedInOrder ==
  ASSUME NEW T, NEW s \in Seq(T), NEW ahead, Orders(ahead, Len(s))
  PROVE  \E g : InOrder(Arranged(s, ahead), s, ahead, g)
  <1> DEFINE n == Len(s)
             N == DOMAIN s
             g == [i \in N |-> CHOOSE j \in N : Cardinality(ahead[j]) = i - 1]
             c == [j \in N |-> Cardinality(ahead[j])]
  <1>1. n \in Nat /\ N = 1 .. n
    OBVIOUS
  <1>2. ASSUME NEW i \in N
        PROVE  g[i] \in N /\ c[g[i]] = i - 1
    <2>1. \E j \in N : Cardinality(ahead[j]) = i - 1
      BY <1>1, EveryRank
    <2> QED BY <2>1
  <1>3. g \in [N -> N] /\ \A i \in N : Arranged(s, ahead)[i] = s[g[i]]
    BY <1>2 DEF Arranged
  <1>4. DOMAIN Arranged(s, ahead) = N
    BY DEF Arranged
  <1>5. /\ \A j \in N : c[j] \in 0 .. n - 1
        /\ \A k, j \in N : k \in ahead[j] => c[k] < c[j]
    BY <1>1, RankIs
  <1>6. \A k, j \in N : k # j => k \in ahead[j] \/ j \in ahead[k]
    BY <1>1 DEF Orders
  <1>7. \A j \in N : c[j] = Cardinality(ahead[j])
    OBVIOUS
  <1> HIDE DEF g, c
  <1>8. ASSUME NEW x \in N PROVE \E i \in N : g[i] = x
    <2>1. PICK i : i = c[x] + 1
      OBVIOUS
    <2>2. i \in N /\ c[x] = i - 1
      BY <1>1, <1>5, <2>1
    <2>3. g[i] \in N /\ c[g[i]] = c[x]
      BY <1>2, <2>2
    <2>4. g[i] = x
      BY <1>5, <1>6, <2>3
    <2> QED BY <2>2, <2>4
  <1>9. ASSUME NEW i \in N, NEW j \in N PROVE g[i] \in ahead[g[j]] <=> i < j
    <2>1. g[i] \in N /\ g[j] \in N /\ c[g[i]] = i - 1 /\ c[g[j]] = j - 1 /\ i \in Nat /\ j \in Nat
      BY <1>1, <1>2
    <2>2. g[i] \in ahead[g[j]] => i < j
      <3>1. g[i] \in ahead[g[j]] => c[g[i]] < c[g[j]]
        BY <1>5, <2>1
      <3> QED BY <2>1, <3>1
    <2>3. g[j] \in ahead[g[i]] => j < i
      <3>1. g[j] \in ahead[g[i]] => c[g[j]] < c[g[i]]
        BY <1>5, <2>1
      <3> QED BY <2>1, <3>1
    <2>4. i < j => g[i] # g[j]
      BY <2>1
    <2> QED BY <1>6, <2>1, <2>2, <2>3, <2>4
  <1>10. InOrder(Arranged(s, ahead), s, ahead, g)
    BY <1>2, <1>3, <1>4, <1>7, <1>8, <1>9 DEF InOrder
  <1> QED BY <1>10

(* What is in order stays.                                                 *)
LEMMA Settled ==
  ASSUME NEW T, NEW s \in Seq(T), NEW ahead, \A j \in 1 .. Len(s) : ahead[j] = 1 .. (j - 1)
  PROVE  Arranged(s, ahead) = s
  <1> DEFINE N == DOMAIN s
  <1>1. N = 1 .. Len(s) /\ Len(s) \in Nat
    OBVIOUS
  <1>2. \A j \in N : Cardinality(ahead[j]) = j - 1
    <2> TAKE j \in N
    <2>1. Cardinality(1 .. (j - 1)) = j - 1
      <3>1. j - 1 \in Nat
        BY <1>1
      <3> QED BY <3>1, FS_Interval
    <2> QED BY <1>1, <2>1
  <1> DEFINE g == [i \in N |-> CHOOSE j \in N : Cardinality(ahead[j]) = i - 1]
  <1>3. ASSUME NEW i \in N PROVE g[i] = i
    <2>1. \A j \in N : Cardinality(ahead[j]) = i - 1 => j = i
      BY <1>1, <1>2
    <2>2. \E j \in N : Cardinality(ahead[j]) = i - 1
      BY <1>2
    <2>3. g[i] \in N /\ Cardinality(ahead[g[i]]) = i - 1
      BY <2>2
    <2> QED BY <2>1, <2>3
  <1>4. Arranged(s, ahead) = [i \in N |-> s[g[i]]]
    BY DEF Arranged
  <1> HIDE DEF g
  <1>5. Arranged(s, ahead) = [i \in N |-> s[i]]
    BY <1>3, <1>4
  <1> QED BY <1>5

-----------------------------------------------------------------------------
(* Nothing but what was asked for.                                         *)

(* T is S, or S and one element more.                                      *)
MoreBy(S, T) == S \subseteq T /\ \A x, y \in T \ S : x = y

LEMMA MoreByOne ==
  ASSUME NEW S, NEW T, NEW z, S \subseteq T, \A x \in T : x \in S \/ x = z
  PROVE  MoreBy(S, T)
  BY DEF MoreBy

LEMMA MoreByNone == \A S : MoreBy(S, S)
  BY DEF MoreBy

(* What declarations bind, what modules they run, what they come from.     *)
BindingsOf(ds) == UNION {Imported(d) : d \in ToSet(ds)}
EffectsOf(ds) == {ds[i].from : i \in {j \in DOMAIN ds : Bare(ds[j])}}
FromsOf(ds) == [i \in DOMAIN ds |-> ds[i].from]

LEMMA BindingsAre ==
  ASSUME NEW ds, NEW b
  PROVE  b \in BindingsOf(ds) <=> \E i \in DOMAIN ds : b \in Imported(ds[i])
  BY DEF BindingsOf, ToSet

LEMMA EffectsAre ==
  ASSUME NEW ds, NEW m
  PROVE  m \in EffectsOf(ds) <=> \E i \in DOMAIN ds : Bare(ds[i]) /\ ds[i].from = m
  BY DEF EffectsOf

(* One binding and one effect at most come to them, and all stay in order. *)
ImportsGrow(ds, es) ==
  /\ MoreBy(BindingsOf(ds), BindingsOf(es)) /\ MoreBy(EffectsOf(ds), EffectsOf(es))
  /\ FromsOf(es) = FromsOf(ds) \/ \E i \in DOMAIN FromsOf(es) : RemoveAt(FromsOf(es), i) = FromsOf(ds)

LEMMA NoneGrow == \A ds : ImportsGrow(ds, ds)
  BY MoreByNone DEF ImportsGrow

(* So it is when a declaration of one name is put in, ...                  *)
LEMMA InsertedGrow ==
  ASSUME NEW ds \in Seq(Declaration), NEW q \in 1 .. Len(ds) + 1, NEW d \in Declaration,
         NEW z, \A b \in Imported(d) : b = z
  PROVE  ImportsGrow(ds, InsertAt(ds, q, d))
  <1>1. PICK es : es = InsertAt(ds, q, d)
    OBVIOUS
  <1>2. es \in Seq(Declaration) /\ MadeRoom(es, ds, q, d)
    BY <1>1, InsertMakesRoom
  <1>3. PICK n : n = Len(ds)
    OBVIOUS
  <1>4. /\ n \in Nat /\ DOMAIN ds = 1 .. n /\ DOMAIN es = 1 .. n + 1 /\ q \in 1 .. n + 1
        /\ \A i \in 1 .. n + 1 : es[i] = IF i < q THEN ds[i] ELSE IF i = q THEN d ELSE ds[i - 1]
    BY <1>2, <1>3 DEF MadeRoom
  <1>5. \A i \in DOMAIN ds : \E j \in DOMAIN es : es[j] = ds[i]
    <2> TAKE i \in DOMAIN ds
    <2>1. CASE i < q
      BY <1>4, <2>1
    <2>2. CASE i >= q
      <3>1. i + 1 \in 1 .. n + 1 /\ ~(i + 1 < q) /\ i + 1 # q /\ (i + 1) - 1 = i
        BY <1>4, <2>2
      <3> QED BY <1>4, <3>1
    <2> QED BY <1>4, <2>1, <2>2
  <1>6. \A j \in DOMAIN es : es[j] = d \/ \E i \in DOMAIN ds : es[j] = ds[i]
    <2> TAKE j \in DOMAIN es
    <2>1. CASE j < q
      <3>1. j \in DOMAIN ds
        BY <1>4, <2>1
      <3> QED BY <1>4, <2>1, <3>1
    <2>2. CASE j > q
      <3>1. j - 1 \in DOMAIN ds /\ ~(j < q) /\ j # q
        BY <1>4, <2>2
      <3> QED BY <1>4, <3>1
    <2> QED BY <1>4, <2>1, <2>2
  <1>7. MoreBy(BindingsOf(ds), BindingsOf(es))
    <2>1. BindingsOf(ds) \subseteq BindingsOf(es)
      BY <1>5, BindingsAre
    <2>2. \A b \in BindingsOf(es) : b \in BindingsOf(ds) \/ b = z
      BY <1>6, BindingsAre
    <2> QED BY <2>1, <2>2, MoreByOne
  <1>8. MoreBy(EffectsOf(ds), EffectsOf(es))
    <2>1. EffectsOf(ds) \subseteq EffectsOf(es)
      <3> SUFFICES ASSUME NEW m \in EffectsOf(ds) PROVE m \in EffectsOf(es)
        OBVIOUS
      <3>1. PICK i \in DOMAIN ds : Bare(ds[i]) /\ ds[i].from = m
        BY EffectsAre
      <3>2. PICK j \in DOMAIN es : es[j] = ds[i]
        BY <1>5
      <3> QED BY <3>1, <3>2, EffectsAre
    <2>2. \A m \in EffectsOf(es) : m \in EffectsOf(ds) \/ m = d.from
      <3> SUFFICES ASSUME NEW m \in EffectsOf(es), m # d.from PROVE m \in EffectsOf(ds)
        OBVIOUS
      <3>1. PICK j \in DOMAIN es : Bare(es[j]) /\ es[j].from = m
        BY EffectsAre
      <3>2. PICK i \in DOMAIN ds : es[j] = ds[i]
        BY <1>6, <3>1
      <3> QED BY <3>1, <3>2, EffectsAre
    <2> QED BY <2>1, <2>2, MoreByOne
  <1>9. q \in DOMAIN FromsOf(es) /\ RemoveAt(FromsOf(es), q) = FromsOf(ds)
    <2>1. PICK fs : fs = FromsOf(es)
      OBVIOUS
    <2>2. fs \in Seq(ModuleName) /\ Len(fs) = n + 1 /\ DOMAIN fs = 1 .. n + 1
      <3>1. \A i \in 1 .. n + 1 : es[i] \in Declaration
        BY <1>2, <1>4
      <3>2. \A i \in 1 .. n + 1 : es[i].from \in ModuleName
        BY <3>1 DEF Declaration
      <3>3. fs = [i \in 1 .. n + 1 |-> es[i].from]
        BY <1>4, <2>1 DEF FromsOf
      <3>4. fs \in [1 .. n + 1 -> ModuleName] /\ n + 1 \in Nat
        BY <1>4, <3>2, <3>3
      <3> QED BY <3>4
    <2>3. \A i \in 1 .. n + 1 : fs[i] = es[i].from
      BY <1>4, <2>1 DEF FromsOf
    <2>4. PICK gs : gs = RemoveAt(fs, q)
      OBVIOUS
    <2>5. gs \in Seq(ModuleName) /\ Len(gs) = n /\ \A i \in 1 .. n : gs[i] = IF i < q THEN fs[i] ELSE fs[i + 1]
      <3>1. q \in DOMAIN fs /\ (n + 1) - 1 = n
        BY <1>4, <2>2
      <3> QED BY <2>2, <2>4, <3>1, RemoveIs
    <2>6. \A i \in 1 .. n : gs[i] = ds[i].from
      <3> TAKE i \in 1 .. n
      <3>1. CASE i < q
        <4>1. i \in 1 .. n + 1 /\ fs[i] = es[i].from /\ es[i] = ds[i]
          BY <1>4, <2>3, <3>1
        <4> QED BY <2>5, <3>1, <4>1
      <3>2. CASE ~(i < q)
        <4>1. i + 1 \in 1 .. n + 1 /\ ~(i + 1 < q) /\ i + 1 # q /\ (i + 1) - 1 = i
          BY <1>4, <3>2
        <4>2. fs[i + 1] = es[i + 1].from /\ es[i + 1] = ds[i]
          BY <1>4, <2>3, <4>1
        <4> QED BY <2>5, <3>2, <4>2
      <3> QED BY <3>1, <3>2
    <2>7. gs = FromsOf(ds)
      <3>1. gs = [i \in 1 .. n |-> gs[i]]
        BY <2>5
      <3> QED BY <1>4, <2>6, <3>1 DEF FromsOf
    <2> QED BY <1>4, <2>1, <2>2, <2>4, <2>7
  <1> QED BY <1>1, <1>7, <1>8, <1>9 DEF ImportsGrow

(* ... or a declaration gains one.                                         *)
Extends(e, d, z) ==
  /\ e.from = d.from /\ (Bare(e) <=> Bare(d)) /\ Imported(d) \subseteq Imported(e)
  /\ \A b \in Imported(e) : b \in Imported(d) \/ b = z

LEMMA ChangedGrow ==
  ASSUME NEW ds \in Seq(Declaration), NEW p \in DOMAIN ds, NEW e, NEW z, Extends(e, ds[p], z)
  PROVE  ImportsGrow(ds, [ds EXCEPT ![p] = e])
  <1>1. PICK es : es = [ds EXCEPT ![p] = e]
    OBVIOUS
  <1>2. DOMAIN es = DOMAIN ds /\ \A i \in DOMAIN ds : es[i] = IF i = p THEN e ELSE ds[i]
    BY <1>1
  <1>3. \A i \in DOMAIN ds : /\ es[i].from = ds[i].from /\ (Bare(es[i]) <=> Bare(ds[i]))
                             /\ Imported(ds[i]) \subseteq Imported(es[i])
                             /\ \A b \in Imported(es[i]) : b \in Imported(ds[i]) \/ b = z
    BY <1>2 DEF Extends
  <1>4. MoreBy(BindingsOf(ds), BindingsOf(es))
    <2>1. BindingsOf(ds) \subseteq BindingsOf(es)
      BY <1>2, <1>3, BindingsAre
    <2>2. \A b \in BindingsOf(es) : b \in BindingsOf(ds) \/ b = z
      BY <1>2, <1>3, BindingsAre
    <2> QED BY <2>1, <2>2, MoreByOne
  <1>5. EffectsOf(ds) = EffectsOf(es)
    <2>1. \A m : m \in EffectsOf(ds) <=> m \in EffectsOf(es)
      BY <1>2, <1>3, EffectsAre
    <2> QED BY <2>1
  <1>6. FromsOf(es) = FromsOf(ds)
    BY <1>2, <1>3 DEF FromsOf
  <1> QED BY <1>1, <1>4, <1>5, <1>6, MoreByNone DEF ImportsGrow

(* Braces with one name more, ...                                          *)
LEMMA ExtendsNames ==
  ASSUME NEW d \in Declaration, d.braces, NEW q \in 1 .. Len(d.named) + 1, NEW s \in Specifier
  PROVE  Extends([d EXCEPT !.named = InsertAt(d.named, q, s)], d, Named(d, s))
  <1>1. PICK t : t = InsertAt(d.named, q, s)
    OBVIOUS
  <1>2. PICK e : e = [d EXCEPT !.named = t]
    OBVIOUS
  <1>3. d.named \in Seq(Specifier)
    BY DEF Declaration
  <1>4. ToSet(d.named) \subseteq ToSet(t) /\ \A x \in ToSet(t) : x \in ToSet(d.named) \/ x = s
    <2>1. PICK u : u = d.named
      OBVIOUS
    <2>2. u \in Seq(Specifier) /\ q \in 1 .. Len(u) + 1 /\ t = InsertAt(u, q, s)
      BY <1>1, <1>3, <2>1
    <2>3. t \in Seq(Specifier) /\ MadeRoom(t, u, q, s)
      BY <2>2, InsertMakesRoom
    <2>4. PICK n : n = Len(u)
      OBVIOUS
    <2>5. /\ n \in Nat /\ DOMAIN u = 1 .. n /\ DOMAIN t = 1 .. n + 1 /\ q \in 1 .. n + 1
          /\ \A i \in 1 .. n + 1 : t[i] = IF i < q THEN u[i] ELSE IF i = q THEN s ELSE u[i - 1]
      BY <2>2, <2>3, <2>4 DEF MadeRoom
    <2>6. \A i \in DOMAIN u : \E j \in DOMAIN t : t[j] = u[i]
      <3> TAKE i \in DOMAIN u
      <3>1. CASE i < q
        BY <2>5, <3>1
      <3>2. CASE i >= q
        <4>1. i + 1 \in 1 .. n + 1 /\ ~(i + 1 < q) /\ i + 1 # q /\ (i + 1) - 1 = i
          BY <2>5, <3>2
        <4> QED BY <2>5, <4>1
      <3> QED BY <2>5, <3>1, <3>2
    <2>7. \A j \in DOMAIN t : t[j] = s \/ \E i \in DOMAIN u : t[j] = u[i]
      <3> TAKE j \in DOMAIN t
      <3>1. CASE j < q
        <4>1. j \in DOMAIN u
          BY <2>5, <3>1
        <4> QED BY <2>5, <3>1, <4>1
      <3>2. CASE j > q
        <4>1. j - 1 \in DOMAIN u /\ ~(j < q) /\ j # q
          BY <2>5, <3>2
        <4> QED BY <2>5, <4>1
      <3> QED BY <2>5, <3>1, <3>2
    <2> QED BY <2>1, <2>6, <2>7 DEF ToSet
  <1>5. /\ e.named = t /\ e.from = d.from /\ e.type = d.type
        /\ e.def = d.def /\ e.ns = d.ns /\ e.braces = d.braces
    BY <1>2 DEF Declaration
  <1>6. /\ \A n, what : Whole(e, n, what) = Whole(d, n, what)
        /\ \A x : Named(e, x) = Named(d, x)
    BY <1>5 DEF Whole, Named
  <1>7. \A b : b \in Imported(e) <=> \/ d.def # Absent /\ b = Whole(d, d.def, <<"default">>)
                                     \/ d.ns # Absent /\ b = Whole(d, d.ns, <<"all">>)
                                     \/ \E x \in ToSet(t) : b = Named(d, x)
    <2> TAKE b
    <2>1. b \in Imported(e) <=> \/ e.def # Absent /\ b = Whole(e, e.def, <<"default">>)
                                \/ e.ns # Absent /\ b = Whole(e, e.ns, <<"all">>)
                                \/ \E x \in ToSet(e.named) : b = Named(e, x)
      BY ImportedIs, Zenon
    <2> QED BY <1>5, <1>6, <2>1
  <1>8. \A b : b \in Imported(d) <=> \/ d.def # Absent /\ b = Whole(d, d.def, <<"default">>)
                                     \/ d.ns # Absent /\ b = Whole(d, d.ns, <<"all">>)
                                     \/ \E x \in ToSet(d.named) : b = Named(d, x)
    BY ImportedIs, Zenon
  <1>9. Imported(d) \subseteq Imported(e)
    BY <1>4, <1>7, <1>8
  <1>10. \A b \in Imported(e) : b \in Imported(d) \/ b = Named(d, s)
    BY <1>4, <1>7, <1>8
  <1>11. Bare(e) <=> Bare(d)
    BY <1>5 DEF Bare
  <1> QED BY <1>1, <1>2, <1>5, <1>9, <1>10, <1>11 DEF Extends

(* ... a default that was not there, ...                                   *)
LEMMA ExtendsDefault ==
  ASSUME NEW d \in Declaration, ~Bare(d), d.def = Absent, NEW n \in Nat \ {0}
  PROVE  Extends([d EXCEPT !.def = n], d, Whole(d, n, <<"default">>))
  <1>1. PICK e : e = [d EXCEPT !.def = n]
    OBVIOUS
  <1>2. /\ e.named = d.named /\ e.from = d.from /\ e.type = d.type
        /\ e.def = n /\ e.ns = d.ns /\ e.braces = d.braces
    BY <1>1 DEF Declaration
  <1>3. /\ \A k, what : Whole(e, k, what) = Whole(d, k, what)
        /\ \A s : Named(e, s) = Named(d, s)
    BY <1>2 DEF Whole, Named
  <1>4. \A b : b \in Imported(e) <=> \/ n # Absent /\ b = Whole(d, n, <<"default">>)
                                     \/ d.ns # Absent /\ b = Whole(d, d.ns, <<"all">>)
                                     \/ \E x \in ToSet(d.named) : b = Named(d, x)
    <2> TAKE b
    <2>1. b \in Imported(e) <=> \/ e.def # Absent /\ b = Whole(e, e.def, <<"default">>)
                                \/ e.ns # Absent /\ b = Whole(e, e.ns, <<"all">>)
                                \/ \E x \in ToSet(e.named) : b = Named(e, x)
      BY ImportedIs, Zenon
    <2> QED BY <1>2, <1>3, <2>1
  <1>5. \A b : b \in Imported(d) <=> \/ d.ns # Absent /\ b = Whole(d, d.ns, <<"all">>)
                                     \/ \E x \in ToSet(d.named) : b = Named(d, x)
    BY ImportedIs, Zenon
  <1>6. /\ Imported(d) \subseteq Imported(e)
        /\ \A b \in Imported(e) : b \in Imported(d) \/ b = Whole(d, n, <<"default">>)
    BY <1>4, <1>5
  <1>7. ~Bare(e)
    BY <1>2 DEF Bare, Absent
  <1> QED BY <1>1, <1>2, <1>6, <1>7 DEF Extends

(* ... or a namespace that was not.                                        *)
LEMMA ExtendsNamespace ==
  ASSUME NEW d \in Declaration, ~Bare(d), d.ns = Absent, NEW n \in Nat \ {0}
  PROVE  Extends([d EXCEPT !.ns = n], d, Whole(d, n, <<"all">>))
  <1>1. PICK e : e = [d EXCEPT !.ns = n]
    OBVIOUS
  <1>2. /\ e.named = d.named /\ e.from = d.from /\ e.type = d.type
        /\ e.def = d.def /\ e.ns = n /\ e.braces = d.braces
    BY <1>1 DEF Declaration
  <1>3. /\ \A k, what : Whole(e, k, what) = Whole(d, k, what)
        /\ \A s : Named(e, s) = Named(d, s)
    BY <1>2 DEF Whole, Named
  <1>4. \A b : b \in Imported(e) <=> \/ d.def # Absent /\ b = Whole(d, d.def, <<"default">>)
                                     \/ n # Absent /\ b = Whole(d, n, <<"all">>)
                                     \/ \E x \in ToSet(d.named) : b = Named(d, x)
    <2> TAKE b
    <2>1. b \in Imported(e) <=> \/ e.def # Absent /\ b = Whole(e, e.def, <<"default">>)
                                \/ e.ns # Absent /\ b = Whole(e, e.ns, <<"all">>)
                                \/ \E x \in ToSet(e.named) : b = Named(e, x)
      BY ImportedIs, Zenon
    <2> QED BY <1>2, <1>3, <2>1
  <1>5. \A b : b \in Imported(d) <=> \/ d.def # Absent /\ b = Whole(d, d.def, <<"default">>)
                                     \/ \E x \in ToSet(d.named) : b = Named(d, x)
    BY ImportedIs, Zenon
  <1>6. /\ Imported(d) \subseteq Imported(e)
        /\ \A b \in Imported(e) : b \in Imported(d) \/ b = Whole(d, n, <<"all">>)
    BY <1>4, <1>5
  <1>7. ~Bare(e)
    BY <1>2 DEF Bare, Absent
  <1> QED BY <1>1, <1>2, <1>6, <1>7 DEF Extends

(* A file with one import more, put in or added to a declaration, or the   *)
(* file as it was.                                                         *)
OneMore(f, h) ==
  \/ h = f
  \/ \E p \in DOMAIN f.imports : \E e, z : Extends(e, f.imports[p], z) /\ h = [f EXCEPT !.imports[p] = e]
  \/ \E q \in 1 .. Len(f.imports) + 1 : \E d \in Declaration : \E z :
       (\A b \in Imported(d) : b = z) /\ h = InsertImport(f, d, q)

Besides(f, h) ==
  h.exports = f.exports /\ h.locals = f.locals /\ h.list = f.list /\ h.routes = f.routes /\ h.members = f.members

LEMMA OneMoreGrows ==
  ASSUME NEW f \in File, NEW h, OneMore(f, h)
  PROVE  ImportsGrow(f.imports, h.imports) /\ Besides(f, h)
  <1>1. f.imports \in Seq(Declaration)
    BY Parts
  <1>2. CASE h = f
    BY <1>2, NoneGrow DEF Besides
  <1>3. ASSUME NEW p \in DOMAIN f.imports, NEW e, NEW z, Extends(e, f.imports[p], z), h = [f EXCEPT !.imports[p] = e]
        PROVE  ImportsGrow(f.imports, h.imports) /\ Besides(f, h)
    <2>1. h.imports = [f.imports EXCEPT ![p] = e]
      BY <1>3 DEF File
    <2>2. Besides(f, h)
      BY <1>3 DEF File, Besides
    <2> QED BY <1>1, <1>3, <2>1, <2>2, ChangedGrow
  <1>4. ASSUME NEW q \in 1 .. Len(f.imports) + 1, NEW d \in Declaration, NEW z, \A b \in Imported(d) : b = z,
               h = InsertImport(f, d, q)
        PROVE  ImportsGrow(f.imports, h.imports) /\ Besides(f, h)
    <2>1. h.imports = InsertAt(f.imports, q, d)
      BY <1>4 DEF File, InsertImport
    <2>2. Besides(f, h)
      BY <1>4 DEF File, InsertImport, Besides
    <2> QED BY <1>1, <1>4, <2>1, <2>2, InsertedGrow
  <1> QED BY <1>2, <1>3, <1>4 DEF OneMore

(* addImport adds one import at most, ...                                  *)
LEMMA AddImportAdds ==
  ASSUME NEW f \in File, NEW n \in Nat \ {0}, NEW m \in ModuleName, NEW sorted \in BOOLEAN
  PROVE  OneMore(f, AddImport(f, n, m, sorted).file)
  <1> DEFINE S == {d \in Of(f.imports, m) : ~d.type /\ d.braces}
             i == First(f.imports, S)
             fresh == Decl(m, FALSE, Absent, Absent, <<Plain(n)>>)
             bound == \E d \in Of(f.imports, m) : \E b \in BoundNames(d) : b.local = n /\ b.value /\ b.plain
             place == IF sorted THEN SpecifierPlace(f.imports[i].named, n) ELSE Len(f.imports[i].named) + 1
             named == InsertAt(f.imports[i].named, place, Plain(n))
             h == AddImport(f, n, m, sorted).file
  <1>1. f.imports \in Seq(Declaration)
    BY Parts
  <1>2. i # 0 => i \in DOMAIN f.imports /\ f.imports[i] \in S
    BY <1>1, FirstIs
  <1>3. AddImport(f, n, m, sorted) =
          IF bound THEN Done(f)
          ELSE IF Claimed(f, n) THEN Refused(f)
          ELSE IF i # 0 THEN Done([f EXCEPT !.imports[i].named = named])
          ELSE Done(IF sorted THEN InsertImport(f, fresh, SortedPlace(f.imports, m)) ELSE AppendImport(f, fresh))
    BY DEF AddImport
  <1>4. i # 0 => i \in DOMAIN f.imports /\ f.imports[i] \in Declaration /\ f.imports[i].braces
    <2> HIDE DEF i
    <2> QED BY <1>1, <1>2 DEF Of
  <1> HIDE DEF bound, i, fresh, named
  <1>5. CASE bound \/ Claimed(f, n)
    <2>1. AddImport(f, n, m, sorted) = Done(f) \/ AddImport(f, n, m, sorted) = Refused(f)
      BY <1>3, <1>5
    <2>2. h = f
      BY <2>1, ResultsAre
    <2> QED BY <2>2 DEF OneMore
  <1>6. CASE ~bound /\ ~Claimed(f, n) /\ i # 0
    <2>1. PICK d, u, q, t : d = f.imports[i] /\ u = d.named /\ q = place /\ t = named
      OBVIOUS
    <2>2. i \in DOMAIN f.imports /\ d \in Declaration /\ d.braces
      BY <1>4, <1>6, <2>1
    <2>3. u \in Seq(Specifier) /\ Len(u) \in Nat
      BY <2>1, <2>2 DEF Declaration
    <2>4. q \in 1 .. Len(u) + 1
      <3>1. SpecifierPlace(u, n) \in 1 .. Len(u) + 1
        BY <2>3, SpecifierPlaceIs
      <3> QED BY <2>1, <2>3, <3>1
    <2>5. t = InsertAt(u, q, Plain(n))
      BY <2>1 DEF named
    <2>6. Plain(n) \in Specifier
      BY PlainIs
    <2>7. Extends([d EXCEPT !.named = t], d, Named(d, Plain(n)))
      BY <2>1, <2>2, <2>4, <2>5, <2>6, ExtendsNames
    <2>8. h = [f EXCEPT !.imports[i].named = named]
      BY <1>3, <1>6, ResultsAre
    <2>9. h = [f EXCEPT !.imports[i] = [d EXCEPT !.named = t]]
      BY <2>1, <2>8 DEF File
    <2> QED BY <2>1, <2>2, <2>7, <2>9 DEF OneMore
  <1>7. CASE ~bound /\ ~Claimed(f, n) /\ i = 0
    <2>1. fresh \in Declaration /\ \A b \in Imported(fresh) : b = Named(fresh, Plain(n))
      BY OneName DEF fresh
    <2>2. SortedPlace(f.imports, m) \in 1 .. Len(f.imports) + 1 /\ DefaultPlace(f) \in 1 .. Len(f.imports) + 1
      BY <1>1, SortedPlaceIs, DefaultPlaceIs
    <2>3. h = IF sorted THEN InsertImport(f, fresh, SortedPlace(f.imports, m)) ELSE AppendImport(f, fresh)
      <3>1. AddImport(f, n, m, sorted) =
              Done(IF sorted THEN InsertImport(f, fresh, SortedPlace(f.imports, m)) ELSE AppendImport(f, fresh))
        BY <1>3, <1>7
      <3> QED BY <3>1, ResultsAre
    <2>4. \E q \in 1 .. Len(f.imports) + 1 : h = InsertImport(f, fresh, q)
      BY <2>2, <2>3 DEF AppendImport
    <2> QED BY <2>1, <2>4 DEF OneMore
  <1> QED BY <1>5, <1>6, <1>7

(* What is not there under a field is in no declaration of values.         *)
LEMMA ExistingNot ==
  ASSUME NEW f \in File, NEW m, NEW field \in {"def", "ns"}, Existing(f, m, field) = Absent
  PROVE  \A d \in ToSet(f.imports) : d.from = m /\ ~d.type => d[field] = Absent
  <1> DEFINE S == {d \in Of(f.imports, m) : ~d.type /\ d[field] # Absent}
             i == First(f.imports, S)
  <1>1. f.imports \in Seq(Declaration)
    BY Parts
  <1>2. /\ i # 0 => i \in DOMAIN f.imports /\ f.imports[i] \in S
        /\ i = 0 => \A j \in DOMAIN f.imports : f.imports[j] \notin S
    BY <1>1, FirstIs
  <1>3. Existing(f, m, field) = IF i = 0 THEN Absent ELSE f.imports[i][field]
    BY DEF Existing
  <1>4. i = 0
    <2> SUFFICES ASSUME i # 0 PROVE FALSE
      OBVIOUS
    <2>1. f.imports[i][field] # Absent
      BY <1>2
    <2> HIDE DEF i
    <2> QED BY <1>3, <2>1
  <1> HIDE DEF i
  <1> QED BY <1>2, <1>4 DEF Of, ToSet

(* ... and so do addDefaultImport, ...                                     *)
LEMMA AddDefaultAdds ==
  ASSUME NEW f \in File, NEW n \in Nat \ {0}, NEW m \in ModuleName
  PROVE  OneMore(f, AddDefault(f, n, m).file)
  <1> DEFINE S == {d \in Of(f.imports, m) : ~d.type /\ ~Bare(d)}
             i == First(f.imports, S)
             there == Existing(f, m, "def")
             fresh == Decl(m, FALSE, n, Absent, NoBraces)
             h == AddDefault(f, n, m).file
  <1>1. f.imports \in Seq(Declaration) /\ Absent \in Nat /\ n # Absent
    BY Parts DEF Absent
  <1>2. i # 0 => i \in DOMAIN f.imports /\ f.imports[i] \in S
    BY <1>1, FirstIs
  <1>3. AddDefault(f, n, m) =
          IF there = n THEN Done(f)
          ELSE IF there # Absent \/ Claimed(f, n) THEN Refused(f)
          ELSE IF i # 0 THEN Done([f EXCEPT !.imports[i].def = n])
          ELSE Done(AppendImport(f, fresh))
    BY DEF AddDefault
  <1>4. i # 0 => /\ i \in DOMAIN f.imports /\ f.imports[i] \in Declaration /\ ~Bare(f.imports[i])
                 /\ f.imports[i].from = m /\ ~f.imports[i].type
    <2> HIDE DEF i
    <2> QED BY <1>1, <1>2 DEF Of
  <1> HIDE DEF i, there, fresh
  <1>5. CASE there = n \/ there # Absent \/ Claimed(f, n)
    <2>1. AddDefault(f, n, m) = Done(f) \/ AddDefault(f, n, m) = Refused(f)
      BY <1>3, <1>5
    <2>2. h = f
      BY <2>1, ResultsAre
    <2> QED BY <2>2 DEF OneMore
  <1>6. CASE there = Absent /\ ~Claimed(f, n) /\ i # 0
    <2>1. PICK d : d = f.imports[i]
      OBVIOUS
    <2>2. d.def = Absent
      BY <1>4, <1>6, <2>1, ExistingNot DEF there, ToSet
    <2>3. Extends([d EXCEPT !.def = n], d, Whole(d, n, <<"default">>))
      BY <1>4, <1>6, <2>1, <2>2, ExtendsDefault
    <2>4. h = [f EXCEPT !.imports[i].def = n]
      BY <1>1, <1>3, <1>6, ResultsAre
    <2>5. h = [f EXCEPT !.imports[i] = [d EXCEPT !.def = n]]
      BY <2>1, <2>4 DEF File
    <2> QED BY <1>4, <1>6, <2>1, <2>3, <2>5 DEF OneMore
  <1>7. CASE there = Absent /\ ~Claimed(f, n) /\ i = 0
    <2>1. fresh \in Declaration /\ \A b \in Imported(fresh) : b = Whole(fresh, n, <<"default">>)
      BY <1>1, OneWhole DEF fresh
    <2>2. DefaultPlace(f) \in 1 .. Len(f.imports) + 1
      BY DefaultPlaceIs
    <2>3. h = InsertImport(f, fresh, DefaultPlace(f))
      BY <1>1, <1>3, <1>7, ResultsAre DEF AppendImport
    <2> QED BY <2>1, <2>2, <2>3 DEF OneMore
  <1> QED BY <1>5, <1>6, <1>7

(* ... addNamespaceImport, ...                                             *)
LEMMA AddNamespaceAdds ==
  ASSUME NEW f \in File, NEW n \in Nat \ {0}, NEW m \in ModuleName
  PROVE  OneMore(f, AddNamespace(f, n, m).file)
  <1> DEFINE S == {d \in Of(f.imports, m) : ~d.type /\ d.def # Absent /\ d.ns = Absent /\ ~d.braces}
             i == First(f.imports, S)
             there == Existing(f, m, "ns")
             fresh == Decl(m, FALSE, Absent, n, NoBraces)
             h == AddNamespace(f, n, m).file
  <1>1. f.imports \in Seq(Declaration) /\ Absent \in Nat /\ n # Absent
    BY Parts DEF Absent
  <1>2. i # 0 => i \in DOMAIN f.imports /\ f.imports[i] \in S
    BY <1>1, FirstIs
  <1>3. AddNamespace(f, n, m) =
          IF there = n THEN Done(f)
          ELSE IF there # Absent \/ Claimed(f, n) THEN Refused(f)
          ELSE IF i # 0 THEN Done([f EXCEPT !.imports[i].ns = n])
          ELSE Done(AppendImport(f, fresh))
    BY DEF AddNamespace
  <1>4. i # 0 => /\ i \in DOMAIN f.imports /\ f.imports[i] \in Declaration
                 /\ f.imports[i].def # Absent /\ f.imports[i].ns = Absent
    <2> HIDE DEF i
    <2> QED BY <1>1, <1>2 DEF Of
  <1> HIDE DEF i, there, fresh
  <1>5. CASE there = n \/ there # Absent \/ Claimed(f, n)
    <2>1. AddNamespace(f, n, m) = Done(f) \/ AddNamespace(f, n, m) = Refused(f)
      BY <1>3, <1>5
    <2>2. h = f
      BY <2>1, ResultsAre
    <2> QED BY <2>2 DEF OneMore
  <1>6. CASE there = Absent /\ ~Claimed(f, n) /\ i # 0
    <2>1. PICK d : d = f.imports[i]
      OBVIOUS
    <2>2. Extends([d EXCEPT !.ns = n], d, Whole(d, n, <<"all">>))
      <3>1. ~Bare(d)
        BY <1>4, <1>6, <2>1 DEF Bare
      <3> QED BY <1>4, <1>6, <2>1, <3>1, ExtendsNamespace
    <2>3. h = [f EXCEPT !.imports[i].ns = n]
      BY <1>1, <1>3, <1>6, ResultsAre
    <2>4. h = [f EXCEPT !.imports[i] = [d EXCEPT !.ns = n]]
      BY <2>1, <2>3 DEF File
    <2> QED BY <1>4, <1>6, <2>1, <2>2, <2>4 DEF OneMore
  <1>7. CASE there = Absent /\ ~Claimed(f, n) /\ i = 0
    <2>1. fresh \in Declaration /\ \A b \in Imported(fresh) : b = Whole(fresh, n, <<"all">>)
      BY <1>1, OneWhole DEF fresh
    <2>2. DefaultPlace(f) \in 1 .. Len(f.imports) + 1
      BY DefaultPlaceIs
    <2>3. h = InsertImport(f, fresh, DefaultPlace(f))
      BY <1>1, <1>3, <1>7, ResultsAre DEF AppendImport
    <2> QED BY <2>1, <2>2, <2>3 DEF OneMore
  <1> QED BY <1>5, <1>6, <1>7

(* ... addTypeImport ...                                                   *)
LEMMA AddTypeAdds ==
  ASSUME NEW f \in File, NEW n \in Nat \ {0}, NEW m \in ModuleName
  PROVE  OneMore(f, AddType(f, n, m).file)
  <1> DEFINE bound == \E d \in Of(f.imports, m) : \E b \in BoundNames(d) : b.local = n /\ ~b.whole /\ b.plain
             taken == Claimed(f, n) \/ \E v \in f.locals : v.name = n
             fresh == Decl(m, TRUE, Absent, Absent, <<Plain(n)>>)
             h == AddType(f, n, m).file
  <1>1. AddType(f, n, m) = IF bound THEN Done(f) ELSE IF taken THEN Refused(f) ELSE Done(AppendImport(f, fresh))
    BY DEF AddType
  <1> HIDE DEF bound, taken, fresh
  <1>2. h = f \/ h = InsertImport(f, fresh, DefaultPlace(f))
    BY <1>1, ResultsAre DEF AppendImport
  <1>3. fresh \in Declaration /\ \A b \in Imported(fresh) : b = Named(fresh, Plain(n))
    BY OneName DEF fresh
  <1>4. DefaultPlace(f) \in 1 .. Len(f.imports) + 1
    BY DefaultPlaceIs
  <1> QED BY <1>2, <1>3, <1>4 DEF OneMore

(* ... and addSideEffectImport.                                            *)
LEMMA AddSideEffectAdds ==
  ASSUME NEW f \in File, NEW m \in ModuleName
  PROVE  OneMore(f, AddSideEffect(f, m).file)
  <1> DEFINE there == \E d \in Of(f.imports, m) : Bare(d)
             fresh == Decl(m, FALSE, Absent, Absent, NoBraces)
             h == AddSideEffect(f, m).file
  <1>1. AddSideEffect(f, m) = IF there THEN Done(f) ELSE Done(AppendImport(f, fresh))
    BY DEF AddSideEffect
  <1> HIDE DEF there, fresh
  <1>2. h = f \/ h = InsertImport(f, fresh, DefaultPlace(f))
    BY <1>1, ResultsAre DEF AppendImport
  <1>3. fresh \in Declaration /\ \A b \in Imported(fresh) : b = 0
    <2>1. Absent \in Nat
      BY DEF Absent
    <2> QED BY <2>1, OneWhole DEF fresh
  <1>4. DefaultPlace(f) \in 1 .. Len(f.imports) + 1
    BY DefaultPlaceIs
  <1> QED BY <1>2, <1>3, <1>4 DEF OneMore

-----------------------------------------------------------------------------
(* Doing it again.                                                         *)

(* What boundNamesIn lists.                                                *)
BoundWhole(d, n) == [local |-> n, whole |-> TRUE, plain |-> TRUE, value |-> ~d.type]
BoundName(d, s) == [local |-> Visible(s), whole |-> FALSE, plain |-> s.as \in {Absent, s.name},
                    value |-> ~d.type /\ ~s.type]

LEMMA BoundNamesHave ==
  ASSUME NEW d
  PROVE  /\ d.def # Absent => BoundWhole(d, d.def) \in BoundNames(d)
         /\ d.ns # Absent => BoundWhole(d, d.ns) \in BoundNames(d)
         /\ \A s \in ToSet(d.named) : BoundName(d, s) \in BoundNames(d)
  <1> DEFINE W == {[local |-> n, whole |-> TRUE, plain |-> TRUE, value |-> ~d.type] : n \in {d.def, d.ns} \ {Absent}}
             N == {[local |-> Visible(s), whole |-> FALSE, plain |-> s.as \in {Absent, s.name},
                    value |-> ~d.type /\ ~s.type] : s \in ToSet(d.named)}
  <1>1. \A n \in {d.def, d.ns} \ {Absent} : BoundWhole(d, n) \in W
    BY Zenon DEF BoundWhole
  <1>2. \A s \in ToSet(d.named) : BoundName(d, s) \in N
    BY Zenon DEF BoundName
  <1>3. BoundNames(d) = W \cup N
    BY DEF BoundNames
  <1> HIDE DEF W, N
  <1> QED BY <1>1, <1>2, <1>3

(* Tags of bindings.                                                       *)
LEMMA TagsDiffer ==
  /\ \A n : <<"name", n>> # <<"default">> /\ <<"name", n>> # <<"all">>
  /\ <<"default">> # <<"all">>
  /\ \A k, n : <<"name", k>> = <<"name", n>> => k = n
  <1>1. \A n : Len(<<"name", n>>) = 2 /\ <<"name", n>>[2] = n
    OBVIOUS
  <1>2. Len(<<"default">>) = 1 /\ Len(<<"all">>) = 1 /\ <<"default">>[1] = "default" /\ <<"all">>[1] = "all"
    OBVIOUS
  <1>3. "default" # "all"
    OBVIOUS
  <1>4. \A n : <<"name", n>> # <<"default">> /\ <<"name", n>> # <<"all">>
    <2> TAKE n
    <2>1. Len(<<"name", n>>) # Len(<<"default">>) /\ Len(<<"name", n>>) # Len(<<"all">>)
      BY <1>1, <1>2
    <2> QED BY <2>1
  <1>5. <<"default">> # <<"all">>
    <2>1. <<"default">>[1] # <<"all">>[1]
      BY <1>2, <1>3
    <2> QED BY <2>1
  <1>6. \A k, n : <<"name", k>> = <<"name", n>> => k = n
    <2> SUFFICES ASSUME NEW k, NEW n, <<"name", k>> = <<"name", n>> PROVE k = n
      OBVIOUS
    <2>1. <<"name", k>>[2] = <<"name", n>>[2]
      OBVIOUS
    <2> QED BY <1>1, <2>1
  <1> QED BY <1>4, <1>5, <1>6

(* What a name is bound to, addImport finds.                               *)
BoundIn(f, n, m) == \E d \in Of(f.imports, m) : \E b \in BoundNames(d) : b.local = n /\ b.value /\ b.plain

LEMMA BindsBound ==
  ASSUME NEW f, NEW n, NEW m, Binds(f, n, m, Ways(n), TRUE)
  PROVE  BoundIn(f, n, m)
  <1>1. PICK d \in ToSet(f.imports) : \E c \in Imported(d) : c.local = n /\ c.from = m /\ c.what \in Ways(n) /\ c.value
    BY DEF Binds
  <1>2. PICK c \in Imported(d) : c.local = n /\ c.from = m /\ c.what \in Ways(n) /\ c.value
    BY <1>1
  <1>3. \/ d.def # Absent /\ c = Whole(d, d.def, <<"default">>)
        \/ d.ns # Absent /\ c = Whole(d, d.ns, <<"all">>)
        \/ \E s \in ToSet(d.named) : c = Named(d, s)
    BY ImportedIs, Zenon
  <1>4. ASSUME NEW x, NEW what, x # Absent, c = Whole(d, x, what), BoundWhole(d, x) \in BoundNames(d)
        PROVE  BoundIn(f, n, m)
    <2>1. x = n /\ d.from = m /\ ~d.type
      BY <1>2, <1>4 DEF Whole
    <2>2. BoundWhole(d, x).local = n /\ BoundWhole(d, x).value /\ BoundWhole(d, x).plain
      BY <2>1 DEF BoundWhole
    <2> QED BY <1>4, <2>1, <2>2 DEF BoundIn, Of
  <1>5. ASSUME NEW s \in ToSet(d.named), c = Named(d, s)
        PROVE  BoundIn(f, n, m)
    <2>1. Visible(s) = n /\ d.from = m /\ ~d.type /\ ~s.type /\ <<"name", s.name>> \in Ways(n)
      BY <1>2, <1>5 DEF Named
    <2>2. s.name = n
      BY <2>1, TagsDiffer DEF Ways
    <2>3. s.as \in {Absent, s.name}
      BY <2>1, <2>2 DEF Visible
    <2>4. BoundName(d, s).local = n /\ BoundName(d, s).value /\ BoundName(d, s).plain
      BY <2>1, <2>3 DEF BoundName
    <2>5. BoundName(d, s) \in BoundNames(d)
      BY BoundNamesHave
    <2> QED BY <2>1, <2>4, <2>5 DEF BoundIn, Of
  <1> QED BY <1>3, <1>4, <1>5, BoundNamesHave

(* So it does nothing then.                                                *)
LEMMA AddImportAgain ==
  ASSUME NEW f, NEW n, NEW m, NEW sorted, Binds(f, n, m, Ways(n), TRUE)
  PROVE  AddImport(f, n, m, sorted) = Done(f)
  <1>1. \E d \in Of(f.imports, m) : \E b \in BoundNames(d) : b.local = n /\ b.value /\ b.plain
    BY BindsBound DEF BoundIn
  <1> QED BY <1>1, Zenon DEF AddImport

(* addTypeImport finds a name by itself.                                   *)
LEMMA AddTypeAgain ==
  ASSUME NEW f, NEW n, NEW m, Binds(f, n, m, {<<"name", n>>}, FALSE)
  PROVE  AddType(f, n, m) = Done(f)
  <1>1. PICK d \in ToSet(f.imports) : \E c \in Imported(d) : c.local = n /\ c.from = m /\ c.what = <<"name", n>>
    BY DEF Binds
  <1>2. PICK c \in Imported(d) : c.local = n /\ c.from = m /\ c.what = <<"name", n>>
    BY <1>1
  <1>3. PICK s \in ToSet(d.named) : c = Named(d, s) /\ s.name = n
    BY <1>2, NamedIs
  <1>4. Visible(s) = n /\ d.from = m
    BY <1>2, <1>3 DEF Named
  <1>5. s.as \in {Absent, s.name}
    BY <1>3, <1>4 DEF Visible
  <1>6. BoundName(d, s).local = n /\ ~BoundName(d, s).whole /\ BoundName(d, s).plain
    BY <1>4, <1>5 DEF BoundName
  <1>7. BoundName(d, s) \in BoundNames(d)
    BY BoundNamesHave
  <1>8. \E e \in Of(f.imports, m) : \E b \in BoundNames(e) : b.local = n /\ ~b.whole /\ b.plain
    BY <1>4, <1>6, <1>7 DEF Of
  <1> QED BY <1>8, Zenon DEF AddType

(* What a default or namespace binds.                                      *)
What(field) == IF field = "def" THEN <<"default">> ELSE <<"all">>

LEMMA WholeIs ==
  ASSUME NEW d, NEW field \in {"def", "ns"}
  PROVE  /\ d[field] # Absent => Whole(d, d[field], What(field)) \in Imported(d)
         /\ \A b \in Imported(d) : b.what = What(field) => d[field] # Absent /\ b = Whole(d, d[field], What(field))
  <1>1. d[field] # Absent => Whole(d, d[field], What(field)) \in Imported(d)
    BY ImportedIs DEF What
  <1>2. ASSUME NEW b \in Imported(d), b.what = What(field)
        PROVE  d[field] # Absent /\ b = Whole(d, d[field], What(field))
    <2>1. \/ d.def # Absent /\ b = Whole(d, d.def, <<"default">>)
          \/ d.ns # Absent /\ b = Whole(d, d.ns, <<"all">>)
          \/ \E s \in ToSet(d.named) : b = Named(d, s)
      BY ImportedIs, Zenon
    <2>2. \A s : Named(d, s).what = <<"name", s.name>>
      BY DEF Named
    <2>3. \A n, what : Whole(d, n, what).what = what
      BY DEF Whole
    <2>4. CASE field = "def"
      BY <1>2, <2>1, <2>2, <2>3, <2>4, TagsDiffer DEF What
    <2>5. CASE field = "ns"
      BY <1>2, <2>1, <2>2, <2>3, <2>5, TagsDiffer DEF What
    <2> QED BY <2>4, <2>5
  <1> QED BY <1>1, <1>2

(* A default or namespace that was not there and has come is the one found.*)
LEMMA ExistingAgain ==
  ASSUME NEW f \in File, NEW h \in File, NEW n \in Nat \ {0}, NEW m, NEW field \in {"def", "ns"},
         Existing(f, m, field) = Absent, MoreBy(BindingsOf(f.imports), BindingsOf(h.imports)),
         Binds(h, n, m, {What(field)}, TRUE)
  PROVE  Existing(h, m, field) = n
  <1>1. PICK d \in ToSet(h.imports) : \E c \in Imported(d) : c.local = n /\ c.from = m /\ c.what = What(field) /\ c.value
    BY DEF Binds
  <1>2. PICK c \in Imported(d) : c.local = n /\ c.from = m /\ c.what = What(field) /\ c.value
    BY <1>1
  <1>3. \A x \in BindingsOf(f.imports) : x.from = m /\ x.what = What(field) => ~x.value
    <2> SUFFICES ASSUME NEW x \in BindingsOf(f.imports), x.from = m, x.what = What(field), x.value PROVE FALSE
      OBVIOUS
    <2>1. PICK e \in ToSet(f.imports) : x \in Imported(e)
      BY DEF BindingsOf
    <2>2. e[field] # Absent /\ x = Whole(e, e[field], What(field))
      BY <2>1, WholeIs
    <2>3. e.from = m /\ ~e.type
      BY <2>2 DEF Whole
    <2> QED BY <2>1, <2>2, <2>3, ExistingNot
  <1>4. ASSUME NEW e \in ToSet(h.imports), e.from = m, ~e.type, e[field] # Absent
        PROVE  e[field] = n
    <2>1. PICK x : x = Whole(e, e[field], What(field))
      OBVIOUS
    <2>2. x \in Imported(e)
      BY <1>4, <2>1, WholeIs
    <2>3. x.from = m /\ x.what = What(field) /\ x.value /\ x.local = e[field]
      BY <1>4, <2>1 DEF Whole
    <2>4. x \in BindingsOf(h.imports) \ BindingsOf(f.imports)
      BY <1>3, <2>2, <2>3 DEF BindingsOf
    <2>5. c \in BindingsOf(h.imports) \ BindingsOf(f.imports)
      BY <1>2, <1>3 DEF BindingsOf
    <2>6. x = c
      BY <2>4, <2>5 DEF MoreBy
    <2> QED BY <1>2, <2>3, <2>6
  <1>5. d.from = m /\ ~d.type /\ d[field] = n
    <2>1. c = Whole(d, d[field], What(field))
      BY <1>2, WholeIs
    <2> QED BY <1>2, <2>1 DEF Whole
  <1> DEFINE S == {e \in Of(h.imports, m) : ~e.type /\ e[field] # Absent}
             i == First(h.imports, S)
  <1>6. h.imports \in Seq(Declaration)
    BY Parts
  <1>7. /\ i # 0 => i \in DOMAIN h.imports /\ h.imports[i] \in S
        /\ i = 0 => \A j \in DOMAIN h.imports : h.imports[j] \notin S
    BY <1>6, FirstIs
  <1>8. Existing(h, m, field) = IF i = 0 THEN Absent ELSE h.imports[i][field]
    BY DEF Existing
  <1>9. d \in S
    BY <1>5 DEF Of, Absent
  <1> HIDE DEF i
  <1>10. i # 0
    <2> HIDE DEF S
    <2> QED BY <1>7, <1>9 DEF ToSet
  <1>11. h.imports[i] \in ToSet(h.imports) /\ h.imports[i].from = m /\ ~h.imports[i].type /\ h.imports[i][field] # Absent
    BY <1>7, <1>10 DEF Of
  <1> QED BY <1>4, <1>8, <1>10, <1>11

(* addDefaultImport and addNamespaceImport find what they have added.      *)
LEMMA AddDefaultAgain ==
  ASSUME NEW f \in File, Compilable(f), NEW n \in Nat \ {0}, NEW m \in ModuleName, NEW h,
         AddDefault(f, n, m).ok, h = AddDefault(f, n, m).file, h # f
  PROVE  AddDefault(h, n, m) = Done(h)
  <1>1. h \in File
    BY AddDefaultIsGood DEF Good
  <1>2. Existing(f, m, "def") = Absent
    <2> SUFFICES ASSUME Existing(f, m, "def") # Absent PROVE h = f
      OBVIOUS
    <2>1. AddDefault(f, n, m) = Done(f) \/ AddDefault(f, n, m) = Refused(f)
      BY Zenon DEF AddDefault
    <2> QED BY <2>1, ResultsAre
  <1>3. MoreBy(BindingsOf(f.imports), BindingsOf(h.imports))
    BY AddDefaultAdds, OneMoreGrows DEF ImportsGrow
  <1>4. Binds(h, n, m, {What("def")}, TRUE)
    BY AddDefaultGives DEF What
  <1>5. Existing(h, m, "def") = n
    BY <1>1, <1>2, <1>3, <1>4, ExistingAgain
  <1> QED BY <1>5, Zenon DEF AddDefault

LEMMA AddNamespaceAgain ==
  ASSUME NEW f \in File, Compilable(f), NEW n \in Nat \ {0}, NEW m \in ModuleName, NEW h,
         AddNamespace(f, n, m).ok, h = AddNamespace(f, n, m).file, h # f
  PROVE  AddNamespace(h, n, m) = Done(h)
  <1>1. h \in File
    BY AddNamespaceIsGood DEF Good
  <1>2. Existing(f, m, "ns") = Absent
    <2> SUFFICES ASSUME Existing(f, m, "ns") # Absent PROVE h = f
      OBVIOUS
    <2>1. AddNamespace(f, n, m) = Done(f) \/ AddNamespace(f, n, m) = Refused(f)
      BY Zenon DEF AddNamespace
    <2> QED BY <2>1, ResultsAre
  <1>3. MoreBy(BindingsOf(f.imports), BindingsOf(h.imports))
    BY AddNamespaceAdds, OneMoreGrows DEF ImportsGrow
  <1>4. Binds(h, n, m, {What("ns")}, TRUE)
    BY AddNamespaceGives DEF What
  <1>5. Existing(h, m, "ns") = n
    BY <1>1, <1>2, <1>3, <1>4, ExistingAgain
  <1> QED BY <1>5, Zenon DEF AddNamespace

(* addSideEffectImport finds the import.                                   *)
LEMMA AddSideEffectAgain ==
  ASSUME NEW f \in File, NEW m \in ModuleName, NEW h, h = AddSideEffect(f, m).file
  PROVE  AddSideEffect(h, m) = Done(h)
  <1>1. \E d \in Of(h.imports, m) : Bare(d)
    BY AddSideEffectGives DEF Of
  <1> QED BY <1>1, Zenon DEF AddSideEffect

-----------------------------------------------------------------------------
(* Exports, and the other parts.                                           *)

ReexportsOf(es) == UNION {Reexported(e) : e \in ToSet(es)}

LEMMA ReexportsAre ==
  ASSUME NEW es, NEW x
  PROVE  x \in ReexportsOf(es) <=> \E i \in DOMAIN es : x \in Reexported(es[i])
  BY DEF ReexportsOf, ToSet

(* One export more at most, ...                                            *)
LEMMA AppendedExport ==
  ASSUME NEW es \in Seq(Export), NEW e \in Export, NEW z, \A x \in Reexported(e) : x = z
  PROVE  MoreBy(ReexportsOf(es), ReexportsOf(Append(es, e)))
  <1>1. PICK xs : xs = Append(es, e)
    OBVIOUS
  <1>2. /\ DOMAIN es = 1 .. Len(es) /\ Len(es) \in Nat /\ DOMAIN xs = 1 .. Len(es) + 1 /\ xs[Len(es) + 1] = e
        /\ \A i \in 1 .. Len(es) : xs[i] = es[i]
    BY <1>1
  <1>3. ReexportsOf(es) \subseteq ReexportsOf(xs)
    <2> SUFFICES ASSUME NEW x \in ReexportsOf(es) PROVE x \in ReexportsOf(xs)
      OBVIOUS
    <2>1. PICK i \in DOMAIN es : x \in Reexported(es[i])
      BY ReexportsAre
    <2>2. i \in DOMAIN xs /\ xs[i] = es[i]
      BY <1>2
    <2> QED BY <2>1, <2>2, ReexportsAre
  <1>4. \A x \in ReexportsOf(xs) : x \in ReexportsOf(es) \/ x = z
    <2> SUFFICES ASSUME NEW x \in ReexportsOf(xs), x # z PROVE x \in ReexportsOf(es)
      OBVIOUS
    <2>1. PICK i \in DOMAIN xs : x \in Reexported(xs[i])
      BY ReexportsAre
    <2>2. i # Len(es) + 1
      BY <1>2, <2>1
    <2>3. i \in DOMAIN es /\ xs[i] = es[i]
      BY <1>2, <2>2
    <2> QED BY <2>1, <2>3, ReexportsAre
  <1> QED BY <1>1, <1>3, <1>4, MoreByOne

(* ... be it in a declaration of its own or in one that is there.          *)
LEMMA ChangedExport ==
  ASSUME NEW es \in Seq(Export), NEW p \in DOMAIN es, NEW e, NEW z, Reexported(es[p]) \subseteq Reexported(e),
         \A x \in Reexported(e) : x \in Reexported(es[p]) \/ x = z
  PROVE  MoreBy(ReexportsOf(es), ReexportsOf([es EXCEPT ![p] = e]))
  <1>1. PICK xs : xs = [es EXCEPT ![p] = e]
    OBVIOUS
  <1>2. DOMAIN xs = DOMAIN es /\ \A i \in DOMAIN es : xs[i] = IF i = p THEN e ELSE es[i]
    BY <1>1
  <1>3. ReexportsOf(es) \subseteq ReexportsOf(xs)
    BY <1>2, ReexportsAre
  <1>4. \A x \in ReexportsOf(xs) : x \in ReexportsOf(es) \/ x = z
    BY <1>2, ReexportsAre
  <1> QED BY <1>1, <1>3, <1>4, MoreByOne

(* Nothing but the exports has changed.                                    *)
ExceptExports(f, h) ==
  h.imports = f.imports /\ h.locals = f.locals /\ h.list = f.list /\ h.routes = f.routes /\ h.members = f.members

LEMMA OnlyExports == \A f \in File : \A es : [f EXCEPT !.exports = es].exports = es /\ ExceptExports(f, [f EXCEPT !.exports = es])
  BY DEF File, ExceptExports

(* addReExport adds one export at most, ...                                *)
LEMMA AddReExportAdds ==
  ASSUME NEW f \in File, NEW n \in Nat \ {0}, NEW m \in ModuleName, NEW h, h = AddReExport(f, n, m).file
  PROVE  MoreBy(ReexportsOf(f.exports), ReexportsOf(h.exports)) /\ ExceptExports(f, h)
  <1> DEFINE there == \E e \in Of(f.exports, m) : \E s \in ToSet(e.named) : s.name = n
             S == {e \in Of(f.exports, m) : ~e.star}
             i == First(f.exports, S)
             fresh == ExportDecl(m, Absent, <<Plain(n)>>)
  <1>1. f.exports \in Seq(Export)
    BY Parts
  <1>2. i # 0 => i \in DOMAIN f.exports
    BY <1>1, FirstIs
  <1>3. AddReExport(f, n, m) =
          IF there THEN Done(f)
          ELSE IF n \in ExportedNames(f) THEN Refused(f)
          ELSE IF i # 0 THEN Done([f EXCEPT !.exports[i].named = Append(@, Plain(n))])
          ELSE Done([f EXCEPT !.exports = Append(@, fresh)])
    BY DEF AddReExport
  <1> HIDE DEF there, i, S
  <1>4. PICK s : s = Plain(n)
    OBVIOUS
  <1>5. s \in Specifier
    BY <1>4, PlainIs
  <1>6. CASE there \/ n \in ExportedNames(f)
    <2>1. AddReExport(f, n, m) = Done(f) \/ AddReExport(f, n, m) = Refused(f)
      BY <1>3, <1>6
    <2>2. h = f
      BY <2>1, ResultsAre
    <2> QED BY <2>2, MoreByNone DEF ExceptExports
  <1>7. CASE ~there /\ n \notin ExportedNames(f) /\ i # 0
    <2>1. i \in DOMAIN f.exports /\ f.exports[i] \in Export
      BY <1>1, <1>2, <1>7
    <2>2. PICK d, u, t : d = f.exports[i] /\ u = d.named /\ t = Append(u, s)
      OBVIOUS
    <2>3. u \in Seq(Specifier)
      BY <2>1, <2>2 DEF Export
    <2>4. PICK e : e = [d EXCEPT !.named = t]
      OBVIOUS
    <2>5. t \in Seq(Specifier) /\ Grown(t, u, s, Len(u) + 1)
      BY <1>5, <2>2, <2>3, AppendGrows
    <2>6. \A x \in Reexported(e) : x \in Reexported(d) \/ x = AsName(d.from, s)
      BY <2>1, <2>2, <2>4, <2>5, OtherExports
    <2>7. Reexported(d) \subseteq Reexported(e)
      <3>1. e.from = d.from /\ e.ns = d.ns /\ e.star = d.star /\ e.named = t
        BY <2>1, <2>2, <2>4 DEF Export
      <3>2. ToSet(u) \subseteq ToSet(t)
        <4>1. \A j \in DOMAIN u : j \in DOMAIN t /\ t[j] = u[j]
          BY <2>2, <2>3
        <4> QED BY <4>1 DEF ToSet
      <3> SUFFICES ASSUME NEW x \in Reexported(d) PROVE x \in Reexported(e)
        OBVIOUS
      <3>3. (\E y \in ToSet(u) : x = AsName(d.from, y)) \/ (d.star = TRUE /\ x = AsAll(d.from, d.ns))
        BY <2>2, ReexportedIs
      <3>4. (\E y \in ToSet(e.named) : x = AsName(e.from, y)) \/ (e.star = TRUE /\ x = AsAll(e.from, e.ns))
        BY <3>1, <3>2, <3>3
      <3> QED BY <3>4, ReexportedIs
    <2>8. h = [f EXCEPT !.exports[i].named = Append(@, Plain(n))]
      BY <1>3, <1>7, ResultsAre
    <2>9. h = [f EXCEPT !.exports = [f.exports EXCEPT ![i] = e]]
      BY <1>4, <2>2, <2>4, <2>8 DEF File
    <2>10. h.exports = [f.exports EXCEPT ![i] = e] /\ ExceptExports(f, h)
      BY <2>9, OnlyExports
    <2> QED BY <1>1, <2>1, <2>2, <2>6, <2>7, <2>10, ChangedExport
  <1>8. CASE ~there /\ n \notin ExportedNames(f) /\ i = 0
    <2>1. PICK e : e = fresh
      OBVIOUS
    <2>2. <<Plain(n)>> # NoBraces
      BY DEF Plain, NoBraces, Absent
    <2>3. e = [from |-> m, ns |-> Absent, star |-> FALSE, named |-> <<s>>]
      BY <1>4, <2>1, <2>2 DEF ExportDecl, InBraces
    <2>4. e \in Export /\ ToSet(e.named) = {s} /\ e.from = m /\ e.star = FALSE
      BY <1>5, <2>3 DEF Export, Absent, ToSet
    <2>5. \A x \in Reexported(e) : x = AsName(m, s)
      BY <2>4, ReexportedIs
    <2>6. h = [f EXCEPT !.exports = Append(@, fresh)]
      BY <1>3, <1>8, ResultsAre
    <2>7. h = [f EXCEPT !.exports = Append(f.exports, e)]
      BY <2>1, <2>6
    <2>8. h.exports = Append(f.exports, e) /\ ExceptExports(f, h)
      <3>1. /\ [f EXCEPT !.exports = Append(f.exports, e)].exports = Append(f.exports, e)
            /\ ExceptExports(f, [f EXCEPT !.exports = Append(f.exports, e)])
        BY OnlyExports, Zenon
      <3> QED BY <2>7, <3>1, Zenon
    <2> QED BY <1>1, <2>4, <2>5, <2>8, AppendedExport
  <1> QED BY <1>6, <1>7, <1>8

(* ... and finds it when asked again; ...                                  *)
LEMMA AddReExportAgain ==
  ASSUME NEW f, NEW n, NEW m, ReexportsName(f, n, m)
  PROVE  AddReExport(f, n, m) = Done(f)
  <1>1. PICK e \in ToSet(f.exports) : \E x \in Reexported(e) : StandsFor(x, n, m)
    BY DEF ReexportsName
  <1>2. PICK x \in Reexported(e) : StandsFor(x, n, m)
    BY <1>1
  <1>3. CASE \E s \in ToSet(e.named) : x = AsName(e.from, s)
    <2>1. PICK s \in ToSet(e.named) : x = AsName(e.from, s)
      BY <1>3
    <2>2. e.from = m /\ <<"name", s.name>> = <<"name", n>>
      BY <1>2, <2>1 DEF StandsFor, AsName
    <2>3. s.name = n
      BY <2>2, TagsDiffer
    <2>4. \E d \in Of(f.exports, m) : \E y \in ToSet(d.named) : y.name = n
      BY <2>2, <2>3 DEF Of
    <2> QED BY <2>4, Zenon DEF AddReExport
  <1>4. CASE x = AsAll(e.from, e.ns)
    <2>1. <<"all">> = <<"name", n>>
      BY <1>2, <1>4 DEF StandsFor, AsAll
    <2> QED BY <2>1, TagsDiffer
  <1> QED BY <1>3, <1>4, ReexportedIs

(* ... so does addExportAll.                                               *)
LEMMA AddExportAllAdds ==
  ASSUME NEW f \in File, NEW m \in ModuleName, NEW ns \in Nat, NEW h, h = AddExportAll(f, m, ns).file
  PROVE  /\ MoreBy(ReexportsOf(f.exports), ReexportsOf(h.exports)) /\ ExceptExports(f, h)
         /\ h # f => AddExportAll(h, m, ns) = Done(h)
  <1> DEFINE there == \E e \in Of(f.exports, m) : e.star /\ e.ns = ns
             fresh == ExportDecl(m, ns, NoBraces)
  <1>1. AddExportAll(f, m, ns) =
          IF there THEN Done(f)
          ELSE IF ns # Absent /\ ns \in ExportedNames(f) THEN Refused(f)
          ELSE Done([f EXCEPT !.exports = Append(@, fresh)])
    BY DEF AddExportAll
  <1> HIDE DEF there
  <1>2. f.exports \in Seq(Export)
    BY Parts
  <1>3. CASE there \/ (ns # Absent /\ ns \in ExportedNames(f))
    <2>1. AddExportAll(f, m, ns) = Done(f) \/ AddExportAll(f, m, ns) = Refused(f)
      BY <1>1, <1>3
    <2>2. h = f
      BY <2>1, ResultsAre
    <2> QED BY <2>2, MoreByNone DEF ExceptExports
  <1>4. CASE ~there /\ ~(ns # Absent /\ ns \in ExportedNames(f))
    <2>1. PICK e : e = fresh
      OBVIOUS
    <2>2. e = [from |-> m, ns |-> ns, star |-> TRUE, named |-> <<>>]
      BY <2>1 DEF ExportDecl, InBraces
    <2>3. e \in Export /\ ToSet(e.named) = {} /\ e.from = m /\ e.star = TRUE /\ e.ns = ns
      BY <2>2 DEF Export, ToSet
    <2>4. \A x \in Reexported(e) : x = AsAll(m, ns)
      BY <2>3, ReexportedIs
    <2>5. h = [f EXCEPT !.exports = Append(@, fresh)]
      BY <1>1, <1>4, ResultsAre
    <2>6. h = [f EXCEPT !.exports = Append(f.exports, e)]
      BY <2>1, <2>5
    <2>7. h.exports = Append(f.exports, e) /\ ExceptExports(f, h)
      <3>1. /\ [f EXCEPT !.exports = Append(f.exports, e)].exports = Append(f.exports, e)
            /\ ExceptExports(f, [f EXCEPT !.exports = Append(f.exports, e)])
        BY OnlyExports, Zenon
      <3> QED BY <2>6, <3>1, Zenon
    <2>8. e \in ToSet(h.exports)
      <3>1. Len(f.exports) + 1 \in DOMAIN Append(f.exports, e) /\ Append(f.exports, e)[Len(f.exports) + 1] = e
        BY <1>2
      <3> QED BY <2>7, <3>1 DEF ToSet
    <2>9. \E x \in Of(h.exports, m) : x.star /\ x.ns = ns
      BY <2>3, <2>8 DEF Of
    <2>10. AddExportAll(h, m, ns) = Done(h)
      BY <2>9, Zenon DEF AddExportAll
    <2> QED BY <1>2, <2>3, <2>4, <2>7, <2>10, AppendedExport
  <1> QED BY <1>3, <1>4

-----------------------------------------------------------------------------
(* What removals leave.                                                    *)

(* t has what s has at the other places than p.                            *)
HasTheRest(t, s, p) ==
  /\ \A j \in DOMAIN t : \E i \in DOMAIN s : i # p /\ t[j] = s[i]
  /\ \A i \in DOMAIN s : i # p => \E j \in DOMAIN t : t[j] = s[i]

(* What is left of a sequence is what was elsewhere.                       *)
LEMMA RemovedAre ==
  ASSUME NEW T, NEW s \in Seq(T), NEW p \in DOMAIN s, NEW t, t = RemoveAt(s, p)
  PROVE  t \in Seq(T) /\ HasTheRest(t, s, p)
  <1>1. PICK n : n = Len(s)
    OBVIOUS
  <1>2. /\ n \in Nat /\ DOMAIN s = 1 .. n /\ p \in 1 .. n
        /\ t \in Seq(T) /\ DOMAIN t = 1 .. n - 1
        /\ \A i \in 1 .. n - 1 : t[i] = IF i < p THEN s[i] ELSE s[i + 1]
    <2>1. t \in Seq(T) /\ Len(t) = Len(s) - 1 /\ \A i \in 1 .. Len(s) - 1 : t[i] = IF i < p THEN s[i] ELSE s[i + 1]
      BY RemoveIs
    <2> QED BY <1>1, <2>1
  <1>3. ASSUME NEW j \in DOMAIN t PROVE \E i \in DOMAIN s : i # p /\ t[j] = s[i]
    <2>1. CASE j < p
      <3>1. j \in DOMAIN s /\ j # p /\ t[j] = s[j]
        BY <1>2, <2>1
      <3> QED BY <3>1
    <2>2. CASE ~(j < p)
      <3>1. j + 1 \in DOMAIN s /\ j + 1 # p /\ t[j] = s[j + 1]
        BY <1>2, <2>2
      <3> QED BY <3>1
    <2> QED BY <2>1, <2>2
  <1>4. ASSUME NEW i \in DOMAIN s, i # p PROVE \E j \in DOMAIN t : t[j] = s[i]
    <2>1. CASE i < p
      <3>1. i \in DOMAIN t /\ t[i] = s[i]
        BY <1>2, <2>1
      <3> QED BY <3>1
    <2>2. CASE ~(i < p)
      <3>1. i - 1 \in DOMAIN t /\ ~(i - 1 < p) /\ (i - 1) + 1 = i
        BY <1>2, <1>4, <2>2
      <3> QED BY <1>2, <3>1
    <2> QED BY <2>1, <2>2
  <1> QED BY <1>2, <1>3, <1>4 DEF HasTheRest

(* Only exports of one module are gone.                                    *)
LosesExports(es, xs, m) ==
  ReexportsOf(xs) \subseteq ReexportsOf(es) /\ \A x \in ReexportsOf(es) \ ReexportsOf(xs) : x.from = m

LEMMA ExportGone ==
  ASSUME NEW es \in Seq(Export), NEW p \in DOMAIN es
  PROVE  LosesExports(es, RemoveAt(es, p), es[p].from)
  <1>1. PICK xs : xs = RemoveAt(es, p)
    OBVIOUS
  <1>2. /\ \A j \in DOMAIN xs : \E i \in DOMAIN es : i # p /\ xs[j] = es[i]
        /\ \A i \in DOMAIN es : i # p => \E j \in DOMAIN xs : xs[j] = es[i]
    <2>1. HasTheRest(xs, es, p)
      BY <1>1, RemovedAre
    <2> QED BY <2>1 DEF HasTheRest
  <1>3. ReexportsOf(xs) \subseteq ReexportsOf(es)
    <2> SUFFICES ASSUME NEW x \in ReexportsOf(xs) PROVE x \in ReexportsOf(es)
      OBVIOUS
    <2>1. PICK j \in DOMAIN xs : x \in Reexported(xs[j])
      BY ReexportsAre
    <2>2. PICK i \in DOMAIN es : xs[j] = es[i]
      BY <1>2
    <2> QED BY <2>1, <2>2, ReexportsAre
  <1>4. ASSUME NEW x \in ReexportsOf(es), x \notin ReexportsOf(xs) PROVE x.from = es[p].from
    <2>1. PICK i \in DOMAIN es : x \in Reexported(es[i])
      BY ReexportsAre
    <2>2. i = p
      <3> SUFFICES ASSUME i # p PROVE FALSE
        OBVIOUS
      <3>1. PICK j \in DOMAIN xs : xs[j] = es[i]
        BY <1>2
      <3> QED BY <1>4, <2>1, <3>1, ReexportsAre
    <2>3. (\E s \in ToSet(es[p].named) : x = AsName(es[p].from, s)) \/ x = AsAll(es[p].from, es[p].ns)
      BY <2>1, <2>2, ReexportedIs
    <2> QED BY <2>3 DEF AsName, AsAll
  <1> QED BY <1>1, <1>3, <1>4 DEF LosesExports

LEMMA ExportLess ==
  ASSUME NEW es \in Seq(Export), NEW p \in DOMAIN es, NEW k \in DOMAIN es[p].named, NEW e,
         e = [es[p] EXCEPT !.named = RemoveAt(es[p].named, k)]
  PROVE  LosesExports(es, [es EXCEPT ![p] = e], es[p].from)
  <1>1. PICK xs, d, t : xs = [es EXCEPT ![p] = e] /\ d = es[p] /\ t = RemoveAt(d.named, k)
    OBVIOUS
  <1>2. DOMAIN xs = DOMAIN es /\ \A i \in DOMAIN es : xs[i] = IF i = p THEN e ELSE es[i]
    BY <1>1
  <1>3. d \in Export /\ d.named \in Seq(Specifier)
    <2>1. d \in Export
      BY <1>1
    <2> QED BY <2>1 DEF Export
  <1>4. PICK s : s = 0
    OBVIOUS
  <1>5. t \in Seq(Specifier) /\ Grown(t, d.named, s, 0) /\ 0 \notin DOMAIN t
    BY <1>1, <1>3, RemoveShrinks
  <1>6. Reexported(e) \subseteq Reexported(d)
    BY <1>1, <1>3, <1>5, OtherExports
  <1>7. ReexportsOf(xs) \subseteq ReexportsOf(es)
    BY <1>1, <1>2, <1>6, ReexportsAre
  <1>8. ASSUME NEW x \in ReexportsOf(es), x \notin ReexportsOf(xs) PROVE x.from = d.from
    <2>1. PICK i \in DOMAIN es : x \in Reexported(es[i])
      BY ReexportsAre
    <2>2. i = p
      BY <1>2, <1>8, <2>1, ReexportsAre
    <2>3. (\E y \in ToSet(d.named) : x = AsName(d.from, y)) \/ x = AsAll(d.from, d.ns)
      BY <1>1, <2>1, <2>2, ReexportedIs
    <2> QED BY <2>3 DEF AsName, AsAll
  <1> QED BY <1>1, <1>7, <1>8 DEF LosesExports

(* removeReExport takes nothing but an export of that module, ...          *)
LEMMA RemoveReExportTakes ==
  ASSUME NEW f \in File, NEW n, NEW m, NEW h, h = RemoveReExport(f, n, m).file, h # f
  PROVE  LosesExports(f.exports, h.exports, m) /\ ExceptExports(f, h)
  <1> DEFINE S == {e \in Of(f.exports, m) : \E s \in ToSet(e.named) : s.name = n}
             i == First(f.exports, S)
             R == {s \in ToSet(f.exports[i].named) : s.name = n}
             k == First(f.exports[i].named, R)
  <1>1. f.exports \in Seq(Export)
    BY Parts
  <1>2. i # 0 => i \in DOMAIN f.exports /\ f.exports[i] \in S
    BY <1>1, FirstIs
  <1>3. RemoveReExport(f, n, m) =
          IF i = 0 THEN Done(f)
          ELSE IF Len(f.exports[i].named) = 1 THEN Done([f EXCEPT !.exports = RemoveAt(@, i)])
          ELSE Done([f EXCEPT !.exports[i].named = RemoveAt(@, k)])
    BY DEF RemoveReExport
  <1>4. i # 0
    <2> HIDE DEF i, k
    <2> QED BY <1>3, ResultsAre
  <1>5. i \in DOMAIN f.exports /\ f.exports[i].named \in Seq(Specifier) /\ f.exports[i] \in S
    <2>1. i \in DOMAIN f.exports /\ f.exports[i] \in S
      BY <1>2, <1>4
    <2> HIDE DEF i, S
    <2>2. f.exports[i] \in Export
      BY <1>1, <2>1
    <2> QED BY <2>1, <2>2 DEF Export
  <1>6. k \in DOMAIN f.exports[i].named
    <2>1. PICK s \in ToSet(f.exports[i].named) : s.name = n
      BY <1>5
    <2>2. PICK j \in DOMAIN f.exports[i].named : f.exports[i].named[j] = s
      BY DEF ToSet
    <2>3. f.exports[i].named[j] \in R
      BY <2>1, <2>2
    <2> HIDE DEF i, S, R
    <2> QED BY <1>5, <2>2, <2>3, FirstIs
  <1>7. f.exports[i].from = m
    <2> HIDE DEF i
    <2> QED BY <1>5 DEF Of
  <1> HIDE DEF i, S, k, R
  <1>8. CASE RemoveReExport(f, n, m) = Done([f EXCEPT !.exports = RemoveAt(@, i)])
    <2>1. h = [f EXCEPT !.exports = RemoveAt(f.exports, i)]
      BY <1>8, ResultsAre
    <2>2. h.exports = RemoveAt(f.exports, i) /\ ExceptExports(f, h)
      BY <2>1, OnlyExports
    <2> QED BY <1>1, <1>5, <1>7, <2>2, ExportGone
  <1>9. CASE RemoveReExport(f, n, m) = Done([f EXCEPT !.exports[i].named = RemoveAt(@, k)])
    <2>1. PICK e : e = [f.exports[i] EXCEPT !.named = RemoveAt(f.exports[i].named, k)]
      OBVIOUS
    <2>2. h = [f EXCEPT !.exports[i].named = RemoveAt(@, k)]
      BY <1>9, ResultsAre
    <2>3. h = [f EXCEPT !.exports = [f.exports EXCEPT ![i] = e]]
      BY <2>1, <2>2 DEF File
    <2>4. h.exports = [f.exports EXCEPT ![i] = e] /\ ExceptExports(f, h)
      BY <2>3, OnlyExports
    <2> QED BY <1>1, <1>5, <1>6, <1>7, <2>1, <2>4, ExportLess
  <1> QED BY <1>3, <1>4, <1>8, <1>9

(* ... and so does removeExportAll, which does nothing more when asked     *)
(* again, where there was one such export.                                 *)
LEMMA RemoveExportAllTakes ==
  ASSUME NEW f \in File, NEW m, NEW ns, NEW h, h = RemoveExportAll(f, m, ns).file, h # f
  PROVE  /\ LosesExports(f.exports, h.exports, m) /\ ExceptExports(f, h)
         /\ (\A i, j \in DOMAIN f.exports :
               {f.exports[i], f.exports[j]} \subseteq {e \in Of(f.exports, m) : e.star /\ e.ns = ns} => i = j)
              => RemoveExportAll(h, m, ns) = Done(h)
  <1> DEFINE S == {e \in Of(f.exports, m) : e.star /\ e.ns = ns}
             i == First(f.exports, S)
  <1>1. f.exports \in Seq(Export)
    BY Parts
  <1>2. i # 0 => i \in DOMAIN f.exports /\ f.exports[i] \in S
    BY <1>1, FirstIs
  <1>3. RemoveExportAll(f, m, ns) = Done(IF i = 0 THEN f ELSE [f EXCEPT !.exports = RemoveAt(@, i)])
    BY DEF RemoveExportAll
  <1>4. i # 0
    <2> HIDE DEF i
    <2> QED BY <1>3, ResultsAre
  <1>5. i \in DOMAIN f.exports /\ f.exports[i] \in S
    BY <1>2, <1>4
  <1>6. f.exports[i].from = m
    <2> HIDE DEF i
    <2> QED BY <1>5 DEF Of
  <1> HIDE DEF i
  <1>7. h = [f EXCEPT !.exports = RemoveAt(f.exports, i)]
    BY <1>3, <1>4, ResultsAre
  <1>8. h.exports = RemoveAt(f.exports, i) /\ ExceptExports(f, h)
    BY <1>7, OnlyExports
  <1>9. LosesExports(f.exports, h.exports, m)
    BY <1>1, <1>5, <1>6, <1>8, ExportGone
  <1>10. ASSUME \A x, y \in DOMAIN f.exports : {f.exports[x], f.exports[y]} \subseteq S => x = y
         PROVE  RemoveExportAll(h, m, ns) = Done(h)
    <2> DEFINE S2 == {e \in Of(h.exports, m) : e.star /\ e.ns = ns}
    <2>1. \A j \in DOMAIN h.exports : \E x \in DOMAIN f.exports : x # i /\ h.exports[j] = f.exports[x]
      <3>1. HasTheRest(h.exports, f.exports, i)
        BY <1>1, <1>5, <1>8, RemovedAre
      <3> QED BY <3>1 DEF HasTheRest
    <2>2. \A x \in DOMAIN f.exports : f.exports[x] \in S => x = i
      BY <1>5, <1>10
    <2>3. S2 \cap ToSet(h.exports) = {}
      <3> SUFFICES ASSUME NEW j \in DOMAIN h.exports, h.exports[j] \in S2 PROVE FALSE
        BY DEF ToSet
      <3>1. PICK x \in DOMAIN f.exports : x # i /\ h.exports[j] = f.exports[x]
        BY <2>1
      <3>2. f.exports[x] \in S
        BY <3>1 DEF Of, ToSet
      <3> QED BY <2>2, <3>1, <3>2
    <2>4. First(h.exports, S2) = 0
      BY <2>3 DEF First
    <2> HIDE DEF S2
    <2>5. RemoveExportAll(h, m, ns) = Done(IF First(h.exports, S2) = 0 THEN h ELSE [h EXCEPT !.exports = RemoveAt(@, First(h.exports, S2))])
      BY DEF RemoveExportAll, S2
    <2> QED BY <2>4, <2>5
  <1> QED BY <1>8, <1>9, <1>10

(* removeImport takes nothing but bindings of that name, no effect.        *)
LosesImports(ds, es, n, m) ==
  /\ BindingsOf(es) \subseteq BindingsOf(ds) /\ EffectsOf(es) = EffectsOf(ds)
  /\ \A b \in BindingsOf(ds) \ BindingsOf(es) : StandsFor(b, n, m)

LEMMA ImportGone ==
  ASSUME NEW ds \in Seq(Declaration), NEW p \in DOMAIN ds, ~Bare(ds[p]), NEW n, NEW m,
         \A b \in Imported(ds[p]) : StandsFor(b, n, m)
  PROVE  LosesImports(ds, RemoveAt(ds, p), n, m)
  <1>1. PICK es : es = RemoveAt(ds, p)
    OBVIOUS
  <1>2. /\ \A j \in DOMAIN es : \E i \in DOMAIN ds : i # p /\ es[j] = ds[i]
        /\ \A i \in DOMAIN ds : i # p => \E j \in DOMAIN es : es[j] = ds[i]
    <2>1. HasTheRest(es, ds, p)
      BY <1>1, RemovedAre
    <2> QED BY <2>1 DEF HasTheRest
  <1>3. BindingsOf(es) \subseteq BindingsOf(ds)
    <2> SUFFICES ASSUME NEW x \in BindingsOf(es) PROVE x \in BindingsOf(ds)
      OBVIOUS
    <2>1. PICK j \in DOMAIN es : x \in Imported(es[j])
      BY BindingsAre
    <2>2. PICK i \in DOMAIN ds : es[j] = ds[i]
      BY <1>2
    <2> QED BY <2>1, <2>2, BindingsAre
  <1>4. ASSUME NEW x \in BindingsOf(ds), x \notin BindingsOf(es) PROVE StandsFor(x, n, m)
    <2>1. PICK i \in DOMAIN ds : x \in Imported(ds[i])
      BY BindingsAre
    <2>2. i = p
      <3> SUFFICES ASSUME i # p PROVE FALSE
        OBVIOUS
      <3>1. PICK j \in DOMAIN es : es[j] = ds[i]
        BY <1>2
      <3> QED BY <1>4, <2>1, <3>1, BindingsAre
    <2> QED BY <2>1, <2>2
  <1>5. EffectsOf(es) = EffectsOf(ds)
    <2>1. \A x \in EffectsOf(es) : x \in EffectsOf(ds)
      <3> TAKE x \in EffectsOf(es)
      <3>1. PICK j \in DOMAIN es : Bare(es[j]) /\ es[j].from = x
        BY EffectsAre
      <3>2. PICK i \in DOMAIN ds : es[j] = ds[i]
        BY <1>2
      <3> QED BY <3>1, <3>2, EffectsAre
    <2>2. \A x \in EffectsOf(ds) : x \in EffectsOf(es)
      <3> TAKE x \in EffectsOf(ds)
      <3>1. PICK i \in DOMAIN ds : Bare(ds[i]) /\ ds[i].from = x
        BY EffectsAre
      <3>2. PICK j \in DOMAIN es : es[j] = ds[i]
        BY <1>2, <3>1
      <3> QED BY <3>1, <3>2, EffectsAre
    <2> QED BY <2>1, <2>2
  <1> QED BY <1>1, <1>3, <1>4, <1>5 DEF LosesImports

LEMMA ImportLess ==
  ASSUME NEW ds \in Seq(Declaration), NEW p \in DOMAIN ds, NEW e, NEW n, NEW m,
         Imported(e) \subseteq Imported(ds[p]), \A b \in Imported(ds[p]) \ Imported(e) : StandsFor(b, n, m),
         Bare(e) <=> Bare(ds[p]), e.from = ds[p].from
  PROVE  LosesImports(ds, [ds EXCEPT ![p] = e], n, m)
  <1>1. PICK es : es = [ds EXCEPT ![p] = e]
    OBVIOUS
  <1>2. DOMAIN es = DOMAIN ds /\ \A i \in DOMAIN ds : es[i] = IF i = p THEN e ELSE ds[i]
    BY <1>1
  <1>3. BindingsOf(es) \subseteq BindingsOf(ds)
    BY <1>2, BindingsAre
  <1>4. \A b \in BindingsOf(ds) : b \in BindingsOf(es) \/ StandsFor(b, n, m)
    BY <1>2, BindingsAre
  <1>5. EffectsOf(es) = EffectsOf(ds)
    <2>1. \A i \in DOMAIN ds : es[i].from = ds[i].from /\ (Bare(es[i]) <=> Bare(ds[i]))
      BY <1>2
    <2>2. \A x : x \in EffectsOf(ds) <=> x \in EffectsOf(es)
      BY <1>2, <2>1, EffectsAre
    <2> QED BY <2>2
  <1> QED BY <1>1, <1>3, <1>4, <1>5 DEF LosesImports

LEMMA RemoveImportLoses ==
  ASSUME NEW f \in File, Compilable(f), NEW n \in Nat, NEW m \in ModuleName,
         NEW h, h = RemoveImport(f, n, m).file, h # f
  PROVE  LosesImports(f.imports, h.imports, n, m) /\ Besides(f, h)
  <1> DEFINE S == {d \in Of(f.imports, m) : \E s \in ToSet(d.named) : s.name = n}
             i == First(f.imports, S)
             d == f.imports[i]
             R == {s \in ToSet(d.named) : s.name = n}
             k == First(d.named, R)
             gone == [f EXCEPT !.imports = RemoveAt(@, i)]
             less == [f EXCEPT !.imports[i] = Without(d, k)]
  <1>1. f.imports \in Seq(Declaration)
    BY Parts
  <1>2. i # 0 => i \in DOMAIN f.imports /\ d \in S
    <2> HIDE DEF S
    <2> QED BY <1>1, FirstIs
  <1>3. RemoveImport(f, n, m) =
          IF i = 0 THEN Done(f)
          ELSE IF Len(d.named) = 1 /\ d.def = Absent /\ d.ns = Absent THEN Done(gone)
          ELSE Done(less)
    BY DEF RemoveImport, Without
  <1>4. i # 0
    <2> HIDE DEF i, d, k, gone, less
    <2> QED BY <1>3, ResultsAre
  <1>5. i \in DOMAIN f.imports /\ d \in Declaration /\ d \in ToSet(f.imports) /\ d.from = m /\ Allowed(d)
    <2> HIDE DEF i
    <2>1. i \in DOMAIN f.imports /\ d \in S
      BY <1>2, <1>4
    <2>2. d \in ToSet(f.imports) /\ d.from = m
      BY <2>1 DEF Of
    <2> QED BY <1>1, <2>1, <2>2 DEF Compilable
  <1>6. k \in DOMAIN d.named /\ d.named[k].name = n /\ d.named \in Seq(Specifier)
    <2> HIDE DEF i
    <2>1. d.named \in Seq(Specifier)
      BY <1>5 DEF Declaration
    <2>2. PICK j \in DOMAIN d.named : d.named[j] \in R
      BY <1>2, <1>4 DEF ToSet
    <2> HIDE DEF d
    <2>3. k \in DOMAIN d.named /\ d.named[k] \in R
      BY <2>1, <2>2, FirstIs
    <2> QED BY <2>1, <2>3
  <1> HIDE DEF i, d, k
  <1>7. StandsFor(Named(d, d.named[k]), n, m)
    BY <1>5, <1>6 DEF Named, StandsFor
  <1>8. ~Bare(d)
    <2>1. d.named # <<>>
      BY <1>6
    <2> QED BY <1>5, <2>1 DEF Allowed, Bare
  <1>9. \A b : b \in Imported(d) <=> \/ d.def # Absent /\ b = Whole(d, d.def, <<"default">>)
                                     \/ d.ns # Absent /\ b = Whole(d, d.ns, <<"all">>)
                                     \/ \E x \in ToSet(d.named) : b = Named(d, x)
    BY ImportedIs, Zenon
  <1>10. CASE Len(d.named) = 1 /\ d.def = Absent /\ d.ns = Absent
    <2>1. h = gone
      BY <1>3, <1>4, <1>10, ResultsAre
    <2>2. h.imports = RemoveAt(f.imports, i) /\ Besides(f, h)
      BY <2>1 DEF File, Besides
    <2>3. \A b \in Imported(d) : StandsFor(b, n, m)
      <3>1. \A x \in ToSet(d.named) : x = d.named[k]
        <4>1. DOMAIN d.named = {1}
          BY <1>6, <1>10
        <4> QED BY <1>6, <4>1 DEF ToSet
      <3> QED BY <1>7, <1>9, <1>10, <3>1
    <2> QED BY <1>1, <1>5, <1>8, <2>2, <2>3, ImportGone DEF d
  <1>11. CASE ~(Len(d.named) = 1 /\ d.def = Absent /\ d.ns = Absent)
    <2>1. PICK u, t : u = d.named /\ t = RemoveAt(u, k)
      OBVIOUS
    <2>2. PICK e : e = Without(d, k)
      OBVIOUS
    <2>3. h = less
      BY <1>3, <1>4, <1>11, ResultsAre
    <2>4. h.imports = [f.imports EXCEPT ![i] = e] /\ Besides(f, h)
      BY <2>2, <2>3 DEF File, Besides
    <2>5. /\ e.named = t /\ e.from = d.from /\ e.type = d.type
          /\ e.def = d.def /\ e.ns = d.ns /\ ~Bare(e)
      BY <1>5, <1>6, <1>11, <2>1, <2>2, WithoutIs
    <2>6. /\ \A x, what : Whole(e, x, what) = Whole(d, x, what)
          /\ \A x : Named(e, x) = Named(d, x)
      BY <2>5 DEF Whole, Named
    <2>7. \A b : b \in Imported(e) <=> \/ d.def # Absent /\ b = Whole(d, d.def, <<"default">>)
                                       \/ d.ns # Absent /\ b = Whole(d, d.ns, <<"all">>)
                                       \/ \E x \in ToSet(t) : b = Named(d, x)
      <3> TAKE b
      <3>1. b \in Imported(e) <=> \/ e.def # Absent /\ b = Whole(e, e.def, <<"default">>)
                                  \/ e.ns # Absent /\ b = Whole(e, e.ns, <<"all">>)
                                  \/ \E x \in ToSet(e.named) : b = Named(e, x)
        BY ImportedIs, Zenon
      <3> QED BY <2>5, <2>6, <3>1
    <2>8. ToSet(t) \subseteq ToSet(u) /\ \A x \in ToSet(u) : x \in ToSet(t) \/ x = u[k]
      <3>1. u \in Seq(Specifier) /\ k \in DOMAIN u
        BY <1>6, <2>1
      <3>2. /\ \A j \in DOMAIN t : \E l \in DOMAIN u : l # k /\ t[j] = u[l]
            /\ \A l \in DOMAIN u : l # k => \E j \in DOMAIN t : t[j] = u[l]
        <4>1. t = RemoveAt(u, k)
          BY <2>1
        <4>2. HasTheRest(t, u, k)
          BY <3>1, <4>1, RemovedAre
        <4> QED BY <4>2 DEF HasTheRest
      <3>3. ToSet(t) = {t[j] : j \in DOMAIN t} /\ ToSet(u) = {u[l] : l \in DOMAIN u}
        BY DEF ToSet
      <3>4. ASSUME NEW j \in DOMAIN t PROVE t[j] \in ToSet(u)
        BY <3>2, <3>3
      <3>5. ASSUME NEW l \in DOMAIN u PROVE u[l] \in ToSet(t) \/ u[l] = u[k]
        <4>1. l # k => u[l] \in ToSet(t)
          BY <3>2, <3>3
        <4> QED BY <4>1
      <3>6. \A x \in ToSet(t) : x \in ToSet(u)
        BY <3>3, <3>4
      <3>7. \A x \in ToSet(u) : x \in ToSet(t) \/ x = u[k]
        BY <3>3, <3>5
      <3> QED BY <3>6, <3>7
    <2>9. Imported(e) \subseteq Imported(d)
      BY <1>9, <2>1, <2>7, <2>8
    <2>10. \A b \in Imported(d) \ Imported(e) : StandsFor(b, n, m)
      BY <1>7, <1>9, <2>1, <2>7, <2>8
    <2>11. Bare(e) <=> Bare(d)
      BY <1>8, <2>5
    <2> QED BY <1>1, <1>5, <2>4, <2>5, <2>9, <2>10, <2>11, ImportLess DEF d
  <1> QED BY <1>10, <1>11

(* Names in their order stay in it.                                        *)
LEMMA NamesSettle ==
  ASSUME NEW s \in Seq(Specifier), NEW t, t = Arranged(s, NameOrder(s))
  PROVE  t \in Seq(Specifier) /\ ToSet(t) = ToSet(s) /\ Arranged(t, NameOrder(t)) = t
  <1>1. PICK ahead : ahead = NameOrder(s)
    OBVIOUS
  <1>2. Orders(ahead, Len(s))
    BY <1>1, NamesOrdered
  <1>3. t \in Seq(Specifier)
    BY <1>1, <1>2, ArrangedIs
  <1>4. PICK g : InOrder(t, s, ahead, g)
    <2>1. \E g : InOrder(Arranged(s, ahead), s, ahead, g)
      BY <1>2, ArrangedInOrder
    <2> QED BY <1>1, <2>1
  <1>5. PICK n : n = Len(s)
    OBVIOUS
  <1>6. n \in Nat /\ DOMAIN s = 1 .. n /\ DOMAIN t = 1 .. n /\ Len(t) = n
    BY <1>3, <1>4, <1>5 DEF InOrder
  <1>7. /\ \A i \in 1 .. n : g[i] \in 1 .. n /\ t[i] = s[g[i]]
        /\ \A x \in 1 .. n : \E i \in 1 .. n : g[i] = x
        /\ \A i, j \in 1 .. n : g[i] \in ahead[g[j]] <=> i < j
    BY <1>4, <1>6 DEF InOrder
  <1>8. ToSet(t) = ToSet(s)
    <2>1. ASSUME NEW i \in 1 .. n PROVE t[i] \in ToSet(s)
      <3>1. g[i] \in DOMAIN s /\ t[i] = s[g[i]]
        BY <1>6, <1>7
      <3> QED BY <3>1 DEF ToSet
    <2>2. ASSUME NEW x \in 1 .. n PROVE s[x] \in ToSet(t)
      <3>1. PICK i \in 1 .. n : g[i] = x
        BY <1>7
      <3>2. i \in DOMAIN t /\ t[i] = s[x]
        BY <1>6, <1>7, <3>1
      <3> QED BY <3>2 DEF ToSet
    <2>3. ToSet(t) = {t[i] : i \in 1 .. n} /\ ToSet(s) = {s[i] : i \in 1 .. n}
      BY <1>6 DEF ToSet
    <2> QED BY <2>1, <2>2, <2>3
  <1>9. \A k, j \in 1 .. n : k \in ahead[j] <=> s[k].name < s[j].name \/ (s[k].name = s[j].name /\ k < j)
    BY <1>1, <1>6 DEF NameOrder
  <1>10. \A i \in 1 .. n : t[i].name \in Nat
    <2> TAKE i \in 1 .. n
    <2>1. t[i] \in Specifier
      BY <1>3, <1>6
    <2> QED BY <2>1 DEF Specifier
  <1>11. ASSUME NEW k \in 1 .. n, NEW j \in 1 .. n
         PROVE  t[k].name < t[j].name \/ (t[k].name = t[j].name /\ k < j) <=> k < j
    <2>1. g[k] \in 1 .. n /\ g[j] \in 1 .. n /\ t[k] = s[g[k]] /\ t[j] = s[g[j]]
      BY <1>7
    <2>2. g[k] \in ahead[g[j]] <=> t[k].name < t[j].name \/ (t[k].name = t[j].name /\ g[k] < g[j])
      BY <1>9, <2>1
    <2>3. g[k] \in ahead[g[j]] <=> k < j
      BY <1>7
    <2>4. g[j] \in ahead[g[k]] <=> t[j].name < t[k].name \/ (t[j].name = t[k].name /\ g[j] < g[k])
      BY <1>9, <2>1
    <2>5. g[j] \in ahead[g[k]] <=> j < k
      BY <1>7
    <2>6. t[k].name \in Nat /\ t[j].name \in Nat
      BY <1>10
    <2> QED BY <2>2, <2>3, <2>4, <2>5, <2>6
  <1>12. \A j \in 1 .. n : NameOrder(t)[j] = 1 .. (j - 1)
    <2> TAKE j \in 1 .. n
    <2>1. NameOrder(t)[j] = {k \in 1 .. n : t[k].name < t[j].name \/ (t[k].name = t[j].name /\ k < j)}
      BY <1>6 DEF NameOrder
    <2>2. \A k : k \in NameOrder(t)[j] <=> k \in 1 .. n /\ k < j
      BY <1>11, <2>1
    <2>3. \A k : k \in 1 .. (j - 1) <=> k \in 1 .. n /\ k < j
      BY <1>6
    <2> QED BY <2>2, <2>3
  <1>13. Arranged(t, NameOrder(t)) = t
    BY <1>3, <1>6, <1>12, Settled
  <1> QED BY <1>3, <1>8, <1>13

(* A declaration with its names in order binds the same.                   *)
Neat(d) == [d EXCEPT !.named = Arranged(d.named, NameOrder(d.named))]

LEMMA NeatIs ==
  ASSUME NEW d \in Declaration
  PROVE  /\ Neat(d) \in Declaration /\ Neat(d).from = d.from /\ (Bare(Neat(d)) <=> Bare(d))
         /\ Imported(Neat(d)) = Imported(d) /\ Neat(Neat(d)) = Neat(d)
         /\ d.named = <<>> => Neat(d) = d
  <1>1. PICK u, t, e : u = d.named /\ t = Arranged(u, NameOrder(u)) /\ e = [d EXCEPT !.named = t]
    OBVIOUS
  <1>2. u \in Seq(Specifier)
    BY <1>1 DEF Declaration
  <1>3. t \in Seq(Specifier) /\ ToSet(t) = ToSet(u) /\ Arranged(t, NameOrder(t)) = t
    BY <1>1, <1>2, NamesSettle
  <1>4. e = Neat(d)
    BY <1>1 DEF Neat
  <1>5. /\ e \in Declaration /\ e.named = t /\ e.from = d.from /\ e.type = d.type
        /\ e.def = d.def /\ e.ns = d.ns /\ e.braces = d.braces
    BY <1>1, <1>3 DEF Declaration
  <1>6. /\ \A x, what : Whole(e, x, what) = Whole(d, x, what)
        /\ \A x : Named(e, x) = Named(d, x)
    BY <1>5 DEF Whole, Named
  <1>7. ASSUME NEW b PROVE b \in Imported(e) <=> b \in Imported(d)
    <2>1. b \in Imported(e) <=> \/ e.def # Absent /\ b = Whole(e, e.def, <<"default">>)
                                \/ e.ns # Absent /\ b = Whole(e, e.ns, <<"all">>)
                                \/ \E x \in ToSet(e.named) : b = Named(e, x)
      BY ImportedIs, Zenon
    <2>2. b \in Imported(d) <=> \/ d.def # Absent /\ b = Whole(d, d.def, <<"default">>)
                                \/ d.ns # Absent /\ b = Whole(d, d.ns, <<"all">>)
                                \/ \E x \in ToSet(d.named) : b = Named(d, x)
      BY ImportedIs, Zenon
    <2> QED BY <1>1, <1>3, <1>5, <1>6, <2>1, <2>2
  <1>8. Imported(e) = Imported(d)
    BY <1>7
  <1>9. Bare(e) <=> Bare(d)
    BY <1>5 DEF Bare
  <1>10. Neat(e) = e
    <2>1. Neat(e) = [e EXCEPT !.named = e.named]
      BY <1>3, <1>5 DEF Neat
    <2> QED BY <1>5, <2>1 DEF Declaration
  <1>11. ASSUME u = <<>> PROVE e = d
    <2>1. t = u
      <3>1. u \in Seq(Specifier) /\ Len(u) = 0
        BY <1>2, <1>11
      <3>2. \A j \in 1 .. Len(u) : NameOrder(u)[j] = 1 .. (j - 1)
        BY <3>1
      <3> QED BY <1>1, <3>1, <3>2, Settled
    <2>2. e = [d EXCEPT !.named = d.named]
      BY <1>1, <2>1
    <2> QED BY <2>2 DEF Declaration
  <1> QED BY <1>1, <1>4, <1>5, <1>8, <1>9, <1>10, <1>11

(* es has the declarations of ds in the order that ImportOrder gives them. *)
SortedAs(es, ds, g) ==
  /\ es \in Seq(Declaration) /\ DOMAIN es = DOMAIN ds /\ Len(es) = Len(ds)
  /\ \A i \in DOMAIN ds : g[i] \in DOMAIN ds /\ es[i] = Neat(ds[g[i]])
  /\ \A x \in DOMAIN ds : \E i \in DOMAIN ds : g[i] = x
  /\ \A i, j \in DOMAIN ds : g[i] \in ImportOrder(ds)[g[j]] <=> i < j
  /\ \A b \in DOMAIN ds : Bare(ds[b]) => g[b] = b

SortedDecls(ds) == [i \in DOMAIN Arranged(ds, ImportOrder(ds)) |-> Neat(Arranged(ds, ImportOrder(ds))[i])]

LEMMA SortImportsIs == \A f : SortImports(f) = Done([f EXCEPT !.imports = SortedDecls(f.imports)])
  BY DEF SortImports, SortedDecls, Neat

(* A side-effect import stays where it is.                                 *)
LEMMA Sorts ==
  ASSUME NEW ds \in Seq(Declaration)
  PROVE  \E g : SortedAs(SortedDecls(ds), ds, g)
  <1>1. PICK ahead, placed, es : ahead = ImportOrder(ds) /\ placed = Arranged(ds, ahead) /\ es = SortedDecls(ds)
    OBVIOUS
  <1>2. Orders(ahead, Len(ds))
    BY <1>1, ImportsOrdered
  <1>3. PICK g : InOrder(placed, ds, ahead, g)
    <2>1. \E g : InOrder(Arranged(ds, ahead), ds, ahead, g)
      BY <1>2, ArrangedInOrder
    <2> QED BY <1>1, <2>1
  <1>4. PICK n : n = Len(ds)
    OBVIOUS
  <1>5. n \in Nat /\ DOMAIN ds = 1 .. n
    BY <1>4
  <1>6. /\ \A i \in 1 .. n : g[i] \in 1 .. n /\ placed[i] = ds[g[i]] /\ Cardinality(ahead[g[i]]) = i - 1
        /\ \A x \in 1 .. n : \E i \in 1 .. n : g[i] = x
        /\ \A i, j \in 1 .. n : g[i] \in ahead[g[j]] <=> i < j
        /\ DOMAIN placed = 1 .. n
    BY <1>3, <1>5 DEF InOrder
  <1>7. DOMAIN es = 1 .. n /\ \A i \in 1 .. n : es[i] = Neat(ds[g[i]])
    <2>1. es = [i \in 1 .. n |-> Neat(placed[i])]
      BY <1>1, <1>6 DEF SortedDecls
    <2> QED BY <1>6, <2>1
  <1>8. es \in Seq(Declaration) /\ Len(es) = n
    <2>1. ASSUME NEW i \in 1 .. n PROVE es[i] \in Declaration
      <3>1. ds[g[i]] \in Declaration
        BY <1>5, <1>6, SMTT(20)
      <3>2. Neat(ds[g[i]]) \in Declaration
        BY <3>1, NeatIs
      <3> QED BY <1>7, <3>2
    <2>2. es = [i \in 1 .. n |-> es[i]]
      BY <1>1, <1>6, <1>7 DEF SortedDecls
    <2>3. es \in [1 .. n -> Declaration]
      BY <2>1, <2>2
    <2>4. es \in Seq(Declaration)
      BY <1>5, <2>3
    <2> QED BY <1>5, <1>7, <2>4
  <1>9. ASSUME NEW b \in 1 .. n, Bare(ds[b]) PROVE g[b] = b
    <2>1. \A k \in 1 .. n : Apart(ds, k, b)
      BY <1>5, <1>9 DEF Apart
    <2>2. ahead[b] = {k \in 1 .. n : k < b}
      <3>1. ahead[b] = {k \in 1 .. n : IF Apart(ds, k, b) \/ ds[k].from = ds[b].from THEN k < b
                                       ELSE Precedes(ds[k].from, ds[b].from)}
        BY <1>1, <1>5 DEF ImportOrder
      <3> QED BY <2>1, <3>1
    <2>3. {k \in 1 .. n : k < b} = 1 .. (b - 1)
      BY <1>5
    <2>4. Cardinality(ahead[b]) = b - 1
      <3>1. b - 1 \in Nat
        BY <1>5
      <3>2. Cardinality(1 .. (b - 1)) = b - 1
        BY <3>1, FS_Interval
      <3> QED BY <2>2, <2>3, <3>2
    <2>5. PICK i \in 1 .. n : g[i] = b
      BY <1>6
    <2>6. Cardinality(ahead[b]) = i - 1
      BY <1>6, <2>5
    <2>7. i = b
      BY <1>5, <2>4, <2>6
    <2> QED BY <2>5, <2>7
  <1>10. SortedAs(es, ds, g)
    BY <1>1, <1>4, <1>5, <1>6, <1>7, <1>8, <1>9 DEF SortedAs
  <1> QED BY <1>1, <1>10

(* Nothing passes it.                                                      *)
LEMMA BarrierStands ==
  ASSUME NEW ds \in Seq(Declaration), NEW es, NEW g, SortedAs(es, ds, g), NEW b \in DOMAIN ds, Bare(ds[b]),
         NEW i \in DOMAIN ds
  PROVE  (g[i] < b <=> i < b) /\ (g[i] = b <=> i = b) /\ (g[i] <= b <=> i <= b) /\ (b <= g[i] <=> b <= i)
  <1>1. DOMAIN ds = 1 .. Len(ds) /\ Len(ds) \in Nat
    OBVIOUS
  <1>2. g[i] \in DOMAIN ds /\ g[b] = b /\ (g[i] \in ImportOrder(ds)[g[b]] <=> i < b)
    BY DEF SortedAs
  <1>3. Apart(ds, g[i], b)
    BY <1>1, <1>2 DEF Apart
  <1>4. g[i] \in ImportOrder(ds)[b] <=> g[i] < b
    BY <1>2, <1>3 DEF ImportOrder
  <1>5. g[i] < b <=> i < b
    BY <1>2, <1>4
  <1>6. g[b] \in ImportOrder(ds)[g[i]] <=> b < i
    BY DEF SortedAs
  <1>7. Apart(ds, b, g[i])
    BY <1>1, <1>2 DEF Apart
  <1>8. b \in ImportOrder(ds)[g[i]] <=> b < g[i]
    BY <1>2, <1>7 DEF ImportOrder
  <1>9. b < g[i] <=> b < i
    BY <1>2, <1>6, <1>8
  <1> QED BY <1>1, <1>2, <1>5, <1>9

(* So a file that is sorted stays as it is.                                *)
LEMMA SortedStays ==
  ASSUME NEW ds \in Seq(Declaration), NEW es, es = SortedDecls(ds)
  PROVE  SortedDecls(es) = es
  <1>1. PICK g : SortedAs(es, ds, g)
    BY Sorts
  <1>2. PICK n : n = Len(ds)
    OBVIOUS
  <1>3. /\ n \in Nat /\ DOMAIN ds = 1 .. n /\ DOMAIN es = 1 .. n /\ Len(es) = n /\ es \in Seq(Declaration)
        /\ \A i \in 1 .. n : g[i] \in 1 .. n /\ es[i] = Neat(ds[g[i]]) /\ ds[g[i]] \in Declaration
        /\ \A i, j \in 1 .. n : g[i] \in ImportOrder(ds)[g[j]] <=> i < j
        /\ \A x \in 1 .. n : \E i \in 1 .. n : g[i] = x
        /\ \A b \in 1 .. n : Bare(ds[b]) => g[b] = b
    <2>1. n \in Nat /\ DOMAIN ds = 1 .. n
      BY <1>2
    <2>2. /\ DOMAIN es = 1 .. n /\ Len(es) = n /\ es \in Seq(Declaration)
          /\ \A i \in 1 .. n : g[i] \in 1 .. n /\ es[i] = Neat(ds[g[i]])
      BY <1>1, <1>2, <2>1 DEF SortedAs
    <2>3. /\ \A i, j \in 1 .. n : g[i] \in ImportOrder(ds)[g[j]] <=> i < j
          /\ \A x \in 1 .. n : \E i \in 1 .. n : g[i] = x
          /\ \A b \in 1 .. n : Bare(ds[b]) => g[b] = b
      BY <1>1, <2>1, Zenon DEF SortedAs
    <2>4. \A i \in 1 .. n : ds[g[i]] \in Declaration
      BY <2>1, <2>2
    <2> QED BY <2>1, <2>2, <2>3, <2>4
  <1>4. ASSUME NEW i \in 1 .. n
        PROVE  es[i].from = ds[g[i]].from /\ (Bare(es[i]) <=> Bare(ds[g[i]])) /\ Neat(es[i]) = es[i]
    <2>1. PICK d \in Declaration : d = ds[g[i]]
      BY <1>3
    <2>2. es[i] = Neat(d)
      BY <1>3, <2>1
    <2>3. Neat(d).from = d.from /\ (Bare(Neat(d)) <=> Bare(d)) /\ Neat(Neat(d)) = Neat(d)
      BY NeatIs, Zenon
    <2> QED BY <2>1, <2>2, <2>3, Zenon
  <1>5. ASSUME NEW k \in 1 .. n, NEW j \in 1 .. n, ~Apart(es, k, j), es[k].from # es[j].from
        PROVE  Precedes(es[k].from, es[j].from) <=> k < j
    <2>1. ~Apart(ds, g[k], g[j])
      <3> SUFFICES ASSUME NEW b \in 1 .. n, Bare(ds[b]), (g[k] <= b /\ b <= g[j]) \/ (g[j] <= b /\ b <= g[k])
                   PROVE  FALSE
        BY <1>3 DEF Apart
      <3>1. (g[k] <= b <=> k <= b) /\ (b <= g[k] <=> b <= k) /\ (g[j] <= b <=> j <= b) /\ (b <= g[j] <=> b <= j)
        <4>1. SortedAs(es, ds, g) /\ b \in DOMAIN ds /\ k \in DOMAIN ds /\ j \in DOMAIN ds
          BY <1>1, <1>3
        <4>2. (g[k] <= b <=> k <= b) /\ (b <= g[k] <=> b <= k)
          BY <4>1, BarrierStands, Zenon
        <4>3. (g[j] <= b <=> j <= b) /\ (b <= g[j] <=> b <= j)
          BY <4>1, BarrierStands, Zenon
        <4> QED BY <4>2, <4>3, Zenon
      <3>2. Bare(es[b])
        BY <1>3, <1>4
      <3>3. (k <= b /\ b <= j) \/ (j <= b /\ b <= k)
        BY <3>1
      <3> QED BY <1>3, <1>5, <3>2, <3>3 DEF Apart
    <2>2. ds[g[k]].from # ds[g[j]].from
      BY <1>4, <1>5
    <2>3. g[k] \in ImportOrder(ds)[g[j]] <=> Precedes(ds[g[k]].from, ds[g[j]].from)
      BY <1>3, <2>1, <2>2 DEF ImportOrder
    <2> QED BY <1>3, <1>4, <2>3
  <1>6. \A j \in 1 .. n : ImportOrder(es)[j] = 1 .. (j - 1)
    <2> TAKE j \in 1 .. n
    <2>1. ImportOrder(es)[j] = {k \in 1 .. n : IF Apart(es, k, j) \/ es[k].from = es[j].from THEN k < j
                                               ELSE Precedes(es[k].from, es[j].from)}
      BY <1>3 DEF ImportOrder
    <2>2. \A k : k \in ImportOrder(es)[j] <=> k \in 1 .. n /\ k < j
      BY <1>5, <2>1
    <2>3. \A k : k \in 1 .. (j - 1) <=> k \in 1 .. n /\ k < j
      <3>1. n \in Nat
        BY <1>3
      <3> QED BY <3>1
    <2> QED BY <2>2, <2>3
  <1>7. Arranged(es, ImportOrder(es)) = es
    BY <1>3, <1>6, Settled
  <1>8. SortedDecls(es) = [i \in 1 .. n |-> Neat(es[i])]
    BY <1>3, <1>7 DEF SortedDecls
  <1>9. SortedDecls(es) = [i \in 1 .. n |-> es[i]]
    BY <1>4, <1>8
  <1> QED BY <1>3, <1>9

BarriersHold(ds, es) ==
  \A b \in DOMAIN ds : Bare(ds[b]) =>
     es[b] = ds[b] /\ {FromsOf(es)[j] : j \in 1 .. b} = {FromsOf(ds)[j] : j \in 1 .. b}

(* sortImports, done again, does nothing; it changes no meaning, and what  *)
(* is above a side-effect import stays above it.                           *)
LEMMA SortImportsMoves ==
  ASSUME NEW f \in File, Compilable(f), NEW h, h = SortImports(f).file
  PROVE  /\ SortImports(h) = Done(h) /\ Besides(f, h)
         /\ BindingsOf(h.imports) = BindingsOf(f.imports) /\ EffectsOf(h.imports) = EffectsOf(f.imports)
         /\ BarriersHold(f.imports, h.imports)
  <1>1. PICK ds, es : ds = f.imports /\ es = SortedDecls(ds)
    OBVIOUS
  <1>2. ds \in Seq(Declaration)
    BY <1>1, Parts
  <1>3. h = [f EXCEPT !.imports = es]
    BY <1>1, SortImportsIs, ResultsAre
  <1>4. h.imports = es /\ Besides(f, h)
    BY <1>3 DEF File, Besides
  <1>5. SortImports(h) = Done(h)
    <2>1. SortedDecls(es) = es
      BY <1>1, <1>2, SortedStays
    <2>2. SortImports(h) = Done([h EXCEPT !.imports = SortedDecls(h.imports)])
      BY SortImportsIs
    <2>3. [h EXCEPT !.imports = es] = h
      BY <1>3 DEF File
    <2> QED BY <1>4, <2>1, <2>2, <2>3
  <1>6. PICK g : SortedAs(es, ds, g)
    BY <1>1, <1>2, Sorts
  <1>7. PICK n : n = Len(ds)
    OBVIOUS
  <1>8. /\ n \in Nat /\ DOMAIN ds = 1 .. n /\ DOMAIN es = 1 .. n /\ es \in Seq(Declaration)
        /\ \A i \in 1 .. n : g[i] \in 1 .. n /\ es[i] = Neat(ds[g[i]]) /\ ds[g[i]] \in Declaration
        /\ \A x \in 1 .. n : \E i \in 1 .. n : g[i] = x
        /\ \A b \in 1 .. n : Bare(ds[b]) => g[b] = b
    <2>1. n \in Nat /\ DOMAIN ds = 1 .. n
      BY <1>2, <1>7
    <2>2. /\ DOMAIN es = 1 .. n /\ es \in Seq(Declaration)
          /\ \A i \in 1 .. n : g[i] \in 1 .. n /\ es[i] = Neat(ds[g[i]])
      BY <1>6, <1>7, <2>1 DEF SortedAs
    <2>3. /\ \A x \in 1 .. n : \E i \in 1 .. n : g[i] = x
          /\ \A b \in 1 .. n : Bare(ds[b]) => g[b] = b
      BY <1>6, <2>1, Zenon DEF SortedAs
    <2>4. \A i \in 1 .. n : ds[g[i]] \in Declaration
      BY <1>2, <2>1, <2>2
    <2> QED BY <2>1, <2>2, <2>3, <2>4
  <1>9. ASSUME NEW i \in 1 .. n
        PROVE  /\ es[i].from = ds[g[i]].from /\ (Bare(es[i]) <=> Bare(ds[g[i]]))
               /\ Imported(es[i]) = Imported(ds[g[i]])
    <2>1. PICK d \in Declaration : d = ds[g[i]]
      BY <1>8
    <2>2. es[i] = Neat(d)
      BY <1>8, <2>1
    <2> QED BY <2>1, <2>2, NeatIs
  <1>10. BindingsOf(es) = BindingsOf(ds)
    <2>1. ASSUME NEW b \in BindingsOf(es) PROVE b \in BindingsOf(ds)
      <3>1. PICK i \in DOMAIN es : b \in Imported(es[i])
        BY BindingsAre
      <3>2. g[i] \in DOMAIN ds /\ b \in Imported(ds[g[i]])
        BY <1>8, <1>9, <3>1
      <3> QED BY <3>2, BindingsAre
    <2>2. ASSUME NEW b \in BindingsOf(ds) PROVE b \in BindingsOf(es)
      <3>1. PICK x \in 1 .. n : b \in Imported(ds[x])
        BY <1>8, BindingsAre
      <3>2. PICK i \in 1 .. n : g[i] = x
        BY <1>8
      <3>3. i \in DOMAIN es /\ b \in Imported(es[i])
        BY <1>8, <1>9, <3>1, <3>2
      <3> QED BY <3>3, BindingsAre
    <2> QED BY <2>1, <2>2
  <1>11. EffectsOf(es) = EffectsOf(ds)
    <2>1. ASSUME NEW m \in EffectsOf(es) PROVE m \in EffectsOf(ds)
      <3>1. PICK i \in DOMAIN es : Bare(es[i]) /\ es[i].from = m
        BY <2>1, EffectsAre
      <3>2. g[i] \in DOMAIN ds /\ Bare(ds[g[i]]) /\ ds[g[i]].from = m
        BY <1>8, <1>9, <3>1
      <3> QED BY <3>2, EffectsAre
    <2>2. ASSUME NEW m \in EffectsOf(ds) PROVE m \in EffectsOf(es)
      <3>1. PICK x \in DOMAIN ds : Bare(ds[x]) /\ ds[x].from = m
        BY <2>2, EffectsAre
      <3>2. PICK i \in 1 .. n : g[i] = x
        BY <1>8
      <3>3. i \in DOMAIN es /\ Bare(es[i]) /\ es[i].from = m
        BY <1>8, <1>9, <3>1, <3>2
      <3> QED BY <3>3, EffectsAre
    <2> QED BY <2>1, <2>2
  <1>12. ASSUME NEW b \in 1 .. n, Bare(ds[b])
         PROVE  es[b] = ds[b] /\ {FromsOf(es)[j] : j \in 1 .. b} = {FromsOf(ds)[j] : j \in 1 .. b}
    <2>1. es[b] = ds[b]
      <3>1. ds[b] \in Declaration /\ Allowed(ds[b])
        BY <1>1, <1>8, FoundIs
      <3>2. ds[b].named = <<>>
        BY <1>12, <3>1 DEF Allowed, Bare
      <3>3. Neat(ds[b]) = ds[b]
        BY <3>1, <3>2, NeatIs
      <3> QED BY <1>8, <1>12, <3>3
    <2>2. \A i \in 1 .. n : FromsOf(es)[i] = es[i].from /\ FromsOf(ds)[i] = ds[i].from
      BY <1>8 DEF FromsOf
    <2>3. \A i \in 1 .. n : g[i] <= b <=> i <= b
      BY <1>2, <1>6, <1>8, <1>12, BarrierStands
    <2>4. 1 .. b \subseteq 1 .. n
      BY <1>8
    <2>5. \A j \in 1 .. b : \E x \in 1 .. b : FromsOf(es)[j] = FromsOf(ds)[x]
      <3> TAKE j \in 1 .. b
      <3>1. j \in 1 .. n /\ g[j] \in 1 .. n /\ g[j] <= b
        BY <1>8, <2>3, <2>4
      <3>2. g[j] \in 1 .. b
        BY <3>1
      <3>3. FromsOf(es)[j] = FromsOf(ds)[g[j]]
        BY <1>9, <2>2, <3>1
      <3> QED BY <3>2, <3>3
    <2>6. \A x \in 1 .. b : \E j \in 1 .. b : FromsOf(es)[j] = FromsOf(ds)[x]
      <3> TAKE x \in 1 .. b
      <3>1. PICK j \in 1 .. n : g[j] = x
        BY <1>8, <2>4
      <3>2. j \in 1 .. b
        BY <2>3, <3>1
      <3>3. FromsOf(es)[j] = FromsOf(ds)[x]
        BY <1>9, <2>2, <2>4, <3>1
      <3> QED BY <3>2, <3>3
    <2> QED BY <2>1, <2>5, <2>6
  <1>13. BarriersHold(ds, es)
    BY <1>8, <1>12 DEF BarriersHold
  <1>14. f.imports = ds /\ h.imports = es
    BY <1>1, <1>4
  <1> QED BY <1>4, <1>5, <1>10, <1>11, <1>13, <1>14

-----------------------------------------------------------------------------
(* Nothing else changes.                                                   *)

LEMMA MeaningIs ==
  ASSUME NEW f
  PROVE  /\ Meaning(f) = [imports |-> BindingsOf(f.imports), exports |-> ReexportsOf(f.exports), locals |-> f.locals,
                          effects |-> EffectsOf(f.imports), list |-> f.list.names, routes |-> ToSet(f.routes),
                          members |-> f.members]
         /\ Froms(f) = FromsOf(f.imports)
  <1>1. BindingsOf(f.imports) = Bindings(f) /\ ReexportsOf(f.exports) = Reexports(f)
    BY DEF BindingsOf, Bindings, ReexportsOf, Reexports
  <1>2. EffectsOf(f.imports) = {f.imports[i].from : i \in {j \in DOMAIN f.imports : Bare(f.imports[j])}}
    BY DEF EffectsOf
  <1>3. Froms(f) = FromsOf(f.imports)
    BY DEF Froms, FromsOf
  <1> QED BY <1>1, <1>2, <1>3, Zenon DEF Meaning

LEMMA MeaningHas ==
  ASSUME NEW f
  PROVE  /\ DOMAIN Meaning(f) = {"imports", "exports", "locals", "effects", "list", "routes", "members"}
         /\ Meaning(f).imports = BindingsOf(f.imports) /\ Meaning(f).exports = ReexportsOf(f.exports)
         /\ Meaning(f).effects = EffectsOf(f.imports) /\ Meaning(f).locals = f.locals
         /\ Meaning(f).list = f.list.names /\ Meaning(f).routes = ToSet(f.routes) /\ Meaning(f).members = f.members
  <1>1. PICK s1, s2, s3, s4, s5, s6, s7 :
          /\ s1 = BindingsOf(f.imports) /\ s2 = ReexportsOf(f.exports) /\ s3 = f.locals /\ s4 = EffectsOf(f.imports)
          /\ s5 = f.list.names /\ s6 = ToSet(f.routes) /\ s7 = f.members
    OBVIOUS
  <1>2. Meaning(f) = [imports |-> s1, exports |-> s2, locals |-> s3, effects |-> s4, list |-> s5, routes |-> s6,
                      members |-> s7]
    BY <1>1, MeaningIs
  <1> QED BY <1>1, <1>2

(* One thing more at most of each kind, ...                                *)
Grows(f, h) ==
  /\ ImportsGrow(f.imports, h.imports) /\ MoreBy(ReexportsOf(f.exports), ReexportsOf(h.exports))
  /\ MoreBy(f.locals, h.locals) /\ MoreBy(f.list.names, h.list.names)
  /\ MoreBy(ToSet(f.routes), ToSet(h.routes)) /\ MoreBy(f.members, h.members)

FromsGrow(from, from2) == from2 = from \/ \E i \in DOMAIN from2 : RemoveAt(from2, i) = from

LEMMA GrowsGains ==
  ASSUME NEW f, NEW h, Grows(f, h)
  PROVE  Gains(Meaning(f), Meaning(h)) /\ FromsGrow(Froms(f), Froms(h))
  <1>1. FromsGrow(Froms(f), Froms(h))
    <2>1. FromsGrow(FromsOf(f.imports), FromsOf(h.imports))
      BY DEF Grows, ImportsGrow, FromsGrow
    <2> QED BY <2>1, MeaningIs
  <1>2. PICK s1, s2, s3, s4, s5, s6, s7 :
          /\ s1 = BindingsOf(f.imports) /\ s2 = ReexportsOf(f.exports) /\ s3 = f.locals /\ s4 = EffectsOf(f.imports)
          /\ s5 = f.list.names /\ s6 = ToSet(f.routes) /\ s7 = f.members
    OBVIOUS
  <1>3. PICK t1, t2, t3, t4, t5, t6, t7 :
          /\ t1 = BindingsOf(h.imports) /\ t2 = ReexportsOf(h.exports) /\ t3 = h.locals /\ t4 = EffectsOf(h.imports)
          /\ t5 = h.list.names /\ t6 = ToSet(h.routes) /\ t7 = h.members
    OBVIOUS
  <1>4. PICK old, new : old = Meaning(f) /\ new = Meaning(h)
    OBVIOUS
  <1>5. old = [imports |-> s1, exports |-> s2, locals |-> s3, effects |-> s4, list |-> s5, routes |-> s6, members |-> s7]
    BY <1>2, <1>4, MeaningIs
  <1>6. new = [imports |-> t1, exports |-> t2, locals |-> t3, effects |-> t4, list |-> t5, routes |-> t6, members |-> t7]
    BY <1>3, <1>4, MeaningIs
  <1>7. /\ MoreBy(s1, t1) /\ MoreBy(s2, t2) /\ MoreBy(s3, t3) /\ MoreBy(s4, t4) /\ MoreBy(s5, t5) /\ MoreBy(s6, t6)
        /\ MoreBy(s7, t7)
    BY <1>2, <1>3 DEF Grows, ImportsGrow
  <1>8. \A k \in DOMAIN old : MoreBy(old[k], new[k])
    <2>1. DOMAIN old = {"imports", "exports", "locals", "effects", "list", "routes", "members"}
      BY <1>5
    <2> QED BY <1>5, <1>6, <1>7, <2>1
  <1> QED BY <1>1, <1>4, <1>8 DEF Gains, MoreBy

LEMMA OneMoreGains ==
  ASSUME NEW f \in File, NEW h, OneMore(f, h)
  PROVE  Grows(f, h)
  <1>1. ImportsGrow(f.imports, h.imports) /\ Besides(f, h)
    BY OneMoreGrows
  <1> QED BY <1>1, MoreByNone DEF Grows, Besides

(* ... or one thing less, and nothing more.                                *)
LEMMA ImportsLost ==
  ASSUME NEW f, NEW h, NEW a, a.verb = "remove", Besides(f, h), LosesImports(f.imports, h.imports, a.name, a.from)
  PROVE  LosesOnly(a, Meaning(f), Meaning(h))
  <1>1. PICK old, new : old = Meaning(f) /\ new = Meaning(h)
    OBVIOUS
  <1>2. /\ DOMAIN old = {"imports", "exports", "locals", "effects", "list", "routes", "members"}
        /\ old.imports = BindingsOf(f.imports) /\ new.imports = BindingsOf(h.imports)
        /\ old.exports = ReexportsOf(f.exports) /\ new.exports = ReexportsOf(h.exports)
        /\ old.effects = EffectsOf(f.imports) /\ new.effects = EffectsOf(h.imports)
    BY <1>1, MeaningHas
  <1>3. /\ old.locals = f.locals /\ new.locals = h.locals /\ old.list = f.list.names /\ new.list = h.list.names
        /\ old.routes = ToSet(f.routes) /\ new.routes = ToSet(h.routes)
        /\ old.members = f.members /\ new.members = h.members
    BY <1>1, MeaningHas
  <1>4. /\ new.exports = old.exports /\ new.locals = old.locals /\ new.effects = old.effects /\ new.list = old.list
        /\ new.routes = old.routes /\ new.members = old.members
    <2>1. EffectsOf(h.imports) = EffectsOf(f.imports)
      BY DEF LosesImports
    <2>2. /\ h.exports = f.exports /\ h.locals = f.locals /\ h.list = f.list /\ h.routes = f.routes
          /\ h.members = f.members
      BY DEF Besides
    <2> QED BY <1>2, <1>3, <2>1, <2>2, Zenon
  <1>5. \A k \in DOMAIN old \ {"imports", "exports"} : new[k] = old[k]
    BY <1>2, <1>4
  <1>6. new.imports \subseteq old.imports /\ \A b \in old.imports \ new.imports : b.from = a.from /\ b.what = <<"name", a.name>>
    <2>1. /\ BindingsOf(h.imports) \subseteq BindingsOf(f.imports)
          /\ \A b \in BindingsOf(f.imports) \ BindingsOf(h.imports) : b.from = a.from /\ b.what = <<"name", a.name>>
      BY DEF LosesImports, StandsFor
    <2>2. old.imports = BindingsOf(f.imports) /\ new.imports = BindingsOf(h.imports)
      BY <1>2
    <2> QED BY <2>1, <2>2
  <1> QED BY <1>1, <1>4, <1>5, <1>6 DEF LosesOnly

LEMMA ExportsLost ==
  ASSUME NEW f, NEW h, NEW a, a.verb # "remove", ExceptExports(f, h), LosesExports(f.exports, h.exports, a.from)
  PROVE  LosesOnly(a, Meaning(f), Meaning(h)) /\ FromsGrow(Froms(f), Froms(h))
  <1>1. PICK old, new : old = Meaning(f) /\ new = Meaning(h)
    OBVIOUS
  <1>2. /\ DOMAIN old = {"imports", "exports", "locals", "effects", "list", "routes", "members"}
        /\ old.imports = BindingsOf(f.imports) /\ new.imports = BindingsOf(h.imports)
        /\ old.exports = ReexportsOf(f.exports) /\ new.exports = ReexportsOf(h.exports)
        /\ old.effects = EffectsOf(f.imports) /\ new.effects = EffectsOf(h.imports)
    BY <1>1, MeaningHas
  <1>3. /\ old.locals = f.locals /\ new.locals = h.locals /\ old.list = f.list.names /\ new.list = h.list.names
        /\ old.routes = ToSet(f.routes) /\ new.routes = ToSet(h.routes)
        /\ old.members = f.members /\ new.members = h.members
    BY <1>1, MeaningHas
  <1>4. /\ new.imports = old.imports /\ new.locals = old.locals /\ new.effects = old.effects /\ new.list = old.list
        /\ new.routes = old.routes /\ new.members = old.members
    <2>1. /\ h.imports = f.imports /\ h.locals = f.locals /\ h.list = f.list /\ h.routes = f.routes
          /\ h.members = f.members
      BY DEF ExceptExports
    <2> QED BY <1>2, <1>3, <2>1, Zenon
  <1>5. \A k \in DOMAIN old \ {"imports", "exports"} : new[k] = old[k]
    BY <1>2, <1>4
  <1>6. new.exports \subseteq old.exports /\ \A x \in old.exports \ new.exports : x.from = a.from
    <2>1. /\ ReexportsOf(h.exports) \subseteq ReexportsOf(f.exports)
          /\ \A x \in ReexportsOf(f.exports) \ ReexportsOf(h.exports) : x.from = a.from
      BY DEF LosesExports
    <2>2. old.exports = ReexportsOf(f.exports) /\ new.exports = ReexportsOf(h.exports)
      BY <1>2
    <2> QED BY <2>1, <2>2
  <1>7. Froms(h) = Froms(f)
    BY MeaningIs DEF ExceptExports
  <1> QED BY <1>1, <1>4, <1>5, <1>6, <1>7 DEF LosesOnly, FromsGrow

LEMMA SortedGains ==
  ASSUME NEW f, NEW h, Besides(f, h),
         BindingsOf(h.imports) = BindingsOf(f.imports), EffectsOf(h.imports) = EffectsOf(f.imports)
  PROVE  Gains(Meaning(f), Meaning(h))
  <1>1. Meaning(h) = Meaning(f)
    BY MeaningIs DEF Besides
  <1> QED BY <1>1 DEF Gains

(* Edits that come with an import: first one of another part of the file,  *)
(* then the import.                                                        *)
LEMMA ThenImports ==
  ASSUME NEW f, NEW g \in File, NEW h, OneMore(g, h),
         g.imports = f.imports, g.exports = f.exports, g.locals = f.locals, MoreBy(f.list.names, g.list.names),
         MoreBy(ToSet(f.routes), ToSet(g.routes)), MoreBy(f.members, g.members)
  PROVE  Grows(f, h)
  <1>1. ImportsGrow(g.imports, h.imports) /\ Besides(g, h)
    BY OneMoreGrows
  <1> QED BY <1>1, MoreByNone DEF Grows, Besides

(* One entry more in the list.                                             *)
Listed(f, n) == [f EXCEPT !.list.names = @ \cup {n}]

LEMMA ListedIs ==
  ASSUME NEW f \in File, NEW n \in Nat
  PROVE  /\ Listed(f, n) \in File
         /\ Listed(f, n).imports = f.imports /\ Listed(f, n).exports = f.exports /\ Listed(f, n).locals = f.locals
         /\ Listed(f, n).routes = f.routes /\ Listed(f, n).members = f.members
         /\ Listed(f, n).list.usable = f.list.usable /\ MoreBy(f.list.names, Listed(f, n).list.names)
         /\ n \in f.list.names => Listed(f, n) = f
  <1>1. PICK l : l = f.list
    OBVIOUS
  <1>2. l \in [usable: BOOLEAN, names: SUBSET Nat]
    BY <1>1, Parts
  <1>3. PICK k : k = [l EXCEPT !.names = l.names \cup {n}]
    OBVIOUS
  <1>4. k \in [usable: BOOLEAN, names: SUBSET Nat] /\ k.usable = l.usable /\ k.names = l.names \cup {n}
    BY <1>2, <1>3
  <1>5. PICK g : g = [f EXCEPT !.list = k]
    OBVIOUS
  <1>6. Listed(f, n) = g
    BY <1>1, <1>3, <1>5 DEF Listed
  <1>7. /\ g \in File /\ g.imports = f.imports /\ g.exports = f.exports /\ g.locals = f.locals
        /\ g.routes = f.routes /\ g.members = f.members /\ g.list = k
    BY <1>4, <1>5 DEF File
  <1>8. MoreBy(l.names, k.names)
    BY <1>4, MoreByOne
  <1>9. ASSUME n \in l.names PROVE g = f
    <2>1. k = l
      <3>1. l.names \cup {n} = l.names
        BY <1>9
      <3> QED BY <1>2, <1>3, <3>1
    <2> QED BY <1>1, <1>5, <2>1 DEF File
  <1> QED BY <1>1, <1>4, <1>6, <1>7, <1>8, <1>9

LEMMA AddEntryAdds ==
  ASSUME NEW f \in File, Compilable(f), NEW n \in Nat \ {0}, NEW m \in ModuleName, NEW r, r = AddEntry(f, n, m)
  PROVE  (r.ok \/ r.file = f) /\ (r.ok => Grows(f, r.file) /\ AddEntry(r.file, n, m) = r)
  <1>1. PICK q : q = AddImport(f, n, m, FALSE)
    OBVIOUS
  <1>2. r = IF ~f.list.usable \/ ~q.ok THEN Refused(f) ELSE Done(Listed(q.file, n))
    BY <1>1 DEF AddEntry, Listed
  <1>3. CASE ~f.list.usable \/ ~q.ok
    BY <1>2, <1>3, ResultsAre
  <1>4. CASE f.list.usable /\ q.ok
    <2>1. PICK g : g = q.file
      OBVIOUS
    <2>2. g \in File
      BY <1>1, <1>4, <2>1, AddImportIsGood DEF Good
    <2>3. OneMore(f, g)
      BY <1>1, <2>1, AddImportAdds
    <2>4. ImportsGrow(f.imports, g.imports) /\ Besides(f, g)
      BY <2>3, OneMoreGrows
    <2>5. PICK h : h = Listed(g, n)
      OBVIOUS
    <2>6. r.ok /\ r.file = h /\ r = Done(h)
      BY <1>2, <1>4, <2>1, <2>5, ResultsAre
    <2>7. /\ h \in File /\ h.imports = g.imports /\ h.exports = g.exports /\ h.locals = g.locals
          /\ h.routes = g.routes /\ h.members = g.members
          /\ h.list.usable = g.list.usable /\ MoreBy(g.list.names, h.list.names)
      BY <2>2, <2>5, ListedIs
    <2>8. Grows(f, h)
      BY <2>4, <2>7, MoreByNone DEF Grows, Besides
    <2>9. n \in h.list.names /\ Binds(h, n, m, Ways(n), TRUE)
      BY <2>6, AddEntryGives
    <2>10. AddImport(h, n, m, FALSE) = Done(h)
      BY <2>9, AddImportAgain
    <2>11. h.list.usable
      BY <1>4, <2>4, <2>7 DEF Besides
    <2>12. Listed(h, n) = h
      BY <2>7, <2>9, ListedIs
    <2>13. AddEntry(h, n, m) = Done(h)
      <3>1. PICK t : t = AddImport(h, n, m, FALSE)
        OBVIOUS
      <3>2. AddEntry(h, n, m) = IF ~h.list.usable \/ ~t.ok THEN Refused(h) ELSE Done(Listed(t.file, n))
        BY <3>1 DEF AddEntry, Listed
      <3>3. t.ok /\ t.file = h
        BY <2>10, <3>1, ResultsAre
      <3> QED BY <2>11, <2>12, <3>2, <3>3
    <2> QED BY <2>6, <2>8, <2>13
  <1> QED BY <1>3, <1>4

LEMMA AddElementAdds ==
  ASSUME NEW f \in File, Compilable(f), NEW n \in Nat \ {0}, NEW m \in ModuleName, NEW r, r = AddElement(f, n, m), r.ok
  PROVE  Grows(f, r.file) /\ AddElement(r.file, n, m) = Done(r.file)
  <1>1. AddElement(f, n, m) = IF ~f.list.usable THEN Refused(f) ELSE AddImport(Listed(f, n), n, m, FALSE)
    BY DEF AddElement, Listed
  <1>2. f.list.usable /\ r = AddImport(Listed(f, n), n, m, FALSE)
    BY <1>1, ResultsAre
  <1>3. PICK g : g = Listed(f, n)
    OBVIOUS
  <1>4. /\ g \in File /\ g.imports = f.imports /\ g.exports = f.exports /\ g.locals = f.locals
        /\ g.routes = f.routes /\ g.members = f.members
        /\ g.list.usable = f.list.usable /\ MoreBy(f.list.names, g.list.names)
    BY <1>3, ListedIs
  <1>5. PICK h : h = r.file
    OBVIOUS
  <1>6. OneMore(g, h)
    BY <1>2, <1>3, <1>4, <1>5, AddImportAdds
  <1>7. Grows(f, h)
    BY <1>4, <1>6, ThenImports, MoreByNone
  <1>8. h \in File
    BY <1>5, AddElementIsGood DEF Good
  <1>9. n \in h.list.names /\ Binds(h, n, m, Ways(n), TRUE)
    BY <1>5, AddElementGives
  <1>10. h.list.usable
    <2>1. Besides(g, h)
      BY <1>4, <1>6, OneMoreGrows
    <2> QED BY <1>2, <1>4, <2>1 DEF Besides
  <1>11. AddElement(h, n, m) = Done(h)
    <2>1. AddImport(h, n, m, FALSE) = Done(h)
      BY <1>9, AddImportAgain
    <2>2. Listed(h, n) = h
      BY <1>8, <1>9, ListedIs
    <2>3. AddElement(h, n, m) = IF ~h.list.usable THEN Refused(h) ELSE AddImport(Listed(h, n), n, m, FALSE)
      BY DEF AddElement, Listed
    <2> QED BY <1>10, <2>1, <2>2, <2>3
  <1> QED BY <1>5, <1>7, <1>11

(* One route more.                                                         *)
LEMMA RouteInserted ==
  ASSUME NEW s \in Seq([path: Nat, to: Nat]), NEW p \in 1 .. Len(s) + 1, NEW e \in [path: Nat, to: Nat]
  PROVE  InsertAt(s, p, e) \in Seq([path: Nat, to: Nat]) /\ MoreBy(ToSet(s), ToSet(InsertAt(s, p, e)))
  <1>1. PICK T : T = [path: Nat, to: Nat]
    OBVIOUS
  <1>2. PICK t : t = InsertAt(s, p, e)
    OBVIOUS
  <1>3. t \in Seq(T) /\ MadeRoom(t, s, p, e)
    BY <1>1, <1>2, InsertMakesRoom
  <1>4. PICK k : k = Len(s)
    OBVIOUS
  <1>5. k \in Nat /\ DOMAIN s = 1 .. k /\ DOMAIN t = 1 .. k + 1 /\ p \in 1 .. k + 1
    BY <1>3, <1>4 DEF MadeRoom
  <1>6. \A i \in 1 .. k + 1 : t[i] = IF i < p THEN s[i] ELSE IF i = p THEN e ELSE s[i - 1]
    BY <1>3, <1>4 DEF MadeRoom
  <1>7. ToSet(s) = {s[i] : i \in 1 .. k} /\ ToSet(t) = {t[i] : i \in 1 .. k + 1}
    BY <1>5 DEF ToSet
  <1>8. ASSUME NEW i \in 1 .. k PROVE s[i] \in ToSet(t)
    <2>1. i < p => i \in 1 .. k + 1 /\ t[i] = s[i]
      BY <1>5, <1>6
    <2>2. ~(i < p) => i + 1 \in 1 .. k + 1 /\ t[i + 1] = s[i]
      <3>1. ~(i < p) => i + 1 \in 1 .. k + 1 /\ ~(i + 1 < p) /\ i + 1 # p /\ (i + 1) - 1 = i
        BY <1>5
      <3> QED BY <1>6, <3>1
    <2> QED BY <1>7, <2>1, <2>2
  <1>9. ASSUME NEW i \in 1 .. k + 1 PROVE t[i] \in ToSet(s) \/ t[i] = e
    <2>1. i < p => i \in 1 .. k /\ t[i] = s[i]
      <3>1. i < p => i \in 1 .. k
        BY <1>5
      <3> QED BY <1>6, <3>1
    <2>2. i > p => i - 1 \in 1 .. k /\ t[i] = s[i - 1]
      <3>1. i > p => i - 1 \in 1 .. k /\ ~(i < p) /\ i # p
        BY <1>5
      <3> QED BY <1>6, <3>1
    <2>3. i = p => t[i] = e
      BY <1>6
    <2> QED BY <1>5, <1>7, <2>1, <2>2, <2>3
  <1>10. ToSet(s) \subseteq ToSet(t) /\ \A x \in ToSet(t) : x \in ToSet(s) \/ x = e
    BY <1>7, <1>8, <1>9
  <1>11. MoreBy(ToSet(s), ToSet(t))
    BY <1>10, MoreByOne
  <1> QED BY <1>1, <1>2, <1>3, <1>11

LEMMA AddRouteAdds ==
  ASSUME NEW f \in File, Compilable(f), NEW path \in Nat, NEW n \in Nat \ {0}, NEW m \in ModuleName,
         NEW r, r = AddRoute(f, path, n, m), r.ok
  PROVE  Grows(f, r.file) /\ AddRoute(r.file, path, n, m) = Done(r.file)
  <1> DEFINE T == [path: Nat, to: Nat]
             S == {x \in ToSet(f.routes) : x.path = Wildcard}
             i == First(f.routes, S)
  <1>1. PICK route : route = [path |-> path, to |-> n]
    OBVIOUS
  <1>2. PICK place : place = IF i = 0 THEN Len(f.routes) + 1 ELSE i
    OBVIOUS
  <1>3. PICK old : old = f.routes
    OBVIOUS
  <1>4. PICK g : g = [f EXCEPT !.routes = InsertAt(old, place, route)]
    OBVIOUS
  <1>5. r = IF route \in ToSet(f.routes) THEN AddImport(f, n, m, FALSE)
            ELSE IF \E x \in ToSet(f.routes) : x.path = path THEN Refused(f)
            ELSE AddImport(g, n, m, FALSE)
    BY <1>1, <1>2, <1>3, <1>4 DEF AddRoute
  <1>6. old \in Seq(T) /\ Len(old) \in Nat /\ DOMAIN old = 1 .. Len(old) /\ route \in T
    BY <1>1, <1>3, Parts
  <1>7. place \in 1 .. Len(old) + 1
    <2>1. i # 0 => i \in DOMAIN old
      <3> HIDE DEF S, T
      <3> QED BY <1>3, <1>6, FirstIs
    <2> HIDE DEF i
    <2> QED BY <1>2, <1>3, <1>6, <2>1
  <1> HIDE DEF i, S
  <1>8. PICK h : h = r.file
    OBVIOUS
  <1>9. route \in ToSet(h.routes)
    <2>1. RouteIsThere(f.routes, h.routes, route)
      BY <1>1, <1>8, AddRouteGives
    <2> QED BY <2>1 DEF RouteIsThere, ToSet
  <1>10. Grows(f, h) /\ Binds(h, n, m, Ways(n), TRUE)
    <2>1. CASE route \in ToSet(f.routes)
      <3>1. r = AddImport(f, n, m, FALSE)
        BY <1>5, <2>1
      <3>2. OneMore(f, h)
        BY <1>8, <3>1, AddImportAdds
      <3>3. Binds(h, n, m, Ways(n), TRUE)
        BY <1>8, <3>1, AddImportGives
      <3> QED BY <3>2, <3>3, OneMoreGains
    <2>2. CASE route \notin ToSet(f.routes)
      <3>1. r = AddImport(g, n, m, FALSE)
        <4>1. r = Refused(f) \/ r = AddImport(g, n, m, FALSE)
          BY <1>5, <2>2
        <4> QED BY <4>1, ResultsAre
      <3>2. PICK new : new = InsertAt(old, place, route)
        OBVIOUS
      <3>3. new \in Seq(T) /\ MoreBy(ToSet(old), ToSet(new))
        BY <1>6, <1>7, <3>2, RouteInserted
      <3>4. /\ g \in File /\ g.imports = f.imports /\ g.exports = f.exports /\ g.locals = f.locals
            /\ g.list = f.list /\ g.members = f.members /\ g.routes = new
        BY <1>4, <3>2, <3>3 DEF File
      <3>5. OneMore(g, h)
        BY <1>8, <3>1, <3>4, AddImportAdds
      <3>6. Grows(f, h)
        <4>1. MoreBy(f.list.names, g.list.names) /\ MoreBy(f.members, g.members)
          BY <3>4, MoreByNone
        <4>2. MoreBy(ToSet(f.routes), ToSet(g.routes))
          BY <1>3, <3>3, <3>4
        <4> QED BY <3>4, <3>5, <4>1, <4>2, ThenImports
      <3>7. Binds(h, n, m, Ways(n), TRUE)
        BY <1>8, <3>1, <3>4, AddImportGives
      <3> QED BY <3>6, <3>7
    <2> QED BY <2>1, <2>2
  <1>11. AddRoute(h, path, n, m) = Done(h)
    <2>1. AddImport(h, n, m, FALSE) = Done(h)
      BY <1>10, AddImportAgain
    <2>2. AddRoute(h, path, n, m) = AddImport(h, n, m, FALSE)
      BY <1>1, <1>9 DEF AddRoute
    <2> QED BY <2>1, <2>2
  <1> QED BY <1>8, <1>10, <1>11

(* One member more.                                                        *)
LEMMA AddMemberAdds ==
  ASSUME NEW f \in File, Compilable(f), NEW n \in Nat, NEW call \in Nat \ {0}, Core \in ModuleName,
         NEW r, r = AddMember(f, n, call), r.ok
  PROVE  Grows(f, r.file) /\ AddMember(r.file, n, call) = Done(r.file)
  <1>1. PICK member : member = [name |-> n, call |-> call]
    OBVIOUS
  <1>2. PICK g : g = [f EXCEPT !.members = f.members \cup {member}]
    OBVIOUS
  <1>3. r = IF \E x \in f.members : x.name = n /\ x # member THEN Refused(f) ELSE AddImport(g, call, Core, FALSE)
    BY <1>1, <1>2 DEF AddMember
  <1>4. r = AddImport(g, call, Core, FALSE) /\ \A x \in f.members : x.name = n => x = member
    BY <1>3, ResultsAre
  <1>5. /\ g \in File /\ g.imports = f.imports /\ g.exports = f.exports /\ g.locals = f.locals
        /\ g.list = f.list /\ g.routes = f.routes /\ g.members = f.members \cup {member}
    <2>1. f.members \cup {member} \in SUBSET [name: Nat, call: Nat]
      BY <1>1, Parts
    <2> QED BY <1>2, <2>1 DEF File
  <1>6. PICK h : h = r.file
    OBVIOUS
  <1>7. OneMore(g, h) /\ Binds(h, call, Core, Ways(call), TRUE)
    BY <1>4, <1>5, <1>6, AddImportAdds, AddImportGives
  <1>8. Grows(f, h)
    <2>1. MoreBy(f.members, g.members)
      BY <1>5, MoreByOne
    <2>2. MoreBy(f.list.names, g.list.names) /\ MoreBy(ToSet(f.routes), ToSet(g.routes))
      BY <1>5, MoreByNone
    <2> QED BY <1>5, <1>7, <2>1, <2>2, ThenImports
  <1>9. h \in File
    BY <1>6, AddMemberIsGood DEF Good
  <1>10. h.members = f.members \cup {member}
    <2>1. Besides(g, h)
      BY <1>5, <1>7, OneMoreGrows
    <2> QED BY <1>5, <2>1 DEF Besides
  <1>11. AddMember(h, n, call) = Done(h)
    <2>1. AddImport(h, call, Core, FALSE) = Done(h)
      BY <1>7, AddImportAgain
    <2>2. [h EXCEPT !.members = h.members \cup {member}] = h
      <3>1. h.members \cup {member} = h.members
        BY <1>10
      <3> QED BY <1>9, <3>1 DEF File
    <2>3. ~\E x \in h.members : x.name = n /\ x # member
      BY <1>4, <1>10
    <2>4. AddMember(h, n, call) =
            IF \E x \in h.members : x.name = n /\ x # member THEN Refused(h)
            ELSE AddImport([h EXCEPT !.members = h.members \cup {member}], call, Core, FALSE)
      BY <1>1 DEF AddMember
    <2> QED BY <2>1, <2>2, <2>3, <2>4
  <1> QED BY <1>6, <1>8, <1>11

(* One declaration more.                                                   *)
LEMMA DeclareAdds ==
  ASSUME NEW f \in File, NEW n, NEW exported, NEW r, r = Declare(f, n, exported)
  PROVE  (r.ok \/ r.file = f) /\ (r.ok => Grows(f, r.file))
  <1>1. PICK v : v = [name |-> n, value |-> TRUE, exported |-> exported]
    OBVIOUS
  <1>2. PICK h : h = [f EXCEPT !.locals = f.locals \cup {v}]
    OBVIOUS
  <1>3. r = Refused(f) \/ r = Done(h)
    BY <1>1, <1>2 DEF Declare
  <1>4. /\ h.imports = f.imports /\ h.exports = f.exports /\ h.list = f.list /\ h.routes = f.routes
        /\ h.members = f.members /\ h.locals = f.locals \cup {v}
    BY <1>2 DEF File
  <1>5. MoreBy(f.locals, h.locals)
    BY <1>4, MoreByOne
  <1>6. Grows(f, h)
    BY <1>4, <1>5, MoreByNone, NoneGrow DEF Grows
  <1> QED BY <1>3, <1>6, ResultsAre

-----------------------------------------------------------------------------
(* All verbs.                                                              *)

(* An operation is refused and leaves the file it was given, or is done.   *)
Settles(f, r) == r = Refused(f) \/ \E h : r = Done(h)

LEMMA SettlesIs ==
  ASSUME NEW f, NEW r, Settles(f, r)
  PROVE  (r.ok => r = Done(r.file)) /\ (~r.ok => r.file = f)
  <1>1. CASE r = Refused(f)
    BY <1>1, ResultsAre
  <1>2. CASE \E h : r = Done(h)
    <2>1. PICK h : r = Done(h)
      BY <1>2
    <2>2. r.ok /\ r.file = h
      BY <2>1, ResultsAre
    <2> QED BY <2>1, <2>2
  <1> QED BY <1>1, <1>2 DEF Settles

LEMMA AddImportSettles ==
  ASSUME NEW f, NEW n, NEW m, NEW sorted
  PROVE  Settles(f, AddImport(f, n, m, sorted))
  <1> DEFINE i == First(f.imports, {d \in Of(f.imports, m) : ~d.type /\ d.braces})
             fresh == Decl(m, FALSE, Absent, Absent, <<Plain(n)>>)
             place == IF sorted THEN SpecifierPlace(f.imports[i].named, n) ELSE Len(f.imports[i].named) + 1
  <1>1. PICK g, h : /\ g = [f EXCEPT !.imports[i].named = InsertAt(@, place, Plain(n))]
                    /\ h = IF sorted THEN InsertImport(f, fresh, SortedPlace(f.imports, m)) ELSE AppendImport(f, fresh)
    OBVIOUS
  <1>2. AddImport(f, n, m, sorted) =
          IF BoundIn(f, n, m) THEN Done(f) ELSE IF Claimed(f, n) THEN Refused(f) ELSE IF i # 0 THEN Done(g) ELSE Done(h)
    BY <1>1, Zenon DEF AddImport, BoundIn
  <1> QED BY <1>2 DEF Settles

LEMMA OthersSettle ==
  ASSUME NEW f, NEW n, NEW m, NEW x
  PROVE  /\ Settles(f, AddDefault(f, n, m)) /\ Settles(f, AddNamespace(f, n, m)) /\ Settles(f, AddType(f, n, m))
         /\ Settles(f, AddSideEffect(f, m)) /\ Settles(f, RemoveImport(f, n, m)) /\ Settles(f, SortImports(f))
         /\ Settles(f, Declare(f, n, x)) /\ Settles(f, AddReExport(f, n, m)) /\ Settles(f, AddExportAll(f, m, x))
         /\ Settles(f, RemoveReExport(f, n, m)) /\ Settles(f, RemoveExportAll(f, m, x))
         /\ Settles(f, AddEntry(f, n, m))
  <1>1. Settles(f, AddDefault(f, n, m)) /\ Settles(f, AddNamespace(f, n, m)) /\ Settles(f, AddType(f, n, m))
    BY DEF AddDefault, AddNamespace, AddType, Settles
  <1>2. Settles(f, AddSideEffect(f, m)) /\ Settles(f, SortImports(f)) /\ Settles(f, RemoveExportAll(f, m, x))
    BY DEF AddSideEffect, SortImports, RemoveExportAll, Settles
  <1>3. Settles(f, RemoveImport(f, n, m))
    BY DEF RemoveImport, Settles
  <1>4. Settles(f, RemoveReExport(f, n, m))
    BY DEF RemoveReExport, Settles
  <1>5. Settles(f, Declare(f, n, x)) /\ Settles(f, AddEntry(f, n, m))
    BY DEF Declare, AddEntry, Settles
  <1>6. Settles(f, AddReExport(f, n, m)) /\ Settles(f, AddExportAll(f, m, x))
    BY DEF AddReExport, AddExportAll, Settles
  <1> QED BY <1>1, <1>2, <1>3, <1>4, <1>5, <1>6

(* Those of angular are refused or end with the import.                    *)
LEMMA AngularSettles ==
  ASSUME NEW f, NEW n, NEW m, NEW x
  PROVE  /\ \E g : Settles(g, AddElement(f, n, m))
         /\ \E g : Settles(g, AddRoute(f, x, n, m))
         /\ \E g : Settles(g, AddMember(f, n, x))
  <1>1. \A g : Settles(g, Refused(g))
    BY DEF Settles
  <1>2. \E g : Settles(g, AddElement(f, n, m))
    BY <1>1, AddImportSettles DEF AddElement
  <1>3. \E g : Settles(g, AddRoute(f, x, n, m))
    BY <1>1, AddImportSettles DEF AddRoute
  <1>4. \E g : Settles(g, AddMember(f, n, x))
    BY <1>1, AddImportSettles DEF AddMember
  <1> QED BY <1>2, <1>3, <1>4

(* What an ask that adds, one that removes exports and one that removes a  *)
(* name owe.                                                               *)
Owed(a, r) == OnlyAsked(a, Meaning(file), Froms(file), r, Meaning(r.file), Froms(r.file))

LEMMA AddedOnly ==
  ASSUME NEW a, NEW r, a.verb \notin {"remove", "unexport", "unstar", "sort"}, Grows(file, r.file),
         a.verb # "declare" => Apply(r.file, a) = r
  PROVE  Owed(a, r)
  <1>1. Gains(Meaning(file), Meaning(r.file)) /\ FromsGrow(Froms(file), Froms(r.file))
    BY GrowsGains
  <1>2. AtOnce(file, a) => Apply(r.file, a) = r
    BY DEF AtOnce
  <1>3. PICK old, new, from, from2 :
          old = Meaning(file) /\ new = Meaning(r.file) /\ from = Froms(file) /\ from2 = Froms(r.file)
    OBVIOUS
  <1>4. OnlyAsked(a, old, from, r, new, from2)
    BY <1>1, <1>2, <1>3 DEF OnlyAsked, FromsGrow
  <1> QED BY <1>3, <1>4 DEF Owed

LEMMA ExportsGain ==
  ASSUME NEW f, NEW h, MoreBy(ReexportsOf(f.exports), ReexportsOf(h.exports)), ExceptExports(f, h)
  PROVE  Grows(f, h)
  BY MoreByNone, NoneGrow DEF Grows, ExceptExports

LEMMA UnexportedOnly ==
  ASSUME NEW a, NEW r, a.verb \in {"unexport", "unstar"}, ExceptExports(file, r.file),
         LosesExports(file.exports, r.file.exports, a.from), AtOnce(file, a) => Apply(r.file, a) = r
  PROVE  Owed(a, r)
  <1>1. LosesOnly(a, Meaning(file), Meaning(r.file)) /\ FromsGrow(Froms(file), Froms(r.file))
    BY ExportsLost
  <1>2. PICK old, new, from, from2 :
          old = Meaning(file) /\ new = Meaning(r.file) /\ from = Froms(file) /\ from2 = Froms(r.file)
    OBVIOUS
  <1>3. OnlyAsked(a, old, from, r, new, from2)
    BY <1>1, <1>2 DEF OnlyAsked, FromsGrow
  <1> QED BY <1>2, <1>3 DEF Owed

LEMMA RemovedOnly ==
  ASSUME NEW a, NEW r, a.verb = "remove", Besides(file, r.file),
         LosesImports(file.imports, r.file.imports, a.name, a.from)
  PROVE  Owed(a, r)
  <1>1. LosesOnly(a, Meaning(file), Meaning(r.file))
    BY ImportsLost
  <1>2. ~AtOnce(file, a)
    BY DEF AtOnce
  <1>3. PICK old, new, from, from2 :
          old = Meaning(file) /\ new = Meaning(r.file) /\ from = Froms(file) /\ from2 = Froms(r.file)
    OBVIOUS
  <1>4. OnlyAsked(a, old, from, r, new, from2)
    BY <1>1, <1>2, <1>3 DEF OnlyAsked
  <1> QED BY <1>3, <1>4 DEF Owed

LEMMA SortedOnly ==
  ASSUME NEW a, NEW r, a.verb = "sort", Gains(Meaning(file), Meaning(r.file)), Apply(r.file, a) = r,
         BarriersHold(file.imports, r.file.imports)
  PROVE  Owed(a, r)
  <1>1. PICK old, new, from, from2 :
          old = Meaning(file) /\ new = Meaning(r.file) /\ from = Froms(file) /\ from2 = Froms(r.file)
    OBVIOUS
  <1>2. from = FromsOf(file.imports) /\ from2 = FromsOf(r.file.imports) /\ DOMAIN from = DOMAIN file.imports
    BY <1>1, MeaningIs DEF FromsOf
  <1>3. \A i \in {j \in DOMAIN from : Bare(file.imports[j])} :
          /\ r.file.imports[i] = file.imports[i]
          /\ {from2[j] : j \in 1 .. i} = {from[j] : j \in 1 .. i}
    BY <1>2, SMTT(20) DEF BarriersHold
  <1>4. OnlyAsked(a, old, from, r, new, from2)
    BY <1>1, <1>3 DEF OnlyAsked
  <1> QED BY <1>1, <1>4 DEF Owed

(* What is done has done no more than was asked, for every verb.           *)
LEMMA ApplyDoesNoMore ==
  ASSUME IInv, NEW a \in Asks, NEW r, r = Apply(file, a), r.file # file
  PROVE  (r.ok \/ a.verb \in {"element", "route", "member"}) /\ (r.ok => Owed(a, r))
  <1>1. /\ a.verb \in Verbs /\ a.name \in Nat /\ a.from \in ModuleName /\ a.with \in Nat
        /\ a.verb \notin {"star", "unstar", "effect", "sort"} => a.name \in Nat \ {0}
        /\ a.verb = "member" => a.with \in Nat \ {0}
    BY Asked
  <1>2. file \in File /\ Compilable(file) /\ Core \in ModuleName
    BY ModuleAssumption DEF IInv
  <1>3. ASSUME Settles(file, r) PROVE r.ok /\ r = Done(r.file)
    BY <1>3, SettlesIs
  <1>4. CASE a.verb = "import"
    <2>1. r = AddImport(file, a.name, a.from, FALSE) /\ Apply(r.file, a) = AddImport(r.file, a.name, a.from, FALSE)
      BY <1>4 DEF Apply
    <2>2. r.ok /\ r = Done(r.file)
      BY <1>3, <2>1, AddImportSettles
    <2>3. Grows(file, r.file)
      BY <1>1, <1>2, <1>4, <2>1, AddImportAdds, OneMoreGains
    <2>4. Binds(r.file, a.name, a.from, Ways(a.name), TRUE)
      BY <1>1, <1>2, <1>4, <2>1, <2>2, AddImportGives
    <2>5. Apply(r.file, a) = r
      BY <2>1, <2>2, <2>4, AddImportAgain
    <2> QED BY <1>4, <2>2, <2>3, <2>5, AddedOnly
  <1>5. CASE a.verb = "sorted"
    <2>1. r = AddImport(file, a.name, a.from, TRUE) /\ Apply(r.file, a) = AddImport(r.file, a.name, a.from, TRUE)
      BY <1>5 DEF Apply
    <2>2. r.ok /\ r = Done(r.file)
      BY <1>3, <2>1, AddImportSettles
    <2>3. Grows(file, r.file)
      BY <1>1, <1>2, <1>5, <2>1, AddImportAdds, OneMoreGains
    <2>4. Binds(r.file, a.name, a.from, Ways(a.name), TRUE)
      BY <1>1, <1>2, <1>5, <2>1, <2>2, AddImportGives
    <2>5. Apply(r.file, a) = r
      BY <2>1, <2>2, <2>4, AddImportAgain
    <2> QED BY <1>5, <2>2, <2>3, <2>5, AddedOnly
  <1>6. CASE a.verb = "default"
    <2>1. r = AddDefault(file, a.name, a.from) /\ Apply(r.file, a) = AddDefault(r.file, a.name, a.from)
      BY <1>6 DEF Apply
    <2>2. r.ok /\ r = Done(r.file)
      BY <1>3, <2>1, OthersSettle
    <2>3. Grows(file, r.file)
      BY <1>1, <1>2, <1>6, <2>1, AddDefaultAdds, OneMoreGains
    <2>4. Apply(r.file, a) = r
      BY <1>1, <1>2, <1>6, <2>1, <2>2, AddDefaultAgain
    <2> QED BY <1>6, <2>2, <2>3, <2>4, AddedOnly
  <1>7. CASE a.verb = "namespace"
    <2>1. r = AddNamespace(file, a.name, a.from) /\ Apply(r.file, a) = AddNamespace(r.file, a.name, a.from)
      BY <1>7 DEF Apply
    <2>2. r.ok /\ r = Done(r.file)
      BY <1>3, <2>1, OthersSettle
    <2>3. Grows(file, r.file)
      BY <1>1, <1>2, <1>7, <2>1, AddNamespaceAdds, OneMoreGains
    <2>4. Apply(r.file, a) = r
      BY <1>1, <1>2, <1>7, <2>1, <2>2, AddNamespaceAgain
    <2> QED BY <1>7, <2>2, <2>3, <2>4, AddedOnly
  <1>8. CASE a.verb = "type"
    <2>1. r = AddType(file, a.name, a.from) /\ Apply(r.file, a) = AddType(r.file, a.name, a.from)
      BY <1>8 DEF Apply
    <2>2. r.ok /\ r = Done(r.file)
      BY <1>3, <2>1, OthersSettle
    <2>3. Grows(file, r.file)
      BY <1>1, <1>2, <1>8, <2>1, AddTypeAdds, OneMoreGains
    <2>4. Binds(r.file, a.name, a.from, {<<"name", a.name>>}, FALSE)
      BY <1>1, <1>2, <1>8, <2>1, <2>2, AddTypeGives
    <2>5. Apply(r.file, a) = r
      BY <2>1, <2>2, <2>4, AddTypeAgain
    <2> QED BY <1>8, <2>2, <2>3, <2>5, AddedOnly
  <1>9. CASE a.verb = "effect"
    <2>1. r = AddSideEffect(file, a.from) /\ Apply(r.file, a) = AddSideEffect(r.file, a.from)
      BY <1>9 DEF Apply
    <2>2. r.ok /\ r = Done(r.file)
      BY <1>3, <2>1, OthersSettle
    <2>3. Grows(file, r.file)
      BY <1>1, <1>2, <2>1, AddSideEffectAdds, OneMoreGains
    <2>4. Apply(r.file, a) = r
      BY <1>1, <1>2, <2>1, <2>2, AddSideEffectAgain
    <2> QED BY <1>9, <2>2, <2>3, <2>4, AddedOnly
  <1>10. CASE a.verb = "remove"
    <2>1. r = RemoveImport(file, a.name, a.from)
      BY <1>10 DEF Apply
    <2>2. r.ok
      BY <1>3, <2>1, OthersSettle
    <2>3. LosesImports(file.imports, r.file.imports, a.name, a.from) /\ Besides(file, r.file)
      BY <1>1, <1>2, <2>1, RemoveImportLoses
    <2> QED BY <1>10, <2>2, <2>3, RemovedOnly
  <1>11. CASE a.verb = "declare"
    <2>1. r = Declare(file, a.name, a.with = 1)
      BY <1>11 DEF Apply
    <2>2. r.ok /\ Grows(file, r.file)
      BY <1>2, <2>1, DeclareAdds
    <2> QED BY <1>11, <2>2, AddedOnly
  <1>12. CASE a.verb = "reexport"
    <2>1. r = AddReExport(file, a.name, a.from) /\ Apply(r.file, a) = AddReExport(r.file, a.name, a.from)
      BY <1>12 DEF Apply
    <2>2. r.ok /\ r = Done(r.file)
      BY <1>3, <2>1, OthersSettle
    <2>3. Grows(file, r.file)
      BY <1>1, <1>2, <1>12, <2>1, AddReExportAdds, ExportsGain
    <2>4. ReexportsName(r.file, a.name, a.from)
      BY <1>1, <1>2, <1>12, <2>1, <2>2, AddReExportGives
    <2>5. Apply(r.file, a) = r
      BY <2>1, <2>2, <2>4, AddReExportAgain
    <2> QED BY <1>12, <2>2, <2>3, <2>5, AddedOnly
  <1>13. CASE a.verb = "star"
    <2>1. r = AddExportAll(file, a.from, a.with) /\ Apply(r.file, a) = AddExportAll(r.file, a.from, a.with)
      BY <1>13 DEF Apply
    <2>2. r.ok /\ r = Done(r.file)
      BY <1>3, <2>1, OthersSettle
    <2>3. /\ MoreBy(ReexportsOf(file.exports), ReexportsOf(r.file.exports)) /\ ExceptExports(file, r.file)
          /\ AddExportAll(r.file, a.from, a.with) = Done(r.file)
      BY <1>1, <1>2, <2>1, AddExportAllAdds
    <2> QED BY <1>13, <2>1, <2>2, <2>3, ExportsGain, AddedOnly
  <1>14. CASE a.verb = "unexport"
    <2>1. r = RemoveReExport(file, a.name, a.from)
      BY <1>14 DEF Apply
    <2>2. r.ok
      BY <1>3, <2>1, OthersSettle
    <2>3. LosesExports(file.exports, r.file.exports, a.from) /\ ExceptExports(file, r.file)
      BY <1>2, <2>1, RemoveReExportTakes
    <2>4. ~AtOnce(file, a)
      BY <1>14 DEF AtOnce
    <2> QED BY <1>14, <2>2, <2>3, <2>4, UnexportedOnly
  <1>15. CASE a.verb = "unstar"
    <2>1. r = RemoveExportAll(file, a.from, a.with) /\ Apply(r.file, a) = RemoveExportAll(r.file, a.from, a.with)
      BY <1>15 DEF Apply
    <2>2. r.ok /\ r = Done(r.file)
      BY <1>3, <2>1, OthersSettle
    <2>3. LosesExports(file.exports, r.file.exports, a.from) /\ ExceptExports(file, r.file)
      BY <1>1, <1>2, <2>1, RemoveExportAllTakes
    <2>4. AtOnce(file, a) => RemoveExportAll(r.file, a.from, a.with) = Done(r.file)
      <3>1. AtOnce(file, a) => \A i, j \in DOMAIN file.exports :
              {file.exports[i], file.exports[j]}
                \subseteq {e \in Of(file.exports, a.from) : e.star /\ e.ns = a.with} => i = j
        BY <1>15, Zenon DEF AtOnce
      <3> QED BY <1>1, <1>2, <2>1, <3>1, RemoveExportAllTakes
    <2> QED BY <1>15, <2>1, <2>2, <2>3, <2>4, UnexportedOnly
  <1>16. CASE a.verb = "entry"
    <2>1. r = AddEntry(file, a.name, a.from) /\ Apply(r.file, a) = AddEntry(r.file, a.name, a.from)
      BY <1>16 DEF Apply
    <2>2. r.ok /\ Grows(file, r.file) /\ AddEntry(r.file, a.name, a.from) = r
      BY <1>1, <1>2, <1>16, <2>1, AddEntryAdds
    <2> QED BY <1>16, <2>1, <2>2, AddedOnly
  <1>17. CASE a.verb = "element"
    <2>1. r = AddElement(file, a.name, a.from) /\ Apply(r.file, a) = AddElement(r.file, a.name, a.from)
      BY <1>17 DEF Apply
    <2>2. r.ok => r = Done(r.file)
      BY <2>1, AngularSettles, SettlesIs
    <2>3. r.ok => Grows(file, r.file) /\ AddElement(r.file, a.name, a.from) = Done(r.file)
      BY <1>1, <1>2, <1>17, <2>1, AddElementAdds
    <2> QED BY <1>17, <2>1, <2>2, <2>3, AddedOnly
  <1>18. CASE a.verb = "route"
    <2>1. r = AddRoute(file, a.with, a.name, a.from) /\ Apply(r.file, a) = AddRoute(r.file, a.with, a.name, a.from)
      BY <1>18 DEF Apply
    <2>2. r.ok => r = Done(r.file)
      BY <2>1, AngularSettles, SettlesIs
    <2>3. r.ok => Grows(file, r.file) /\ AddRoute(r.file, a.with, a.name, a.from) = Done(r.file)
      BY <1>1, <1>2, <1>18, <2>1, AddRouteAdds
    <2> QED BY <1>18, <2>1, <2>2, <2>3, AddedOnly
  <1>19. CASE a.verb = "member"
    <2>1. r = AddMember(file, a.name, a.with) /\ Apply(r.file, a) = AddMember(r.file, a.name, a.with)
      BY <1>19 DEF Apply
    <2>2. r.ok => r = Done(r.file)
      BY <2>1, AngularSettles, SettlesIs
    <2>3. r.ok => Grows(file, r.file) /\ AddMember(r.file, a.name, a.with) = Done(r.file)
      BY <1>1, <1>2, <1>19, <2>1, AddMemberAdds
    <2> QED BY <1>19, <2>1, <2>2, <2>3, AddedOnly
  <1>20. CASE a.verb = "sort"
    <2>1. r = SortImports(file) /\ Apply(r.file, a) = SortImports(r.file)
      BY <1>20 DEF Apply
    <2>2. r.ok /\ r = Done(r.file)
      BY <1>3, <2>1, OthersSettle
    <2>3. /\ SortImports(r.file) = Done(r.file) /\ Besides(file, r.file)
          /\ BindingsOf(r.file.imports) = BindingsOf(file.imports)
          /\ EffectsOf(r.file.imports) = EffectsOf(file.imports)
          /\ BarriersHold(file.imports, r.file.imports)
      BY <1>2, <2>1, SortImportsMoves
    <2>4. Gains(Meaning(file), Meaning(r.file))
      BY <2>3, SortedGains
    <2> QED BY <1>20, <2>1, <2>2, <2>3, <2>4, SortedOnly
  <1> QED BY <1>1, <1>4, <1>5, <1>6, <1>7, <1>8, <1>9, <1>10, <1>11, <1>12, <1>13, <1>14, <1>15, <1>16, <1>17, <1>18,
             <1>19, <1>20 DEF Verbs

(* An operation does nothing besides: the file keeps every other meaning   *)
(* it had and gains one at most of each kind, its imports stay in order,   *)
(* sorting moves none across a side-effect import, a refused operation of  *)
(* ops.ts or nestjs changes nothing, and one that is done at once changes  *)
(* nothing when it is done again.                                          *)
THEOREM NothingElseIsTouched == Editing => []NothingElseChanges
  <1>1. IInv => NothingElseChanges
    <2> SUFFICES ASSUME IInv PROVE NothingElseChanges
      OBVIOUS
    <2>1. PICK old, from : old = Meaning(file) /\ from = Froms(file)
      OBVIOUS
    <2>2. ASSUME NEW a \in Asks, NEW r, r = Apply(file, a), r.file # file
          PROVE  /\ r.ok \/ a.verb \in {"element", "route", "member"}
                 /\ r.ok => OnlyAsked(a, old, from, r, Meaning(r.file), Froms(r.file))
      BY <2>1, <2>2, ApplyDoesNoMore DEF Owed
    <2>3. \A a \in Asks : \E r \in {Apply(file, a)} : r.file # file =>
            /\ r.ok \/ a.verb \in {"element", "route", "member"}
            /\ r.ok => OnlyAsked(a, old, from, r, Meaning(r.file), Froms(r.file))
      BY <2>2
    <2> QED BY <2>1, <2>3 DEF NothingElseChanges
  <1> QED BY <1>1, StaysCompilable, PTL

=============================================================================
