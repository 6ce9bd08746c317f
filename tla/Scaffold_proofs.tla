--------------------------- MODULE Scaffold_proofs ---------------------------
(***************************************************************************)
(* Theorems about Scaffold, for every folder, every set of arguments and   *)
(* every budget that holds one copyIn: that every batch fits (Within), and *)
(* that a call has a directive for every file it could reach, and one only *)
(* (Walked, Own and Planned).                                              *)
(***************************************************************************)
EXTENDS Scaffold, SequenceTheorems, FiniteSetTheorems, TLAPS

Sizes == INSTANCE Folding WITH Step <- AddSize

(* What is pending before the call would itself be accepted as a batch: if *)
(* it is not, the author has asked for too much without scaffold.          *)
SeedsFit == \A seed \in Seeds : SizeOf(seed) <= Budget

Sized(directives) ==
  /\ directives \in Seq(ToSet(directives))
  /\ \A d \in ToSet(directives) : d.size \in Nat

-----------------------------------------------------------------------------
(* The size of a batch.                                                    *)

(* The sum of the sizes is a fold of Folding.                              *)
LEMMA SumFolds == \A ds : FoldLeft(AddSize, 0, ds) = Sizes!Fold(0, ds)
  BY DEF Sizes!Fold, AddSize, FoldLeft, MapThenFoldSet, Max, Sizes!FoldLeft, Sizes!MapThenFoldSet, Sizes!Max

(* The budget holds one copyIn.                                            *)
LEMMA Constants ==
  /\ Cap \in Nat /\ FrameSize \in Nat /\ LongestId \in Nat /\ Envelope \in Nat /\ CopyInSize \in Nat
  /\ Budget \in Int /\ CopyInSize + Envelope <= Budget
  BY ScaffoldAssumption DEF Budget

(* The members of a longer sequence.                                       *)
LEMMA LongerSet ==
  ASSUME NEW bs, bs \in Seq(ToSet(bs)), NEW b
  PROVE  Append(bs, b) \in Seq(ToSet(Append(bs, b))) /\ ToSet(Append(bs, b)) = ToSet(bs) \cup {b}
  <1> DEFINE S == ToSet(bs) \cup {b}
             longer == Append(bs, b)
  <1>1. bs \in Seq(S) /\ b \in S
    OBVIOUS
  <1>2. /\ longer \in Seq(S) /\ Len(longer) = Len(bs) + 1
        /\ DOMAIN longer = 1 .. Len(bs) + 1 /\ Len(bs) \in Nat
        /\ \A i \in 1 .. Len(bs) : longer[i] = bs[i]
        /\ longer[Len(bs) + 1] = b
        /\ DOMAIN bs = 1 .. Len(bs)
    <2> HIDE DEF S
    <2> QED BY <1>1
  <1>3. ToSet(longer) = S
    <2>1. ASSUME NEW e \in S PROVE e \in ToSet(longer)
      BY <1>2, <2>1 DEF ToSet
    <2>2. ASSUME NEW e \in ToSet(longer) PROVE e \in S
      BY <1>2, <2>2 DEF ToSet
    <2> QED BY <2>1, <2>2
  <1> QED BY <1>2, <1>3

(* One directive more.                                                     *)
LEMMA Longer ==
  ASSUME NEW ds, Sized(ds), NEW d, d.size \in Nat
  PROVE  Sized(Append(ds, d)) /\ Len(Append(ds, d)) = Len(ds) + 1
  BY LongerSet DEF Sized

(* A size is a number.                                                     *)
LEMMA SizeIsNatural ==
  ASSUME NEW ds, Sized(ds)
  PROVE  SizeOf(ds) \in Nat /\ FoldLeft(AddSize, 0, ds) \in Nat
  <1>1. \A n \in Nat, e \in ToSet(ds) : AddSize(n, e) \in Nat
    BY DEF AddSize, Sized
  <1>2. Sizes!Fold(0, ds) \in Nat
    BY <1>1, Sizes!FoldInvariant DEF Sized
  <1>3. ds = <<>> \/ Len(ds) - 1 \in Nat
    BY DEF Sized
  <1> QED BY <1>2, <1>3, SumFolds, Constants DEF SizeOf

(* One directive more adds its size and, but for the first, a comma.       *)
LEMMA SizeOfLonger ==
  ASSUME NEW ds, Sized(ds), NEW d, d.size \in Nat
  PROVE  SizeOf(Append(ds, d)) = SizeOf(ds) + d.size + (IF Len(ds) > 0 THEN 1 ELSE 0)
  <1>1. SizeOf(ds) \in Nat /\ FoldLeft(AddSize, 0, ds) \in Nat
    BY SizeIsNatural
  <1>2. FoldLeft(AddSize, 0, Append(ds, d)) = FoldLeft(AddSize, 0, ds) + d.size
    <2>1. ds \in Seq(ToSet(ds) \cup {d}) /\ d \in ToSet(ds) \cup {d}
      BY DEF Sized
    <2>2. Sizes!Fold(0, Append(ds, d)) = AddSize(Sizes!Fold(0, ds), d)
      BY <2>1, Sizes!FoldAppend
    <2> QED BY <2>2, SumFolds DEF AddSize
  <1>3. Append(ds, d) # <<>> /\ Len(Append(ds, d)) = Len(ds) + 1 /\ Len(ds) \in Nat
        /\ (ds = <<>> <=> Len(ds) = 0)
    BY Longer DEF Sized
  <1> QED BY <1>1, <1>2, <1>3, Constants, SMTT(20) DEF SizeOf

(* The size of an empty batch.                                             *)
LEMMA SizeOfNothing == Sized(<<>>) /\ SizeOf(<<>>) = Envelope /\ Len(<<>>) = 0
  <1>1. FoldLeft(AddSize, 0, <<>>) = 0
    BY SumFolds, Sizes!FoldEmpty
  <1>2. Sized(<<>>)
    BY DEF Sized, ToSet
  <1> QED BY <1>1, <1>2, Constants DEF SizeOf

(* A chunk that begins with a directive.                                   *)
LEMMA SizeOfOne ==
  ASSUME NEW d, d.size \in Nat
  PROVE  Sized(<<d>>) /\ Len(<<d>>) = 1 /\ SizeOf(<<d>>) = Envelope + d.size
  <1>1. Append(<<>>, d) = <<d>>
    OBVIOUS
  <1>2. Sized(Append(<<>>, d)) /\ Len(Append(<<>>, d)) = 1
    <2>1. Len(Append(<<>>, d)) = Len(<<>>) + 1
      BY SizeOfNothing, Longer
    <2>2. Sized(Append(<<>>, d))
      BY SizeOfNothing, Longer
    <2> QED BY <2>1, <2>2, SizeOfNothing
  <1>3. SizeOf(Append(<<>>, d)) = Envelope + d.size
    <2>1. SizeOf(Append(<<>>, d)) = SizeOf(<<>>) + d.size + (IF Len(<<>>) > 0 THEN 1 ELSE 0)
      BY SizeOfNothing, SizeOfLonger
    <2> QED BY <2>1, SizeOfNothing, Constants
  <1> QED BY <1>1, <1>2, <1>3

-----------------------------------------------------------------------------
(* The invariant.                                                          *)

(* What scaffold has counted is what the buffer holds.                     *)
Counts == /\ Sized(pending)
          /\ counted = [n |-> Len(pending), size |-> SizeOf(pending)]

Fits == /\ batches \in Seq(ToSet(batches))
        /\ \A batch \in ToSet(batches) : Sized(batch) /\ SizeOf(batch) <= Budget
        /\ SizeOf(pending) <= Budget

Within == call \in Call /\ Counts /\ Fits

(* The seeds are counted and fit.                                          *)
LEMMA WithinInit == SeedsFit /\ Init => Within
  <1> SUFFICES ASSUME SeedsFit, Init PROVE Within
    OBVIOUS
  <1>1. pending \in Seq([source: {<<>>}, dest: {<<>>}, size: Nat])
    BY ScaffoldAssumption DEF Init
  <1>2. Sized(pending)
    <2>1. PICK n \in Nat : pending \in [1 .. n -> [source: {<<>>}, dest: {<<>>}, size: Nat]]
      <3>1. pending \in UNION {[1 .. n -> [source: {<<>>}, dest: {<<>>}, size: Nat]] : n \in Nat}
        BY <1>1, SeqDef, Zenon
      <3> QED BY <3>1, Zenon
    <2>2. /\ pending \in [1 .. n -> ToSet(pending)]
          /\ \A d \in ToSet(pending) : d.size \in Nat
      BY <2>1 DEF ToSet
    <2>3. pending \in Seq(ToSet(pending))
      BY <2>2, SeqDef
    <2> QED BY <2>2, <2>3 DEF Sized
  <1>3. batches \in Seq(ToSet(batches)) /\ ToSet(batches) = {}
    BY DEF Init, ToSet
  <1> QED BY <1>2, <1>3 DEF Init, Within, Counts, Fits, SeedsFit, SeededFrom

(* Paths are what the assumption says of them.                             *)
LEMMA KnownPaths ==
  ASSUME call \in Call
  PROVE  /\ IsFiniteSet(DOMAIN Tree) /\ DOMAIN Tree \subseteq Pathname
         /\ \A p \in DOMAIN Tree : Tree[p] \in Readable \cup [kind: {"link"}, to: Readable]
         /\ \A p \in DOMAIN call.rename : call.rename[p] \in Pathname
  BY ScaffoldAssumption DEF Tree

(* A link is followed to what can be read.                                 *)
LEMMA Targets ==
  ASSUME call \in Call, NEW p \in DOMAIN Tree
  PROVE  Target(p) \in Readable
  <1>1. CASE Tree[p] \in Readable
    <2>1. Tree[p].kind # "link"
      BY <1>1 DEF Readable, Folder, Odd
    <2> QED BY <1>1, <2>1 DEF Target, Content
  <1>2. CASE Tree[p] \in [kind: {"link"}, to: Readable]
    <2>1. Tree[p].kind = "link" /\ Tree[p].to \in Readable
      BY <1>2
    <2> QED BY <2>1 DEF Target, Content
  <1> QED BY <1>1, <1>2, KnownPaths

(* A directive that classifyTransport lets through fits a batch alone.     *)
LEMMA FitsAlone ==
  ASSUME call \in Call, NEW r, Classify(r) # "rejected"
  PROVE  Directive(r).size \in Nat /\ Envelope + Directive(r).size <= Budget
  <1>1. r.source \in DOMAIN Tree /\ Target(r.source).kind = "file"
    BY DEF Classify, Present
  <1>2. Target(r.source).size \in Nat
    <2>1. Target(r.source) \in Readable
      BY <1>1, Targets
    <2> QED BY <1>1, <2>1 DEF Readable, Folder, Odd
  <1>3. CASE Classify(r) = "by-value"
    <2>1. Target(r.source).size + Envelope <= Budget
      BY <1>3 DEF Classify
    <2> QED BY <1>2, <1>3, <2>1, Constants DEF Directive
  <1>4. CASE Classify(r) # "by-value"
    BY <1>4, Constants DEF Directive
  <1> QED BY <1>3, <1>4

(* A directive is buffered, after a flush when it would not fit.           *)
LEMMA Buffering ==
  ASSUME Within, NEW d, d.size \in Nat, Envelope + d.size <= Budget, ChunkAndBuffer(d)
  PROVE  Counts' /\ Fits'
  <1>1. /\ Sized(pending) /\ Len(pending) \in Nat /\ SizeOf(pending) \in Nat
        /\ counted.n = Len(pending) /\ counted.size = SizeOf(pending)
    BY SizeIsNatural DEF Within, Counts, Sized
  <1>2. CASE counted.n > 0 /\ counted.size + d.size + 1 > Budget
    <2>1. batches' = Append(batches, pending) /\ pending' = <<d>> /\ counted' = [n |-> 1, size |-> Envelope + d.size]
      BY <1>2 DEF ChunkAndBuffer
    <2>2. Counts'
      BY <2>1, SizeOfOne DEF Counts
    <2>3. Fits'
      <3>1. /\ batches' \in Seq(ToSet(batches'))
            /\ ToSet(batches') = ToSet(batches) \cup {pending}
        BY <2>1, LongerSet DEF Within, Fits
      <3> QED BY <2>1, <3>1, SizeOfOne DEF Within, Counts, Fits
    <2> QED BY <2>2, <2>3
  <1>3. CASE ~(counted.n > 0 /\ counted.size + d.size + 1 > Budget)
    <2>1. /\ pending' = Append(pending, d)
          /\ counted' = [n |-> counted.n + 1, size |-> counted.size + d.size + IF counted.n + 1 > 1 THEN 1 ELSE 0]
          /\ UNCHANGED batches
      BY <1>3 DEF ChunkAndBuffer
    <2>2. /\ Sized(pending') /\ Len(pending') = Len(pending) + 1
          /\ SizeOf(pending') = SizeOf(pending) + d.size + (IF Len(pending) > 0 THEN 1 ELSE 0)
      BY <1>1, <2>1, Longer, SizeOfLonger
    <2>3. Counts'
      BY <1>1, <2>1, <2>2 DEF Counts
    <2>4. SizeOf(pending') <= Budget
      <3>1. CASE Len(pending) > 0
        BY <1>1, <1>3, <2>2, <3>1, Constants
      <3>2. CASE Len(pending) = 0
        <4>1. pending = <<>>
          BY <1>1, <3>2 DEF Sized
        <4> QED BY <1>1, <2>2, <3>2, <4>1, SizeOfNothing, Constants
      <3> QED BY <1>1, <3>1, <3>2
    <2>5. Fits'
      BY <2>1, <2>4 DEF Within, Fits
    <2> QED BY <2>3, <2>5
  <1> QED BY <1>2, <1>3

(* Every step keeps the counts and the budget.                             *)
LEMMA WithinStep == Within /\ [Next]_vars => Within'
  <1> SUFFICES ASSUME Within, [Next]_vars PROVE Within'
    OBVIOUS
  <1>1. ASSUME UNCHANGED <<call, pending, counted, batches>> PROVE Within'
    BY <1>1 DEF Within, Counts, Fits
  <1>2. CASE Begin
    BY <1>1, <1>2 DEF Begin
  <1>3. CASE Visit
    BY <1>1, <1>3 DEF Visit
  <1>4. CASE Descend
    BY <1>1, <1>4 DEF Descend
  <1>5. CASE Prepare
    BY <1>1, <1>5 DEF Prepare
  <1>6. CASE Expand
    <2>1. call' = call
      BY <1>6 DEF Expand
    <2>2. CASE UNCHANGED <<pending, counted, batches>>
      BY <1>1, <2>1, <2>2
    <2>3. CASE ~UNCHANGED <<pending, counted, batches>>
      <3> DEFINE r == Head(results)
      <3>1. Classify(r) # "rejected" /\ ChunkAndBuffer(Directive(r))
        BY <1>6, <2>3 DEF Expand
      <3> HIDE DEF r
      <3>2. Directive(r).size \in Nat /\ Envelope + Directive(r).size <= Budget
        BY <3>1, FitsAlone DEF Within
      <3>3. Counts' /\ Fits'
        BY <3>1, <3>2, Buffering
      <3> QED BY <2>1, <3>3 DEF Within
    <2> QED BY <2>2, <2>3
  <1>7. CASE Finish
    BY <1>1, <1>7 DEF Finish
  <1>8. ASSUME NEW p \in DOMAIN Tree, Vanish(p) PROVE Within'
    BY <1>1, <1>8 DEF Vanish
  <1>9. CASE UNCHANGED vars
    BY <1>1, <1>9 DEF vars
  <1> QED BY <1>2, <1>3, <1>4, <1>5, <1>6, <1>7, <1>8, <1>9 DEF Next

(* Whatever the folder holds and loses during the call: what scaffold has  *)
(* counted is what the buffer serializes to, and no batch it leaves, the   *)
(* one with the directives from before the call included, exceeds the cap  *)
(* of the reader in a frame of any id.                                     *)
THEOREM BatchesFit == SeedsFit /\ Spec => []EveryBatchFits
  <1>1. Within => EveryBatchFits
    <2> SUFFICES ASSUME Within, NEW batch \in ToSet(batches) \cup {pending}, NEW id \in 1 .. LongestId
                 PROVE  ~ExceedsBatchCap(SizeOf(batch) + FrameSize + id) /\ counted.size = SizeOf(pending)
      <3>1. (1 .. LongestId = {}) \/ (\E id : id \in 1 .. LongestId)
        OBVIOUS
      <3> QED BY <3>1 DEF EveryBatchFits, Within, Counts
    <2>1. SizeOf(batch) <= Budget /\ SizeOf(batch) \in Nat
      BY SizeIsNatural DEF Within, Counts, Fits
    <2> QED BY <2>1, Constants DEF Within, Counts, ExceedsBatchCap, Budget
  <1> QED BY <1>1, WithinInit, WithinStep, PTL DEF Spec

-----------------------------------------------------------------------------
(* A listing, in order.                                                    *)

(* No path twice.                                                          *)
Distinct(s) == \A i, j \in DOMAIN s : s[i] = s[j] => i = j

(* Where a name sorts among its siblings.                                  *)
Rank(p) == 2 * Last(p).stem + (IF Last(p).template THEN 1 ELSE 0)

(* The last names of the paths tell them apart.                            *)
Siblings(paths) == \A p, q \in paths : Last(p) = Last(q) => p = q

InOrder(s, n) == \A i, j \in 1 .. n : i < j => Before(s[i], s[j])

(* A path has a last name.                                                 *)
LEMMA LastNames ==
  ASSUME NEW p \in Pathname
  PROVE  Last(p) \in [stem: Nat, template: BOOLEAN] /\ Len(p) \in Nat \ {0}
  <1> DEFINE N == [stem: Nat, template: BOOLEAN]
  <1>1. p \in Seq(N) /\ p # <<>>
    BY DEF Pathname
  <1> HIDE DEF N
  <1>2. Len(p) \in Nat \ {0} /\ p[Len(p)] \in N
    BY <1>1
  <1> QED BY <1>2 DEF Last, N

(* The order of a listing is that of numbers.                              *)
LEMMA Ranked ==
  ASSUME NEW p \in Pathname, NEW q \in Pathname
  PROVE  /\ Rank(p) \in Nat /\ Rank(q) \in Nat
         /\ Before(p, q) <=> Rank(p) < Rank(q)
         /\ Rank(p) = Rank(q) => Last(p) = Last(q)
  <1> DEFINE a == Last(p)
             b == Last(q)
  <1>1. a \in [stem: Nat, template: BOOLEAN] /\ b \in [stem: Nat, template: BOOLEAN]
    BY LastNames
  <1>2. /\ a.stem \in Nat /\ b.stem \in Nat /\ a.template \in BOOLEAN /\ b.template \in BOOLEAN
        /\ a.stem = b.stem /\ a.template = b.template => a = b
    <2> HIDE DEF a, b
    <2> QED BY <1>1
  <1>3. /\ Rank(p) = 2 * a.stem + (IF a.template THEN 1 ELSE 0)
        /\ Rank(q) = 2 * b.stem + (IF b.template THEN 1 ELSE 0)
        /\ Before(p, q) <=> a.stem < b.stem \/ (a.stem = b.stem /\ ~a.template /\ b.template)
    BY DEF Rank, Before
  <1>4. ASSUME NEW x \in Nat, NEW y \in Nat, NEW s \in BOOLEAN, NEW t \in BOOLEAN,
               NEW m, NEW n, m = 2 * x + (IF s THEN 1 ELSE 0), n = 2 * y + (IF t THEN 1 ELSE 0)
        PROVE  /\ m \in Nat /\ n \in Nat
               /\ (x < y \/ (x = y /\ ~s /\ t)) <=> m < n
               /\ m = n => x = y /\ s = t
    BY <1>4
  <1> HIDE DEF a, b
  <1>5. /\ Rank(p) \in Nat /\ Rank(q) \in Nat
        /\ (a.stem < b.stem \/ (a.stem = b.stem /\ ~a.template /\ b.template)) <=> Rank(p) < Rank(q)
        /\ Rank(p) = Rank(q) => a.stem = b.stem /\ a.template = b.template
    BY <1>2, <1>3, <1>4
  <1> QED BY <1>2, <1>3, <1>5 DEF a, b

(* Whatever finite set of siblings there is can be put in order.           *)
LEMMA CanBeSorted ==
  ASSUME NEW L \in SUBSET Pathname, Siblings(L), NEW n \in Nat
  PROVE  \A S \in SUBSET L : IsFiniteSet(S) /\ Cardinality(S) = n => \E s \in [1 .. n -> S] : InOrder(s, n)
  <1> DEFINE T == {k \in Nat : \A S \in SUBSET L :
                     IsFiniteSet(S) /\ Cardinality(S) = k => \E s \in [1 .. k -> S] : InOrder(s, k)}
  <1>1. 0 \in T
    <2> SUFFICES ASSUME NEW S \in SUBSET L PROVE \E s \in [1 .. 0 -> S] : InOrder(s, 0)
      OBVIOUS
    <2> DEFINE z == [i \in 1 .. 0 |-> 0]
    <2>1. 1 .. 0 = {}
      OBVIOUS
    <2>2. z \in [1 .. 0 -> S]
      BY <2>1
    <2>3. InOrder(z, 0)
      BY <2>1 DEF InOrder
    <2> QED BY <2>2, <2>3
  <1>2. ASSUME NEW k \in Nat, k \in T PROVE k + 1 \in T
    <2> SUFFICES ASSUME NEW S \in SUBSET L, IsFiniteSet(S), Cardinality(S) = k + 1
                 PROVE  \E s \in [1 .. k + 1 -> S] : InOrder(s, k + 1)
      OBVIOUS
    <2>1. S # {} /\ \A x \in S : Rank(x) \in Nat
      <3>1. S # {}
        BY FS_EmptySet
      <3> QED BY <3>1, Ranked
    <2>2. PICK m \in S : \A x \in S : Rank(m) <= Rank(x)
      <3> DEFINE R == {Rank(x) : x \in S}
      <3>1. R \subseteq Nat /\ R # {}
        BY <2>1
      <3> HIDE DEF R
      <3>2. PICK r \in R : \A y \in R : r <= y
        BY <3>1, Sizes!Least
      <3> QED BY <3>2 DEF R
    <2> DEFINE U == S \ {m}
    <2>3. U \in SUBSET L /\ IsFiniteSet(U) /\ Cardinality(U) = k
      BY FS_RemoveElement
    <2>4. PICK u \in [1 .. k -> U] : InOrder(u, k)
      BY <1>2, <2>3
    <2>5. \A x \in U : Before(m, x)
      <3> SUFFICES ASSUME NEW x \in U PROVE Before(m, x)
        OBVIOUS
      <3>1. m \in Pathname /\ x \in Pathname /\ m # x /\ m \in L /\ x \in L
        OBVIOUS
      <3>2. Rank(m) # Rank(x)
        BY <3>1, Ranked DEF Siblings
      <3> QED BY <2>1, <2>2, <3>1, <3>2, Ranked
    <2> DEFINE s == [i \in 1 .. k + 1 |-> IF i = 1 THEN m ELSE u[i - 1]]
    <2>6. s \in [1 .. k + 1 -> S]
      <3>1. \A i \in 1 .. k + 1 : i # 1 => i - 1 \in 1 .. k
        OBVIOUS
      <3> QED BY <3>1
    <2>7. ASSUME NEW i \in 1 .. k + 1, NEW j \in 1 .. k + 1, i < j PROVE Before(s[i], s[j])
      <3>1. j # 1 /\ j - 1 \in 1 .. k /\ s[j] = u[j - 1]
        BY <2>7
      <3>2. CASE i = 1
        BY <2>5, <3>1, <3>2
      <3>3. CASE i # 1
        <4>1. i - 1 \in 1 .. k /\ i - 1 < j - 1 /\ s[i] = u[i - 1]
          BY <2>7, <3>3
        <4> QED BY <2>4, <3>1, <4>1 DEF InOrder
      <3> QED BY <3>2, <3>3
    <2> HIDE DEF s
    <2> QED BY <2>6, <2>7 DEF InOrder
  <1> HIDE DEF T
  <1>3. n \in T
    BY <1>1, <1>2, Sizes!SetInduction
  <1> QED BY <1>3 DEF T

(* A sorted set is all of it, each element once.                           *)
LEMMA SortedIs ==
  ASSUME NEW S, S \subseteq Pathname, IsFiniteSet(S), Siblings(S)
  PROVE  Sorted(S) \in Seq(S) /\ ToSet(Sorted(S)) = S /\ Distinct(Sorted(S))
  <1> DEFINE n == Cardinality(S)
             s == Sorted(S)
  <1>1. n \in Nat
    BY FS_CardinalityType
  <1>2. \E t \in [1 .. n -> S] : InOrder(t, n)
    BY <1>1, CanBeSorted
  <1>3. s \in [1 .. n -> S] /\ InOrder(s, n)
    <2>1. \E t \in [1 .. n -> S] : \A i, j \in DOMAIN t : i < j => Before(t[i], t[j])
      BY <1>2 DEF InOrder
    <2>2. s \in [1 .. n -> S] /\ \A i, j \in DOMAIN s : i < j => Before(s[i], s[j])
      BY <2>1 DEF Sorted
    <2> QED BY <2>2 DEF InOrder
  <1> HIDE DEF n, s
  <1>4. \A i, j \in 1 .. n : i < j => s[i] # s[j]
    <2> SUFFICES ASSUME NEW i \in 1 .. n, NEW j \in 1 .. n, i < j, s[i] = s[j] PROVE FALSE
      OBVIOUS
    <2>1. s[i] \in Pathname /\ Before(s[i], s[i])
      BY <1>3 DEF InOrder
    <2> QED BY <2>1, Ranked
  <1>5. \A i, j \in 1 .. n : s[i] = s[j] => i = j
    BY <1>1, <1>4
  <1>6. s \in Injection(1 .. n, S)
    BY <1>3, <1>5 DEF Injection, IsInjective
  <1>7. Cardinality(1 .. n) = n
    BY <1>1, FS_Interval
  <1>8. s \in Surjection(1 .. n, S)
    BY <1>6, <1>7, FS_Injection DEF n
  <1>9. \A x \in S : \E i \in 1 .. n : s[i] = x
    BY <1>8 DEF Surjection
  <1>10. s \in Seq(S)
    BY <1>1, <1>3, SeqDef
  <1>11. ToSet(s) = S
    BY <1>3, <1>9 DEF ToSet
  <1> QED BY <1>3, <1>5, <1>10, <1>11 DEF s, Distinct

-----------------------------------------------------------------------------
(* What is on the way to a file.                                           *)

(* All folders above p are real ones.                                      *)
Open(p) == \A n \in 1 .. (Len(p) - 1) : SubSeq(p, 1, n) \in DOMAIN Tree /\ Tree[SubSeq(p, 1, n)] = Folder

OnTheWay(q, p) == \E n \in 1 .. Len(p) : q = SubSeq(p, 1, n)

Children(dir) == {p \in Present : Len(p) = Len(dir) + 1 /\ IsPrefix(dir, p)}

(* The parts of a path from its root are paths.                            *)
LEMMA Ways ==
  ASSUME NEW p \in Pathname
  PROVE  /\ Len(p) \in Nat \ {0} /\ p = SubSeq(p, 1, Len(p))
         /\ \A n \in 1 .. Len(p) :
              /\ SubSeq(p, 1, n) \in Pathname /\ Len(SubSeq(p, 1, n)) = n
              /\ \A i \in 1 .. n : SubSeq(p, 1, n)[i] = p[i]
  <1> DEFINE N == [stem: Nat, template: BOOLEAN]
  <1>1. p \in Seq(N) /\ p # <<>> /\ \A q : q \in Pathname <=> q \in Seq(N) /\ q # <<>>
    BY DEF Pathname
  <1> HIDE DEF N
  <1>2. Len(p) \in Nat \ {0} /\ p = SubSeq(p, 1, Len(p))
    BY <1>1
  <1>3. ASSUME NEW n \in 1 .. Len(p)
        PROVE  /\ SubSeq(p, 1, n) \in Seq(N) /\ Len(SubSeq(p, 1, n)) = n
               /\ \A i \in 1 .. n : SubSeq(p, 1, n)[i] = p[i]
    BY <1>1
  <1>4. ASSUME NEW n \in 1 .. Len(p) PROVE SubSeq(p, 1, n) \in Pathname
    <2>1. n # 0 /\ Len(<<>>) = 0
      OBVIOUS
    <2>2. SubSeq(p, 1, n) # <<>>
      BY <1>3, <2>1
    <2> QED BY <1>1, <1>3, <2>2
  <1> QED BY <1>2, <1>3, <1>4

(* Paths with the same names are one path.                                 *)
LEMMA SamePath ==
  ASSUME NEW p \in Pathname, NEW q \in Pathname, Len(p) = Len(q), \A i \in 1 .. Len(p) : p[i] = q[i]
  PROVE  p = q
  <1> DEFINE N == [stem: Nat, template: BOOLEAN]
  <1>1. p \in Seq(N) /\ q \in Seq(N)
    BY DEF Pathname
  <1> HIDE DEF N
  <1> QED BY <1>1

(* The children of a folder share all but their last names with it.        *)
LEMMA ChildOf ==
  ASSUME NEW d \in Pathname \cup {<<>>}, NEW p \in Pathname, Len(p) = Len(d) + 1
  PROVE  IsPrefix(d, p) <=> \A i \in 1 .. Len(d) : p[i] = d[i]
  <1> DEFINE N == [stem: Nat, template: BOOLEAN]
  <1>1. p \in Seq(N) /\ d \in Seq(N)
    <2>1. p \in Seq(N) /\ (d \in Seq(N) \/ d = <<>>)
      BY DEF Pathname
    <2>2. <<>> \in Seq(N)
      OBVIOUS
    <2> QED BY <2>1, <2>2
  <1> HIDE DEF N
  <1>2. Len(d) \in Nat /\ Len(d) <= Len(p) /\ SubSeq(d, 1, Len(d)) = d
    BY <1>1
  <1>3. /\ SubSeq(p, 1, Len(d)) \in Seq(N) /\ Len(SubSeq(p, 1, Len(d))) = Len(d)
        /\ \A i \in 1 .. Len(d) : SubSeq(p, 1, Len(d))[i] = p[i]
    BY <1>1, <1>2
  <1>4. SubSeq(p, 1, Len(d)) = d <=> \A i \in 1 .. Len(d) : p[i] = d[i]
    BY <1>1, <1>3
  <1> QED BY <1>2, <1>4 DEF IsPrefix

(* A listing is all there is in the folder.                                *)
LEMMA ListingIs ==
  ASSUME call \in Call, NEW d \in Pathname \cup {<<>>}
  PROVE  Listing(d) \in Seq(DOMAIN Tree) /\ ToSet(Listing(d)) = Children(d)
  <1>1. Children(d) \subseteq DOMAIN Tree /\ Children(d) \subseteq Pathname /\ IsFiniteSet(Children(d))
    <2>1. Children(d) \in SUBSET DOMAIN Tree
      BY DEF Children, Present
    <2> QED BY <2>1, KnownPaths, FS_Subset
  <1>2. Siblings(Children(d))
    <2> SUFFICES ASSUME NEW p \in Children(d), NEW q \in Children(d), Last(p) = Last(q) PROVE p = q
      BY DEF Siblings
    <2>1. p \in Pathname /\ q \in Pathname
      BY <1>1
    <2>2. /\ Len(p) = Len(d) + 1 /\ \A i \in 1 .. Len(d) : p[i] = d[i]
          /\ Len(q) = Len(d) + 1 /\ \A i \in 1 .. Len(d) : q[i] = d[i]
      BY <2>1, ChildOf DEF Children
    <2>3. p[Len(p)] = q[Len(q)]
      BY DEF Last
    <2>4. Len(d) \in Nat
      BY Ways
    <2>5. \A i \in 1 .. Len(p) : i = Len(p) \/ i \in 1 .. Len(d)
      BY <2>2, <2>4
    <2> QED BY <2>1, <2>2, <2>3, <2>5, SamePath
  <1>3. Sorted(Children(d)) \in Seq(Children(d)) /\ ToSet(Sorted(Children(d))) = Children(d)
    BY <1>1, <1>2, SortedIs
  <1>4. Listing(d) = Sorted(Children(d))
    BY DEF Listing, Children
  <1>5. \A S, T : S \subseteq T => Seq(S) \subseteq Seq(T)
    OBVIOUS
  <1> QED BY <1>1, <1>3, <1>4, <1>5

(* The next step from a folder to a file below it is in the folder.        *)
LEMMA NextOnTheWay ==
  ASSUME call \in Call, gone = {}, NEW p \in Reachable, NEW n \in Nat, n < Len(p)
  PROVE  LET d == IF n = 0 THEN <<>> ELSE SubSeq(p, 1, n)
         IN SubSeq(p, 1, n + 1) \in Children(d) /\ OnTheWay(SubSeq(p, 1, n + 1), p)
  <1> DEFINE d == IF n = 0 THEN <<>> ELSE SubSeq(p, 1, n)
             q == SubSeq(p, 1, n + 1)
  <1>1. p \in DOMAIN Tree /\ p \in Pathname
    BY KnownPaths DEF Reachable
  <1>2. Len(p) \in Nat /\ n + 1 \in 1 .. Len(p) /\ p = SubSeq(p, 1, Len(p))
    BY <1>1, Ways
  <1>3. q \in Pathname /\ Len(q) = n + 1 /\ \A i \in 1 .. n + 1 : q[i] = p[i]
    BY <1>1, <1>2, Ways
  <1>4. d \in Pathname \cup {<<>>} /\ Len(d) = n /\ \A i \in 1 .. n : d[i] = p[i]
    <2>1. CASE n = 0
      <3>1. d = <<>> /\ Len(<<>>) = 0 /\ 1 .. 0 = {}
        BY <2>1
      <3> HIDE DEF d
      <3> QED BY <2>1, <3>1
    <2>2. CASE n # 0
      <3>1. n \in 1 .. Len(p)
        BY <1>2, <2>2
      <3> QED BY <1>1, <2>2, <3>1, Ways
    <2> QED BY <2>1, <2>2
  <1>5. q \in DOMAIN Tree
    <2>1. CASE n + 1 = Len(p)
      BY <1>1, <1>2, <2>1
    <2>2. CASE n + 1 # Len(p)
      <3>1. n + 1 \in 1 .. (Len(p) - 1)
        <4> HIDE DEF d, q
        <4>1. Len(p) \in Nat /\ n + 1 \in 1 .. Len(p)
          BY <1>2
        <4> QED BY <2>2, <4>1
      <3> QED BY <3>1 DEF Reachable
    <2> QED BY <2>1, <2>2
  <1>6. q \in Present
    BY <1>5 DEF Present
  <1>7. OnTheWay(q, p)
    BY <1>2 DEF OnTheWay
  <1> HIDE DEF q, d
  <1>8. \A i \in 1 .. n : i \in 1 .. n + 1
    OBVIOUS
  <1>9. q \in Children(d)
    BY <1>3, <1>4, <1>6, <1>8, ChildOf DEF Children
  <1>10. q \in Children(d) /\ OnTheWay(q, p)
    BY <1>7, <1>9
  <1> QED BY <1>10 DEF q, d

(* What is in a folder that can be reached can be reached itself.          *)
LEMMA ChildrenOpen ==
  ASSUME call \in Call, NEW d \in Pathname \cup {<<>>}, NEW p \in Children(d),
         d = <<>> \/ (d \in DOMAIN Tree /\ Tree[d] = Folder /\ Open(d))
  PROVE  Open(p)
  <1>1. p \in Pathname
    BY KnownPaths DEF Children, Present
  <1>2. Len(p) = Len(d) + 1 /\ \A i \in 1 .. Len(d) : p[i] = d[i]
    BY <1>1, ChildOf DEF Children
  <1> SUFFICES ASSUME NEW n \in 1 .. (Len(p) - 1)
               PROVE  SubSeq(p, 1, n) \in DOMAIN Tree /\ Tree[SubSeq(p, 1, n)] = Folder
    BY DEF Open
  <1>3. d \in Pathname /\ d # <<>> /\ Len(d) \in Nat /\ n \in 1 .. Len(d) /\ n \in 1 .. Len(p)
    <2>1. d = <<>> => Len(p) = 1
      BY <1>2
    <2>2. d # <<>>
      <3>1. ASSUME Len(p) = 1 PROVE FALSE
        <4>1. n \in 1 .. (1 - 1)
          BY <3>1
        <4> QED BY <4>1
      <3> QED BY <2>1, <3>1
    <2>3. Len(d) \in Nat /\ Len(p) \in Nat
      BY <1>1, <2>2, Ways
    <2> QED BY <1>2, <2>2, <2>3
  <1>4. SubSeq(p, 1, n) = SubSeq(d, 1, n)
    <2>1. /\ SubSeq(p, 1, n) \in Pathname /\ Len(SubSeq(p, 1, n)) = n
          /\ \A i \in 1 .. n : SubSeq(p, 1, n)[i] = p[i]
      BY <1>1, <1>3, Ways
    <2>2. /\ SubSeq(d, 1, n) \in Pathname /\ Len(SubSeq(d, 1, n)) = n
          /\ \A i \in 1 .. n : SubSeq(d, 1, n)[i] = d[i]
      BY <1>3, Ways
    <2>3. \A i \in 1 .. n : i \in 1 .. Len(d)
      BY <1>3
    <2> QED BY <1>2, <2>1, <2>2, <2>3, SamePath
  <1>5. CASE n = Len(d)
    BY <1>3, <1>4, <1>5, Ways
  <1>6. CASE n # Len(d)
    <2>1. n \in 1 .. (Len(d) - 1)
      BY <1>3, <1>6
    <2> QED BY <1>3, <1>4, <2>1 DEF Open
  <1> QED BY <1>5, <1>6

-----------------------------------------------------------------------------
(* What the filters keep, and what has been buffered.                      *)

Keeps == INSTANCE Folding WITH Step <- Keep
Owns == INSTANCE Folding WITH Step <- AddOwn
Chunks == INSTANCE Folding WITH Step <- AddBatch

(* The folds of the model are those of Folding.                            *)
LEMMA KeepFolds == \A s : FoldLeft(Keep, <<>>, s) = Keeps!Fold(<<>>, s)
  BY DEF Keeps!Fold, FoldLeft, MapThenFoldSet, Max, Keeps!FoldLeft, Keeps!MapThenFoldSet, Keeps!Max

(* So is that over a chunk,                                                *)
LEMMA OwnFolds == \A b, s : FoldLeft(AddOwn, b, s) = Owns!Fold(b, s)
  BY DEF Owns!Fold, FoldLeft, MapThenFoldSet, Max, Owns!FoldLeft, Owns!MapThenFoldSet, Owns!Max

(* and that over the chunks.                                               *)
LEMMA ChunkFolds == \A b, s : FoldLeft(AddBatch, b, s) = Chunks!Fold(b, s)
  BY DEF Chunks!Fold, FoldLeft, MapThenFoldSet, Max, Chunks!FoldLeft, Chunks!MapThenFoldSet, Chunks!Max

(* A sequence is one of its own elements.                                  *)
LEMMA SeqOfItsSet ==
  ASSUME NEW S, NEW s \in Seq(S)
  PROVE  s \in Seq(ToSet(s)) /\ ToSet(s) \subseteq S
  <1>1. Len(s) \in Nat /\ DOMAIN s = 1 .. Len(s) /\ \A i \in 1 .. Len(s) : s[i] \in S
    OBVIOUS
  <1>2. s \in [1 .. Len(s) -> ToSet(s)]
    <2>1. s = [i \in 1 .. Len(s) |-> s[i]]
      OBVIOUS
    <2> QED BY <1>1, <2>1 DEF ToSet
  <1>3. s \in Seq(ToSet(s))
    <2>1. s \in UNION {[1 .. n -> ToSet(s)] : n \in Nat}
      BY <1>1, <1>2, Zenon
    <2> QED BY <2>1, SeqDef, Zenon
  <1>4. ToSet(s) \subseteq S
    BY <1>1 DEF ToSet
  <1> QED BY <1>3, <1>4

(* The filters keep a part of the files.                                   *)
LEMMA FilteredIs ==
  ASSUME NEW S, NEW s \in Seq(S)
  PROVE  FoldLeft(Keep, <<>>, s) \in Seq(S) /\ ToSet(FoldLeft(Keep, <<>>, s)) = ToSet(s) \cap call.keep
  <1> DEFINE F(k) == Keeps!Fold(<<>>, SubSeq(s, 1, k))
             Firsts(k) == {s[i] : i \in 1 .. k}
             T == {k \in Nat : k <= Len(s) => F(k) \in Seq(S) /\ ToSet(F(k)) = Firsts(k) \cap call.keep}
  <1>1. 0 \in T
    <2>1. SubSeq(s, 1, 0) = <<>>
      OBVIOUS
    <2>2. F(0) = <<>>
      BY <2>1, Keeps!FoldEmpty
    <2>3. Firsts(0) = {} /\ ToSet(<<>>) = {} /\ <<>> \in Seq(S)
      BY DEF ToSet
    <2> HIDE DEF F, Firsts
    <2> QED BY <2>2, <2>3
  <1>2. ASSUME NEW k \in Nat, k \in T PROVE k + 1 \in T
    <2> SUFFICES ASSUME k + 1 <= Len(s)
                 PROVE  F(k + 1) \in Seq(S) /\ ToSet(F(k + 1)) = Firsts(k + 1) \cap call.keep
      OBVIOUS
    <2>1. k \in 0 .. Len(s) - 1 /\ s[k + 1] \in S
      OBVIOUS
    <2>2. F(k + 1) = Keep(F(k), s[k + 1])
      BY <2>1, Keeps!FoldPrefix
    <2>3. F(k) \in Seq(S) /\ ToSet(F(k)) = Firsts(k) \cap call.keep
      BY <1>2
    <2>4. Firsts(k + 1) = Firsts(k) \cup {s[k + 1]}
      <3>1. \A i : i \in 1 .. k + 1 <=> i \in 1 .. k \/ i = k + 1
        OBVIOUS
      <3> QED BY <3>1
    <2> HIDE DEF F, Firsts
    <2>5. CASE s[k + 1] \in call.keep
      <3>1. F(k + 1) = Append(F(k), s[k + 1])
        BY <2>2, <2>5 DEF Keep
      <3>2. F(k) \in Seq(ToSet(F(k)))
        BY <2>3, SeqOfItsSet
      <3>3. ToSet(F(k + 1)) = ToSet(F(k)) \cup {s[k + 1]}
        BY <3>1, <3>2, LongerSet
      <3>4. F(k + 1) \in Seq(S)
        BY <2>1, <2>3, <3>1
      <3> QED BY <2>3, <2>4, <2>5, <3>3, <3>4
    <2>6. CASE s[k + 1] \notin call.keep
      <3>1. F(k + 1) = F(k)
        BY <2>2, <2>6 DEF Keep
      <3> QED BY <2>3, <2>4, <2>6, <3>1
    <2> QED BY <2>5, <2>6
  <1>3. Len(s) \in Nat /\ SubSeq(s, 1, Len(s)) = s /\ DOMAIN s = 1 .. Len(s)
    OBVIOUS
  <1> HIDE DEF T
  <1>4. Len(s) \in T
    BY <1>1, <1>2, <1>3, Keeps!SetInduction
  <1>5. F(Len(s)) \in Seq(S) /\ ToSet(F(Len(s))) = Firsts(Len(s)) \cap call.keep
    BY <1>3, <1>4 DEF T
  <1>6. F(Len(s)) = FoldLeft(Keep, <<>>, s) /\ Firsts(Len(s)) = ToSet(s)
    BY <1>3, KeepFolds DEF ToSet
  <1> QED BY <1>5, <1>6

(* Nothing is the call's own before the first directive.                   *)
LEMMA NothingBuffered ==
  ASSUME NEW s \in Seq([source: {<<>>}, dest: {<<>>}, size: Nat])
  PROVE  FoldLeft(AddBatch, <<>>, Append(<<>>, s)) = <<>>
  <1> DEFINE D == [source: {<<>>}, dest: {<<>>}, size: Nat]
  <1>1. \A d \in D : d.source = <<>>
    OBVIOUS
  <1> HIDE DEF D
  <1>2. \A acc \in {<<>>}, d \in D : AddOwn(acc, d) \in {<<>>}
    BY <1>1 DEF AddOwn
  <1>3. Owns!Fold(<<>>, s) \in {<<>>}
    <2>1. <<>> \in {<<>>} /\ s \in Seq(D)
      BY DEF D
    <2> QED BY <1>2, <2>1, Owns!FoldInvariant
  <1>4. Chunks!Fold(<<>>, Append(<<>>, s)) = AddBatch(Chunks!Fold(<<>>, <<>>), s)
    <2>1. ASSUME NEW e \in Seq({s}) PROVE Chunks!Fold(<<>>, Append(e, s)) = AddBatch(Chunks!Fold(<<>>, e), s)
      <3>1. s \in {s}
        OBVIOUS
      <3> QED BY <3>1, Chunks!FoldAppend
    <2>2. <<>> \in Seq({s})
      OBVIOUS
    <2> QED BY <2>1, <2>2, Zenon
  <1> QED BY <1>3, <1>4, Chunks!FoldEmpty, ChunkFolds, OwnFolds DEF AddBatch

(* What is buffered, before and after a step.                              *)
LEMMA BufferedFolds ==
  /\ Buffered = Chunks!Fold(<<>>, Append(batches, pending))
  /\ Buffered' = Chunks!Fold(<<>>, Append(batches', pending'))
  BY ChunkFolds DEF Buffered

(* The last chunk is folded last.                                          *)
LEMMA LastChunk ==
  ASSUME NEW bs, bs \in Seq(ToSet(bs)), NEW s
  PROVE  Chunks!Fold(<<>>, Append(bs, s)) = Owns!Fold(Chunks!Fold(<<>>, bs), s)
  <1>1. bs \in Seq(ToSet(bs) \cup {s}) /\ s \in ToSet(bs) \cup {s}
    OBVIOUS
  <1>2. Chunks!Fold(<<>>, Append(bs, s)) = AddBatch(Chunks!Fold(<<>>, bs), s)
    BY <1>1, Chunks!FoldAppend
  <1> QED BY <1>2, OwnFolds DEF AddBatch

(* The last directive of a chunk is its last.                              *)
LEMMA LastOwn ==
  ASSUME NEW b, NEW s, s \in Seq(ToSet(s)), NEW d, d.source # <<>>
  PROVE  Owns!Fold(b, Append(s, d)) = Append(Owns!Fold(b, s), d)
  <1>1. s \in Seq(ToSet(s) \cup {d}) /\ d \in ToSet(s) \cup {d}
    OBVIOUS
  <1>2. Owns!Fold(b, Append(s, d)) = AddOwn(Owns!Fold(b, s), d)
    BY <1>1, Owns!FoldAppend
  <1> QED BY <1>2 DEF AddOwn

(* A directive goes to the end of what is buffered, in the same chunk ...  *)
LEMMA SameChunk ==
  ASSUME NEW bs, bs \in Seq(ToSet(bs)), NEW s, s \in Seq(ToSet(s)), NEW d, d.source # <<>>
  PROVE  Chunks!Fold(<<>>, Append(bs, Append(s, d))) = Append(Chunks!Fold(<<>>, Append(bs, s)), d)
  BY LastChunk, LastOwn

(* ... or in a new one.                                                    *)
LEMMA NewChunk ==
  ASSUME NEW bs, bs \in Seq(ToSet(bs)), NEW s, NEW d, d.source # <<>>, NEW one, one = <<d>>
  PROVE  Chunks!Fold(<<>>, Append(Append(bs, s), one)) = Append(Chunks!Fold(<<>>, Append(bs, s)), d)
  <1> DEFINE before == Chunks!Fold(<<>>, Append(bs, s))
  <1>1. Append(bs, s) \in Seq(ToSet(Append(bs, s)))
    BY LongerSet
  <1>2. Append(<<>>, d) = one /\ <<>> \in Seq(ToSet(<<>>))
    OBVIOUS
  <1>3. Owns!Fold(before, Append(<<>>, d)) = Append(Owns!Fold(before, <<>>), d)
    <2>1. ASSUME NEW none, none \in Seq(ToSet(none))
          PROVE  Owns!Fold(before, Append(none, d)) = Append(Owns!Fold(before, none), d)
      <3> HIDE DEF before
      <3> QED BY <2>1, LastOwn
    <2> QED BY <1>2, <2>1, Zenon
  <1>4. Owns!Fold(before, <<>>) = before
    BY Owns!FoldEmpty
  <1> QED BY <1>1, <1>2, <1>3, <1>4, LastChunk

-----------------------------------------------------------------------------
(* The invariant of the walk and of what follows it.                       *)

Line == ToSet(names) \cup ToSet(stack) \cup ToSet(entries)
Piped == {Pipeline(p) : p \in DOMAIN Tree}

Typed ==
  /\ call \in Call
  /\ names \in Seq(DOMAIN Tree) /\ stack \in Seq(DOMAIN Tree) /\ entries \in Seq(DOMAIN Tree)
  /\ results \in Seq(Piped)

(* What the walk has found is what it may find.                            *)
Found ==
  /\ \A p \in Line : Open(p)
  /\ \A p \in ToSet(stack) : Tree[p] = Folder
  /\ \A p \in ToSet(entries) : Target(p).kind # "folder"

(* In a folder nobody touches the walk is on the way to every file.        *)
Covered ==
  gone = {} =>
    /\ phase = "walk" => \A p \in Reachable : \E q \in Line : OnTheWay(q, p)
    /\ phase \in {"expand", "done"} => ToSet(entries) = Reachable

Walked == Typed /\ Found /\ Covered

(* Nothing is found before the walk.                                       *)
LEMMA WalkedInit == Init => Walked
  <1> SUFFICES ASSUME Init PROVE Walked
    OBVIOUS
  <1>1. Typed
    BY DEF Init, Typed
  <1>2. Line = {} /\ ToSet(stack) = {} /\ ToSet(entries) = {}
    BY DEF Init, Line, ToSet
  <1>3. Covered
    BY DEF Init, Covered
  <1> QED BY <1>1, <1>2, <1>3 DEF Walked, Found

(* Where nothing of the walk changes, nothing of this does.                *)
LEMMA WalkedStays ==
  ASSUME Walked, UNCHANGED <<call, names, stack, entries>>, results' \in Seq(Piped),
         gone' = {} => gone = {},
         phase' = "walk" => phase = "walk",
         phase' \in {"expand", "done"} /\ gone = {} => ToSet(entries) = Reachable
  PROVE  Walked'
  <1>1. Tree' = Tree /\ Reachable' = Reachable /\ Line' = Line /\ Piped' = Piped
    <2>1. Tree' = Tree
      BY DEF Tree
    <2>2. Line' = Line
      BY DEF Line
    <2>3. Reachable' = Reachable
      BY <2>1 DEF Reachable, Target
    <2>4. Piped' = Piped
      BY <2>1 DEF Piped, Pipeline
    <2> QED BY <2>1, <2>2, <2>3, <2>4
  <1>2. Typed'
    BY <1>1 DEF Walked, Typed
  <1>3. Found'
    BY <1>1 DEF Walked, Found, Open, Target
  <1>4. Covered'
    BY <1>1 DEF Walked, Covered
  <1> QED BY <1>2, <1>3, <1>4 DEF Walked

(* The ends of a sequence.                                                 *)
LEMMA FirstAndRest ==
  ASSUME NEW S, NEW s \in Seq(S), s # <<>>
  PROVE  Head(s) \in S /\ Tail(s) \in Seq(S) /\ ToSet(s) = {Head(s)} \cup ToSet(Tail(s))
  <1>1. /\ Len(s) \in Nat \ {0} /\ DOMAIN s = 1 .. Len(s) /\ \A i \in 1 .. Len(s) : s[i] \in S
        /\ Head(s) = s[1] /\ Tail(s) \in Seq(S) /\ Len(Tail(s)) = Len(s) - 1
        /\ DOMAIN Tail(s) = 1 .. Len(s) - 1
        /\ \A i \in 1 .. Len(s) - 1 : Tail(s)[i] = s[i + 1]
    OBVIOUS
  <1>2. ASSUME NEW e \in ToSet(s) PROVE e = Head(s) \/ e \in ToSet(Tail(s))
    <2>1. PICK i \in 1 .. Len(s) : e = s[i]
      BY <1>1, <1>2 DEF ToSet
    <2>2. CASE i = 1
      BY <1>1, <2>1, <2>2
    <2>3. CASE i # 1
      <3>1. i - 1 \in 1 .. Len(s) - 1 /\ (i - 1) + 1 = i
        BY <1>1, <2>3
      <3>2. e = Tail(s)[i - 1]
        BY <1>1, <2>1, <3>1
      <3> QED BY <1>1, <3>1, <3>2 DEF ToSet
    <2> QED BY <2>2, <2>3
  <1>3. ASSUME NEW e \in ToSet(Tail(s)) PROVE e \in ToSet(s)
    <2>1. PICK i \in 1 .. Len(s) - 1 : e = Tail(s)[i]
      BY <1>1, <1>3 DEF ToSet
    <2>2. i + 1 \in 1 .. Len(s) /\ e = s[i + 1]
      BY <1>1, <2>1
    <2> QED BY <1>1, <2>2 DEF ToSet
  <1>4. Head(s) \in ToSet(s)
    BY <1>1 DEF ToSet
  <1>5. \A e : e \in ToSet(s) <=> e = Head(s) \/ e \in ToSet(Tail(s))
    BY <1>2, <1>3, <1>4
  <1> QED BY <1>1, <1>5

(* The same from the other end.                                            *)
LEMMA FrontAndLast ==
  ASSUME NEW S, NEW s \in Seq(S), s # <<>>
  PROVE  Last(s) \in S /\ Front(s) \in Seq(S) /\ ToSet(s) = {Last(s)} \cup ToSet(Front(s))
  <1>1. /\ Len(s) \in Nat \ {0} /\ DOMAIN s = 1 .. Len(s) /\ \A i \in 1 .. Len(s) : s[i] \in S
        /\ Last(s) = s[Len(s)] /\ Front(s) \in Seq(S) /\ Len(Front(s)) = Len(s) - 1
        /\ DOMAIN Front(s) = 1 .. Len(s) - 1
        /\ \A i \in 1 .. Len(s) - 1 : Front(s)[i] = s[i]
    <2>1. Len(s) \in Nat \ {0} /\ DOMAIN s = 1 .. Len(s) /\ \A i \in 1 .. Len(s) : s[i] \in S
      OBVIOUS
    <2>2. ASSUME NEW n \in Nat, n + 1 = Len(s)
          PROVE  /\ SubSeq(s, 1, n) \in Seq(S) /\ Len(SubSeq(s, 1, n)) = n
                 /\ DOMAIN SubSeq(s, 1, n) = 1 .. n
                 /\ \A i \in 1 .. n : SubSeq(s, 1, n)[i] = s[i]
      BY <2>2
    <2>3. Len(s) - 1 \in Nat /\ (Len(s) - 1) + 1 = Len(s)
      BY <2>1
    <2> QED BY <2>1, <2>2, <2>3, Zenon DEF Last, Front
  <1>2. ASSUME NEW e \in ToSet(s) PROVE e = Last(s) \/ e \in ToSet(Front(s))
    <2>1. PICK i \in 1 .. Len(s) : e = s[i]
      BY <1>1, <1>2 DEF ToSet
    <2>2. CASE i = Len(s)
      BY <1>1, <2>1, <2>2
    <2>3. CASE i # Len(s)
      <3>1. i \in 1 .. Len(s) - 1
        <4>1. Len(s) \in Nat
          BY <1>1
        <4> QED BY <2>3, <4>1
      <3>2. e = Front(s)[i]
        BY <1>1, <2>1, <3>1
      <3> QED BY <1>1, <3>1, <3>2 DEF ToSet
    <2> QED BY <2>2, <2>3
  <1>3. ASSUME NEW e \in ToSet(Front(s)) PROVE e \in ToSet(s)
    <2>1. PICK i \in 1 .. Len(s) - 1 : e = Front(s)[i]
      BY <1>1, <1>3 DEF ToSet
    <2>2. i \in 1 .. Len(s) /\ e = s[i]
      BY <1>1, <2>1
    <2> QED BY <1>1, <2>2 DEF ToSet
  <1>4. Last(s) \in ToSet(s)
    BY <1>1 DEF ToSet
  <1>5. \A e : e \in ToSet(s) <=> e = Last(s) \/ e \in ToSet(Front(s))
    BY <1>2, <1>3, <1>4
  <1> QED BY <1>1, <1>5

(* One element more, of a set.                                             *)
LEMMA Longest ==
  ASSUME NEW S, NEW s \in Seq(S), NEW x \in S
  PROVE  Append(s, x) \in Seq(S) /\ ToSet(Append(s, x)) = ToSet(s) \cup {x}
  <1>1. s \in Seq(ToSet(s))
    BY SeqOfItsSet
  <1>2. Append(s, x) \in Seq(S)
    OBVIOUS
  <1> QED BY <1>1, <1>2, LongerSet

(* A step of the walk.                                                     *)
LEMMA WalkedOn ==
  ASSUME Walked, UNCHANGED <<call, gone, results>>, phase' \notin {"expand", "done"},
         names' \in Seq(DOMAIN Tree), stack' \in Seq(DOMAIN Tree), entries' \in Seq(DOMAIN Tree),
         \A p \in Line' : Open(p),
         \A p \in ToSet(stack') : Tree[p] = Folder,
         \A p \in ToSet(entries') : Target(p).kind # "folder",
         gone = {} /\ phase' = "walk" => \A p \in Reachable : \E q \in Line' : OnTheWay(q, p)
  PROVE  Walked'
  <1>1. Tree' = Tree
    BY DEF Tree
  <1>2. Reachable' = Reachable /\ Piped' = Piped
    <2>1. Reachable' = Reachable
      BY <1>1 DEF Reachable, Target
    <2>2. Piped' = Piped
      BY <1>1 DEF Piped, Pipeline
    <2> QED BY <2>1, <2>2
  <1>3. Typed'
    BY <1>1, <1>2 DEF Walked, Typed
  <1>4. Found'
    BY <1>1 DEF Found, Open, Target
  <1>5. Covered'
    BY <1>2 DEF Covered
  <1> QED BY <1>3, <1>4, <1>5 DEF Walked

(* The root of the walk is on the way to everything.                       *)
LEMMA WalkedBegin ==
  ASSUME Walked, Begin
  PROVE  Walked'
  <1>0. call \in Call /\ entries \in Seq(DOMAIN Tree) /\ results \in Seq(Piped)
    BY DEF Walked, Typed
  <1>1. CASE call.to = "escapes" \/ call.root # "folder"
    BY <1>0, <1>1, WalkedStays DEF Begin, Reject
  <1>2. CASE ~(call.to = "escapes" \/ call.root # "folder")
    <2>1. /\ phase' = "walk" /\ stack' = <<>> /\ names' = Listing(<<>>)
          /\ UNCHANGED <<call, gone, entries, results>>
      BY <1>2 DEF Begin
    <2>2. names' \in Seq(DOMAIN Tree) /\ ToSet(names') = Children(<<>>)
      BY <1>0, <2>1, ListingIs
    <2>3. ToSet(stack') = {} /\ ToSet(entries') = ToSet(entries)
      BY <2>1 DEF ToSet
    <2>4. Line' = Children(<<>>) \cup ToSet(entries)
      BY <2>2, <2>3 DEF Line
    <2>5. \A p \in Children(<<>>) : Open(p)
      BY <1>0, ChildrenOpen
    <2>6. ASSUME gone = {}, NEW p \in Reachable PROVE \E q \in Line' : OnTheWay(q, p)
      <3>1. p \in Pathname
        BY <1>0, KnownPaths DEF Reachable
      <3>2. 0 \in Nat /\ 0 < Len(p)
        BY <3>1, Ways
      <3>3. SubSeq(p, 1, 0 + 1) \in Children(<<>>) /\ OnTheWay(SubSeq(p, 1, 0 + 1), p)
        BY <1>0, <2>6, <3>2, NextOnTheWay
      <3> QED BY <2>4, <3>3
    <2>7. \A p \in ToSet(entries) : Open(p) /\ Target(p).kind # "folder"
      BY DEF Walked, Found, Line
    <2>8. stack' \in Seq(DOMAIN Tree) /\ entries' \in Seq(DOMAIN Tree)
      BY <1>0, <2>1
    <2> QED BY <2>1, <2>2, <2>3, <2>4, <2>5, <2>6, <2>7, <2>8, WalkedOn
  <1> QED BY <1>1, <1>2

(* A link to a folder is on the way to nothing but itself.                 *)
LEMMA NoWayThrough ==
  ASSUME call \in Call, NEW p \in Reachable, NEW q \in DOMAIN Tree, OnTheWay(q, p), Tree[q] # Folder
  PROVE  q = p
  <1>1. p \in Pathname
    BY KnownPaths DEF Reachable
  <1>2. PICK n \in 1 .. Len(p) : q = SubSeq(p, 1, n)
    BY DEF OnTheWay
  <1>3. Len(p) \in Nat /\ p = SubSeq(p, 1, Len(p))
    BY <1>1, Ways
  <1>4. n \notin 1 .. (Len(p) - 1)
    BY <1>2 DEF Reachable
  <1>5. n = Len(p)
    <2>1. \A m \in Nat : n \in 1 .. m /\ n \notin 1 .. (m - 1) => n = m
      OBVIOUS
    <2> QED BY <1>3, <1>4, <2>1
  <1> QED BY <1>2, <1>3, <1>5

(* The next name is put off, skipped or found.                             *)
LEMMA WalkedVisit ==
  ASSUME Walked, Visit
  PROVE  Walked'
  <1> DEFINE h == Head(names)
  <1>1. /\ call \in Call /\ names \in Seq(DOMAIN Tree) /\ stack \in Seq(DOMAIN Tree)
        /\ entries \in Seq(DOMAIN Tree) /\ results \in Seq(Piped)
    BY DEF Walked, Typed
  <1>2. /\ Walking /\ names # <<>> /\ Enumerate(h) /\ names' = Tail(names)
        /\ UNCHANGED <<call, gone, results>>
    BY DEF Visit
  <1>3. h \in DOMAIN Tree /\ names' \in Seq(DOMAIN Tree) /\ ToSet(names) = {h} \cup ToSet(names')
    BY <1>1, <1>2, FirstAndRest
  <1> HIDE DEF h
  <1>4. /\ \A p \in Line : Open(p)
        /\ \A p \in ToSet(stack) : Tree[p] = Folder
        /\ \A p \in ToSet(entries) : Target(p).kind # "folder"
        /\ gone = {} => \A p \in Reachable : \E q \in Line : OnTheWay(q, p)
    BY <1>2 DEF Walked, Found, Covered, Walking
  <1>5. Open(h) /\ h \in Line
    BY <1>3, <1>4 DEF Line
  <1>6. CASE Reject("rejected") /\ UNCHANGED <<stack, entries>>
    <2>1. Line' \subseteq Line
      BY <1>3, <1>6 DEF Line
    <2>2. phase' = "rejected"
      BY <1>6 DEF Reject
    <2> QED BY <1>1, <1>2, <1>3, <1>4, <1>6, <2>1, <2>2, WalkedOn
  <1>7. CASE /\ UNCHANGED phase
             /\ stack' = IF Tree[h] = Folder THEN Append(stack, h) ELSE stack
             /\ entries' = IF Tree[h] = Folder \/ SymlinkTargetIsDirectory(h) THEN entries
                           ELSE Append(entries, h)
    <2>0. phase' = "walk"
      BY <1>2, <1>7 DEF Walking
    <2>1. CASE Tree[h] = Folder
      <3>1. /\ stack' \in Seq(DOMAIN Tree) /\ ToSet(stack') = ToSet(stack) \cup {h}
            /\ entries' = entries
        BY <1>1, <1>3, <1>7, <2>1, Longest
      <3>2. Line' = Line
        BY <1>3, <3>1 DEF Line
      <3> QED BY <1>1, <1>2, <1>3, <1>4, <2>0, <2>1, <3>1, <3>2, WalkedOn
    <2>2. CASE SymlinkTargetIsDirectory(h)
      <3>1. Tree[h] = Link(Folder) /\ Tree[h] # Folder /\ Target(h).kind = "folder"
        BY <2>2 DEF SymlinkTargetIsDirectory, Link, Folder, Target, Content
      <3>2. stack' = stack /\ entries' = entries
        BY <1>7, <2>2, <3>1
      <3>3. Line = Line' \cup {h}
        BY <1>3, <3>2 DEF Line
      <3>4. ASSUME gone = {}, NEW p \in Reachable PROVE \E q \in Line' : OnTheWay(q, p)
        <4>1. PICK q \in Line : OnTheWay(q, p)
          BY <1>4, <3>4
        <4>2. q # h
          <5>1. h # p
            BY <3>1 DEF Reachable
          <5> QED BY <1>1, <1>3, <3>1, <4>1, <5>1, NoWayThrough
        <4> QED BY <3>3, <4>1, <4>2
      <3> QED BY <1>1, <1>2, <1>3, <1>4, <2>0, <3>2, <3>3, <3>4, WalkedOn
    <2>3. CASE Tree[h] # Folder /\ ~SymlinkTargetIsDirectory(h)
      <3>1. /\ entries' \in Seq(DOMAIN Tree) /\ ToSet(entries') = ToSet(entries) \cup {h}
            /\ stack' = stack
        <4>1. stack' = stack /\ entries' = Append(entries, h)
          BY <1>7, <2>3
        <4> QED BY <1>1, <1>3, <4>1, Longest
      <3>2. Line' = Line
        BY <1>3, <3>1 DEF Line
      <3>3. Target(h).kind # "folder"
        <4>1. CASE Tree[h] \in [kind: {"link"}, to: Readable]
          <5>1. Tree[h] = [kind |-> "link", to |-> Tree[h].to] /\ Tree[h].to \in Readable
            BY <4>1
          <5>2. Target(h) = Tree[h].to
            BY <5>1 DEF Target, Content
          <5>3. Tree[h].to # Folder
            BY <2>3, <5>1 DEF SymlinkTargetIsDirectory, Link
          <5> QED BY <5>1, <5>2, <5>3 DEF Readable, Odd
        <4>2. CASE Tree[h] \in Readable
          <5>1. Tree[h].kind \in {"file", "odd"}
            BY <2>3, <4>2 DEF Readable, Odd
          <5> QED BY <5>1 DEF Target, Content
        <4> QED BY <1>1, <1>3, <4>1, <4>2, KnownPaths
      <3> QED BY <1>1, <1>2, <1>3, <1>4, <2>0, <3>1, <3>2, <3>3, WalkedOn
    <2> QED BY <2>1, <2>2, <2>3
  <1> QED BY <1>2, <1>6, <1>7 DEF Enumerate

(* A folder that was put off gives way to what is in it.                   *)
LEMMA WalkedDescend ==
  ASSUME Walked, Descend
  PROVE  Walked'
  <1> DEFINE d == Last(stack)
  <1>1. /\ call \in Call /\ names \in Seq(DOMAIN Tree) /\ stack \in Seq(DOMAIN Tree)
        /\ entries \in Seq(DOMAIN Tree) /\ results \in Seq(Piped)
    BY DEF Walked, Typed
  <1>2. /\ Walking /\ names = <<>> /\ stack # <<>> /\ stack' = Front(stack)
        /\ UNCHANGED <<call, gone, results, entries>>
        /\ \/ d \in Present /\ names' = Listing(d) /\ UNCHANGED phase
           \/ d \notin Present /\ Reject("rejected") /\ UNCHANGED names
    BY DEF Descend
  <1>3. d \in DOMAIN Tree /\ stack' \in Seq(DOMAIN Tree) /\ ToSet(stack) = {d} \cup ToSet(stack')
    BY <1>1, <1>2, FrontAndLast
  <1> HIDE DEF d
  <1>4. /\ \A p \in Line : Open(p)
        /\ \A p \in ToSet(stack) : Tree[p] = Folder
        /\ \A p \in ToSet(entries) : Target(p).kind # "folder"
        /\ gone = {} => \A p \in Reachable : \E q \in Line : OnTheWay(q, p)
    BY <1>2 DEF Walked, Found, Covered, Walking
  <1>5. d \in Line /\ Open(d) /\ Tree[d] = Folder /\ d \in Pathname
    BY <1>1, <1>3, <1>4, KnownPaths DEF Line
  <1>6. CASE d \notin Present /\ Reject("rejected") /\ UNCHANGED names
    <2>1. Line' \subseteq Line
      BY <1>2, <1>3, <1>6 DEF Line
    <2>2. phase' = "rejected"
      BY <1>6 DEF Reject
    <2> QED BY <1>1, <1>2, <1>3, <1>4, <1>6, <2>1, <2>2, WalkedOn
  <1>7. CASE d \in Present /\ names' = Listing(d) /\ UNCHANGED phase
    <2>1. names' \in Seq(DOMAIN Tree) /\ ToSet(names') = Children(d)
      BY <1>1, <1>5, <1>7, ListingIs
    <2>2. Line = ToSet(stack) \cup ToSet(entries)
      BY <1>2 DEF Line, ToSet
    <2>3. Line' = Children(d) \cup ToSet(stack') \cup ToSet(entries)
      BY <1>2, <2>1 DEF Line
    <2>4. \A p \in Line' : Open(p)
      <3>1. \A p \in Children(d) : Open(p)
        BY <1>1, <1>3, <1>5, ChildrenOpen
      <3> QED BY <1>3, <1>4, <2>2, <2>3, <3>1
    <2>5. ASSUME gone = {}, NEW p \in Reachable PROVE \E q \in Line' : OnTheWay(q, p)
      <3>1. PICK q \in Line : OnTheWay(q, p)
        BY <1>4, <2>5
      <3>2. CASE q # d
        BY <1>3, <2>2, <2>3, <3>1, <3>2
      <3>3. CASE q = d
        <4>1. p \in Pathname
          BY <1>1, KnownPaths DEF Reachable
        <4>2. PICK n \in 1 .. Len(p) : d = SubSeq(p, 1, n)
          BY <3>1, <3>3 DEF OnTheWay
        <4>3. Len(p) \in Nat /\ p = SubSeq(p, 1, Len(p))
          BY <4>1, Ways
        <4>4. n # Len(p)
          <5>1. Target(d).kind = "folder"
            BY <1>5 DEF Target, Content, Folder
          <5>2. Target(p).kind # "folder"
            BY DEF Reachable
          <5> QED BY <4>2, <4>3, <5>1, <5>2
        <4>5. n \in Nat /\ n # 0 /\ n < Len(p)
          <5>1. \A m \in Nat : n \in 1 .. m /\ n # m => n \in Nat /\ n # 0 /\ n < m
            OBVIOUS
          <5> QED BY <4>3, <4>4, <5>1
        <4>6. SubSeq(p, 1, n + 1) \in Children(d) /\ OnTheWay(SubSeq(p, 1, n + 1), p)
          BY <1>1, <2>5, <4>2, <4>5, NextOnTheWay
        <4> QED BY <2>3, <4>6
      <3> QED BY <3>2, <3>3
    <2>6. entries' \in Seq(DOMAIN Tree) /\ phase' = "walk"
      BY <1>1, <1>2, <1>7 DEF Walking
    <2> QED BY <1>2, <1>3, <1>4, <2>1, <2>4, <2>5, <2>6, WalkedOn
  <1> QED BY <1>2, <1>6, <1>7

(* At the end of the walk the entries are the files.                       *)
LEMMA AllFound ==
  ASSUME Walked, gone = {}, phase = "walk", names = <<>>, stack = <<>>
  PROVE  ToSet(entries) = Reachable
  <1>1. /\ call \in Call /\ entries \in Seq(DOMAIN Tree) /\ ToSet(entries) \subseteq DOMAIN Tree
    BY SeqOfItsSet DEF Walked, Typed
  <1>2. Line = ToSet(entries)
    BY DEF Line, ToSet
  <1>3. ASSUME NEW p \in ToSet(entries) PROVE p \in Reachable
    BY <1>1, <1>2, <1>3 DEF Walked, Found, Open, Reachable
  <1>4. ASSUME NEW p \in Reachable PROVE p \in ToSet(entries)
    <2>1. PICK q \in ToSet(entries) : OnTheWay(q, p)
      BY <1>2, <1>4 DEF Walked, Covered
    <2>2. Target(q).kind # "folder"
      BY DEF Walked, Found
    <2>3. Tree[q] # Folder
      BY <2>2 DEF Target, Content, Folder
    <2> QED BY <1>1, <2>1, <2>3, NoWayThrough
  <1> QED BY <1>3, <1>4

(* Every step keeps what the walk has found.                               *)
LEMMA WalkedStep == Walked /\ [Next]_vars => Walked'
  <1> SUFFICES ASSUME Walked, [Next]_vars PROVE Walked'
    OBVIOUS
  <1>0. call \in Call /\ entries \in Seq(DOMAIN Tree) /\ results \in Seq(Piped)
    BY DEF Walked, Typed
  <1>1. CASE Begin
    BY <1>1, WalkedBegin
  <1>2. CASE Visit
    BY <1>2, WalkedVisit
  <1>3. CASE Descend
    BY <1>3, WalkedDescend
  <1>4. CASE Prepare
    <2>1. /\ phase = "walk" /\ names = <<>> /\ stack = <<>>
          /\ UNCHANGED <<call, gone, stack, names, entries>>
          /\ phase' \in {"done", "rejected", "expand"}
          /\ results' \in {results, [i \in DOMAIN Filtered |-> Pipeline(Filtered[i])]}
      BY <1>4 DEF Prepare, Walking, Reject
    <2>2. Filtered \in Seq(DOMAIN Tree)
      BY <1>0, FilteredIs DEF Filtered
    <2>3. [i \in DOMAIN Filtered |-> Pipeline(Filtered[i])] \in Seq(Piped)
      <3>1. /\ Len(Filtered) \in Nat /\ DOMAIN Filtered = 1 .. Len(Filtered)
            /\ \A i \in 1 .. Len(Filtered) : Filtered[i] \in DOMAIN Tree
        BY <2>2
      <3>2. \A i \in 1 .. Len(Filtered) : Pipeline(Filtered[i]) \in Piped
        BY <3>1 DEF Piped
      <3> QED BY <3>1, <3>2, SeqDef
    <2>4. gone = {} => ToSet(entries) = Reachable
      BY <2>1, AllFound
    <2> QED BY <1>0, <2>1, <2>3, <2>4, WalkedStays
  <1>5. CASE Expand
    <2>1. /\ phase = "expand" /\ results # <<>> /\ results' = Tail(results)
          /\ UNCHANGED <<call, gone, stack, names, entries>>
          /\ phase' \in {phase, "rejected"}
      BY <1>5 DEF Expand, Reject
    <2>2. results' \in Seq(Piped)
      BY <1>0, <2>1
    <2>3. gone = {} => ToSet(entries) = Reachable
      BY <2>1 DEF Walked, Covered
    <2> QED BY <2>1, <2>2, <2>3, WalkedStays
  <1>6. CASE Finish
    <2>1. gone = {} => ToSet(entries) = Reachable
      BY <1>6 DEF Finish, Walked, Covered
    <2> QED BY <1>0, <1>6, <2>1, WalkedStays DEF Finish
  <1>7. ASSUME NEW p \in DOMAIN Tree, Vanish(p) PROVE Walked'
    <2>1. p \in gone'
      <3>1. IsPrefix(p, p)
        BY <1>0, KnownPaths, Ways DEF IsPrefix
      <3> QED BY <1>7, <3>1 DEF Vanish
    <2>2. UNCHANGED <<call, phase, stack, names, entries, results>>
      BY <1>7 DEF Vanish
    <2>3. gone' # {}
      BY <2>1
    <2>4. gone = {} /\ phase' \in {"expand", "done"} => ToSet(entries) = Reachable
      BY <2>2 DEF Walked, Covered
    <2> QED BY <1>0, <2>2, <2>3, <2>4, WalkedStays
  <1>8. CASE UNCHANGED vars
    <2>1. UNCHANGED <<call, phase, stack, names, entries, results, gone>>
      BY <1>8 DEF vars
    <2>2. gone = {} /\ phase' \in {"expand", "done"} => ToSet(entries) = Reachable
      BY <2>1 DEF Walked, Covered
    <2> QED BY <1>0, <2>1, <2>2, WalkedStays
  <1> QED BY <1>1, <1>2, <1>3, <1>4, <1>5, <1>6, <1>7, <1>8 DEF Next

-----------------------------------------------------------------------------
(* The invariant of the directives.                                        *)

Rendered(d) ==
  /\ ~Last(d.dest).template
  /\ Last(d.source).template /\ d.source \notin DOMAIN call.rename =>
       d.size = Target(d.source).size /\ Target(d.source).text

(* What is buffered, then what is left to be: sources with destinations.   *)
Plan == [i \in 1 .. Len(Buffered) + Len(results) |->
           LET d == IF i <= Len(Buffered) THEN Buffered[i] ELSE results[i - Len(Buffered)]
           IN <<d.source, Normalized(d.dest)>>]

Own ==
  /\ batches \in Seq(ToSet(batches)) /\ pending \in Seq(ToSet(pending))
  /\ Buffered \in Seq(ToSet(Buffered))
  /\ \A d \in ToSet(Buffered) : Rendered(d)

Planned ==
  /\ phase \in {"begin", "walk"} => Buffered = <<>> /\ results = <<>>
  /\ phase \in {"expand", "done"} =>
       /\ {Plan[i][1] : i \in DOMAIN Plan} = ToSet(entries) \cap call.keep
       /\ \A i, j \in DOMAIN Plan : i # j => Plan[i][1] # Plan[j][1] /\ Plan[i][2] # Plan[j][2]
  /\ phase = "done" => results = <<>>

(* What the pipeline makes of a path.                                      *)
LEMMA PipelineIs ==
  ASSUME call \in Call, NEW p \in DOMAIN Tree
  PROVE  LET r == Pipeline(p)
         IN /\ r.source = p /\ p # <<>> /\ ~Last(r.dest).template
            /\ p \notin DOMAIN call.rename => r.template = Last(p).template
  <1> DEFINE N == [stem: Nat, template: BOOLEAN]
             renamed == IF p \in DOMAIN call.rename THEN call.rename[p] ELSE p
             dest == [renamed EXCEPT ![Len(renamed)].template = FALSE]
  <1>1. p \in Pathname /\ renamed \in Pathname
    BY KnownPaths
  <1>2. renamed \in Seq(N) /\ renamed # <<>> /\ p # <<>>
    BY <1>1 DEF Pathname
  <1>3. ~Last(dest).template
    <2> HIDE DEF renamed, N
    <2>1. Len(renamed) \in 1 .. Len(renamed) /\ DOMAIN renamed = 1 .. Len(renamed) /\ Len(renamed) \in Nat
          /\ renamed[Len(renamed)] \in N
      BY <1>2
    <2>2. DOMAIN dest = 1 .. Len(renamed) /\ dest[Len(renamed)] = [renamed[Len(renamed)] EXCEPT !.template = FALSE]
      BY <2>1
    <2>3. "template" \in DOMAIN renamed[Len(renamed)]
      BY <2>1 DEF N
    <2>4. dest[Len(renamed)].template = FALSE
      BY <2>2, <2>3
    <2>5. Len(dest) = Len(renamed)
      <3> HIDE DEF dest
      <3> QED BY <2>1, <2>2
    <2> QED BY <2>4, <2>5 DEF Last
  <1>4. Pipeline(p) = [source |-> p, dest |-> dest, template |-> Last(renamed).template]
    BY DEF Pipeline
  <1>5. p \notin DOMAIN call.rename => renamed = p
    OBVIOUS
  <1> HIDE DEF dest, renamed
  <1> QED BY <1>2, <1>3, <1>4, <1>5

(* The directive of a file that is not refused.                            *)
LEMMA DirectiveIs ==
  ASSUME call \in Call, NEW r \in Piped, Classify(r) # "rejected"
  PROVE  /\ Directive(r).source = r.source /\ Directive(r).dest = r.dest
         /\ r.source # <<>> /\ Rendered(Directive(r))
  <1>1. PICK p \in DOMAIN Tree : r = Pipeline(p)
    BY DEF Piped
  <1>2. /\ r.source = p /\ p # <<>> /\ ~Last(r.dest).template
        /\ p \notin DOMAIN call.rename => r.template = Last(p).template
    BY <1>1, PipelineIs
  <1>3. /\ Directive(r).source = r.source /\ Directive(r).dest = r.dest
        /\ Directive(r).size = IF Classify(r) = "by-value" THEN Target(r.source).size ELSE CopyInSize
    BY DEF Directive
  <1>4. r.template => Classify(r) = "by-value" /\ Target(r.source).text
    BY DEF Classify
  <1> QED BY <1>2, <1>3, <1>4 DEF Rendered

(* Nothing is planned before the walk.                                     *)
LEMMA PlannedInit == Init => Own /\ Planned
  <1> SUFFICES ASSUME Init PROVE Own /\ Planned
    OBVIOUS
  <1>1. pending \in Seq([source: {<<>>}, dest: {<<>>}, size: Nat])
    BY ScaffoldAssumption DEF Init
  <1>2. batches = <<>> /\ results = <<>> /\ phase = "begin"
    BY DEF Init
  <1>3. Buffered = <<>>
    BY <1>1, <1>2, NothingBuffered DEF Buffered
  <1>4. pending \in Seq(ToSet(pending))
    BY <1>1, SeqOfItsSet
  <1>5. <<>> \in Seq(ToSet(<<>>)) /\ ToSet(<<>>) = {}
    BY DEF ToSet
  <1>6. Own
    BY <1>2, <1>3, <1>4, <1>5 DEF Own
  <1>7. Planned
    BY <1>2, <1>3 DEF Planned
  <1> QED BY <1>6, <1>7

(* Where nothing is buffered, only the phase may end the plan.             *)
LEMMA PlannedStays ==
  ASSUME Own, Planned, UNCHANGED <<call, entries, results, pending, batches>>,
         phase' \in {"begin", "walk"} => phase \in {"begin", "walk"},
         phase' \in {"expand", "done"} => phase \in {"expand", "done"},
         phase' = "done" => results = <<>>
  PROVE  Own' /\ Planned'
  <1>1. Buffered' = Buffered
    BY DEF Buffered
  <1>2. Own'
    BY <1>1 DEF Own, Rendered, Target, Tree
  <1>3. Plan' = Plan
    BY <1>1 DEF Plan
  <1>4. Planned'
    BY <1>1, <1>3 DEF Planned
  <1> QED BY <1>2, <1>4

(* What is planned is what the filters keep, and the pipeline does not     *)
(* take two sources to one destination.                                    *)
LEMMA PlannedPrepare ==
  ASSUME Walked, Own, Planned, Prepare
  PROVE  Own' /\ Planned'
  <1> DEFINE rs == [i \in DOMAIN Filtered |-> Pipeline(Filtered[i])]
  <1>1. call \in Call /\ entries \in Seq(DOMAIN Tree) /\ results \in Seq(Piped)
    BY DEF Walked, Typed
  <1>2. Filtered \in Seq(DOMAIN Tree) /\ ToSet(Filtered) = ToSet(entries) \cap call.keep
    BY <1>1, FilteredIs DEF Filtered
  <1>3. Buffered = <<>> /\ results = <<>>
    BY DEF Prepare, Walking, Planned
  <1>4. UNCHANGED <<call, entries, pending, batches>> /\ phase = "walk"
    BY DEF Prepare, Walking
  <1>5. Buffered' = <<>>
    BY <1>3, <1>4 DEF Buffered
  <1>6. Own'
    BY <1>3, <1>4, <1>5 DEF Own, Rendered, Target, Tree
  <1>7. CASE entries = <<>> /\ phase' = "done" /\ UNCHANGED results
    <2>1. results' = <<>> /\ ToSet(entries) = {}
      BY <1>3, <1>7 DEF ToSet
    <2>2. DOMAIN Plan' = {}
      <3>1. Len(Buffered') + Len(results') = 0
        BY <1>5, <2>1
      <3> QED BY <3>1 DEF Plan
    <2>3. ToSet(entries') \cap call'.keep = {}
      BY <1>4, <2>1
    <2>4. {(Plan')[i][1] : i \in DOMAIN Plan'} = {}
      BY <2>2
    <2> QED BY <1>6, <1>7, <2>1, <2>2, <2>3, <2>4 DEF Planned
  <1>8. CASE Reject("rejected")
    BY <1>6, <1>8 DEF Planned, Reject
  <1>9. CASE phase' = "expand" /\ results' = rs /\ ~Collides(rs)
    <2>1. Len(Filtered) \in Nat /\ DOMAIN Filtered = 1 .. Len(Filtered)
          /\ \A i \in 1 .. Len(Filtered) : Filtered[i] \in DOMAIN Tree
      BY <1>2
    <2>2. DOMAIN rs = 1 .. Len(Filtered) /\ Len(rs) = Len(Filtered)
      BY <2>1
    <2>3. \A i \in 1 .. Len(Filtered) : rs[i] = Pipeline(Filtered[i]) /\ rs[i].source = Filtered[i]
      BY <1>1, <2>1, PipelineIs
    <2> HIDE DEF rs
    <2>4. /\ DOMAIN Plan' = 1 .. Len(Filtered)
          /\ \A i \in 1 .. Len(Filtered) : (Plan')[i] = <<Filtered[i], Normalized(rs[i].dest)>>
      <3>1. Len(Buffered') = 0 /\ 0 + Len(results') = Len(Filtered)
        BY <1>5, <1>9, <2>1, <2>2
      <3>2. \A i \in 1 .. Len(Filtered) : ~(i <= 0) /\ i - 0 = i
        BY <2>1
      <3>3. Plan' = [i \in 1 .. 0 + Len(results') |->
                       LET d == IF i <= 0 THEN Buffered'[i] ELSE results'[i - 0]
                       IN <<d.source, Normalized(d.dest)>>]
        BY <3>1 DEF Plan
      <3> QED BY <1>9, <2>3, <3>1, <3>2, <3>3
    <2>5. {(Plan')[i][1] : i \in DOMAIN Plan'} = ToSet(entries') \cap call'.keep
      <3>1. {(Plan')[i][1] : i \in DOMAIN Plan'} = {Filtered[i] : i \in 1 .. Len(Filtered)}
        BY <2>4
      <3>2. {Filtered[i] : i \in 1 .. Len(Filtered)} = ToSet(Filtered)
        BY <2>1 DEF ToSet
      <3> QED BY <1>2, <1>4, <3>1, <3>2
    <2>6. ASSUME NEW i \in DOMAIN Plan', NEW j \in DOMAIN Plan', i # j
          PROVE  (Plan')[i][1] # (Plan')[j][1] /\ (Plan')[i][2] # (Plan')[j][2]
      <3>1. i \in 1 .. Len(Filtered) /\ j \in 1 .. Len(Filtered)
        BY <2>4
      <3>2. Normalized(rs[i].dest) # Normalized(rs[j].dest)
        BY <1>9, <2>2, <2>6, <3>1 DEF Collides
      <3>3. Filtered[i] # Filtered[j]
        BY <2>3, <3>1, <3>2
      <3> QED BY <2>4, <3>1, <3>2, <3>3
    <2> QED BY <1>6, <1>9, <2>5, <2>6 DEF Planned
  <1> QED BY <1>7, <1>8, <1>9 DEF Prepare

(* The next file moves from what is left to what is buffered.              *)
LEMMA PlannedExpand ==
  ASSUME Walked, Own, Planned, Expand
  PROVE  Own' /\ Planned'
  <1> DEFINE r == Head(results)
             d == Directive(r)
  <1>1. call \in Call /\ results \in Seq(Piped)
    BY DEF Walked, Typed
  <1>2. phase = "expand" /\ results # <<>> /\ results' = Tail(results) /\ UNCHANGED <<call, entries>>
    BY DEF Expand
  <1>3. r \in Piped
    BY <1>1, <1>2
  <1>4. CASE Reject("rejected") /\ UNCHANGED <<pending, counted, batches>>
    <2>1. Buffered' = Buffered
      BY <1>4 DEF Buffered
    <2>2. Own'
      BY <1>2, <1>4, <2>1 DEF Own, Rendered, Target, Tree
    <2>3. Planned'
      BY <1>4 DEF Planned, Reject
    <2> QED BY <2>2, <2>3
  <1>5. CASE Classify(r) # "rejected" /\ ChunkAndBuffer(d) /\ UNCHANGED phase
    <2>1. d.source = r.source /\ d.dest = r.dest /\ d.source # <<>> /\ Rendered(d)
      BY <1>1, <1>3, <1>5, DirectiveIs
    <2> HIDE DEF d
    <2>2. batches \in Seq(ToSet(batches)) /\ pending \in Seq(ToSet(pending))
          /\ Buffered \in Seq(ToSet(Buffered)) /\ \A e \in ToSet(Buffered) : Rendered(e)
      BY DEF Own
    <2>3. /\ Buffered' = Append(Buffered, d)
          /\ batches' \in Seq(ToSet(batches')) /\ pending' \in Seq(ToSet(pending'))
      <3>1. CASE batches' = Append(batches, pending) /\ pending' = <<d>>
        <4>1. <<d>> \in Seq(ToSet(<<d>>))
          <5>1. <<d>> \in Seq({d})
            OBVIOUS
          <5> QED BY <5>1, SeqOfItsSet
        <4>3. Buffered' = Append(Buffered, d)
          BY <2>1, <2>2, <3>1, NewChunk, BufferedFolds
        <4>4. batches' \in Seq(ToSet(batches'))
          BY <2>2, <3>1, LongerSet
        <4> QED BY <3>1, <4>1, <4>3, <4>4
      <3>2. CASE UNCHANGED batches /\ pending' = Append(pending, d)
        <4>2. Buffered' = Append(Buffered, d)
          BY <2>1, <2>2, <3>2, SameChunk, BufferedFolds, SMTT(20)
        <4>3. pending' \in Seq(ToSet(pending'))
          BY <2>2, <3>2, LongerSet
        <4> QED BY <2>2, <3>2, <4>2, <4>3
      <3> QED BY <1>5, <3>1, <3>2 DEF ChunkAndBuffer
    <2>4. /\ Buffered' \in Seq(ToSet(Buffered')) /\ ToSet(Buffered') = ToSet(Buffered) \cup {d}
          /\ Len(Buffered') = Len(Buffered) + 1 /\ Len(Buffered) \in Nat
          /\ (Buffered')[Len(Buffered) + 1] = d
          /\ \A i \in 1 .. Len(Buffered) : (Buffered')[i] = Buffered[i]
      <3>1. Buffered' \in Seq(ToSet(Buffered')) /\ ToSet(Buffered') = ToSet(Buffered) \cup {d}
        BY <2>2, <2>3, LongerSet
      <3>2. ASSUME NEW b, b \in Seq(ToSet(b)), NEW c, c = Append(b, d)
            PROVE  /\ Len(c) = Len(b) + 1 /\ Len(b) \in Nat /\ c[Len(b) + 1] = d
                   /\ \A i \in 1 .. Len(b) : c[i] = b[i]
        <4>1. b \in Seq(ToSet(b) \cup {d})
          BY <3>2
        <4> QED BY <3>2, <4>1
      <3> QED BY <2>2, <2>3, <3>1, <3>2
    <2>5. Own'
      <3>1. \A e \in ToSet(Buffered') : Rendered(e)
        BY <2>1, <2>2, <2>4
      <3> QED BY <1>2, <2>3, <2>4, <3>1 DEF Own, Rendered, Target, Tree
    <2>6. /\ Len(results) \in Nat \ {0} /\ Len(results') = Len(results) - 1 /\ r = results[1]
          /\ \A i \in 1 .. Len(results) - 1 : (results')[i] = results[i + 1]
      BY <1>1, <1>2
    <2> HIDE DEF r
    <2>7. Plan' = Plan
      <3> DEFINE m == Len(Buffered)
                 n == Len(results)
      <3>1. m \in Nat /\ n \in Nat \ {0} /\ Len(Buffered') = m + 1 /\ Len(results') = n - 1
            /\ (m + 1) + (n - 1) = m + n
        BY <2>4, <2>6
      <3>2. ASSUME NEW i \in 1 .. m + n
            PROVE  LET e == IF i <= m + 1 THEN (Buffered')[i] ELSE (results')[i - (m + 1)]
                       f == IF i <= m THEN Buffered[i] ELSE results[i - m]
                   IN e.source = f.source /\ e.dest = f.dest
        <4>1. CASE i <= m
          <5>1. i \in 1 .. m /\ i <= m + 1
            BY <3>1, <4>1
          <5> QED BY <2>4, <4>1, <5>1
        <4>2. CASE i = m + 1
          <5>1. ~(i <= m) /\ i <= m + 1 /\ i - m = 1
            BY <3>1, <4>2
          <5> QED BY <2>1, <2>4, <2>6, <4>2, <5>1
        <4>3. CASE ~(i <= m + 1)
          <5>1. ~(i <= m) /\ i - (m + 1) \in 1 .. n - 1 /\ (i - (m + 1)) + 1 = i - m
            BY <3>1, <4>3
          <5> QED BY <2>6, <4>3, <5>1
        <4> QED BY <3>1, <4>1, <4>2, <4>3
      <3>3. Plan' = [i \in 1 .. m + n |->
                       LET e == IF i <= m + 1 THEN (Buffered')[i] ELSE (results')[i - (m + 1)]
                       IN <<e.source, Normalized(e.dest)>>]
        BY <3>1 DEF Plan
      <3>4. Plan = [i \in 1 .. m + n |->
                      LET f == IF i <= m THEN Buffered[i] ELSE results[i - m]
                      IN <<f.source, Normalized(f.dest)>>]
        BY DEF Plan
      <3> HIDE DEF m, n
      <3> QED BY <3>2, <3>3, <3>4
    <2>8. Planned'
      BY <1>2, <1>5, <2>7 DEF Planned
    <2> QED BY <2>5, <2>8
  <1> QED BY <1>4, <1>5 DEF Expand

(* Every step keeps the plan.                                              *)
LEMMA PlannedStep == Walked /\ Own /\ Planned /\ [Next]_vars => Own' /\ Planned'
  <1> SUFFICES ASSUME Walked, Own, Planned, [Next]_vars PROVE Own' /\ Planned'
    OBVIOUS
  <1>1. CASE Begin
    BY <1>1, PlannedStays DEF Begin, Reject
  <1>2. CASE Visit
    <2>1. /\ UNCHANGED <<call, results, pending, batches>> /\ phase = "walk"
          /\ phase' \in {"walk", "rejected"}
      BY <1>2 DEF Visit, Enumerate, Walking, Reject
    <2>2. Buffered' = Buffered
      BY <2>1 DEF Buffered
    <2>3. Own'
      BY <2>1, <2>2 DEF Own, Rendered, Target, Tree
    <2>4. Planned'
      BY <2>1, <2>2 DEF Planned
    <2> QED BY <2>3, <2>4
  <1>3. CASE Descend
    BY <1>3, PlannedStays DEF Descend, Walking, Reject
  <1>4. CASE Prepare
    BY <1>4, PlannedPrepare
  <1>5. CASE Expand
    BY <1>5, PlannedExpand
  <1>6. CASE Finish
    BY <1>6, PlannedStays DEF Finish
  <1>7. ASSUME NEW p \in DOMAIN Tree, Vanish(p) PROVE Own' /\ Planned'
    <2>1. UNCHANGED <<call, phase, entries, results, pending, batches>>
      BY <1>7 DEF Vanish
    <2> QED BY <2>1, PlannedStays DEF Planned
  <1>8. CASE UNCHANGED vars
    BY <1>8, PlannedStays DEF vars, Planned
  <1> QED BY <1>1, <1>2, <1>3, <1>4, <1>5, <1>6, <1>7, <1>8 DEF Next

(* Whatever the folder holds: a call that succeeds on a folder nobody      *)
(* touches has buffered one directive for every file it could reach and    *)
(* the filters keep, for nothing else, and no two for one destination;     *)
(* and whether it succeeds or not, what is marked as a template is         *)
(* rendered, not copied, and its mark is not part of a destination.        *)
THEOREM FilesOnce == Spec => []EveryFileOnce
  <1>1. Walked /\ Own /\ Planned => EveryFileOnce
    <2> SUFFICES ASSUME Walked, Own, Planned PROVE EveryFileOnce
      OBVIOUS
    <2>1. ASSUME phase = "done", gone = {}
          PROVE  /\ {Buffered[i].source : i \in DOMAIN Buffered} = Reachable \cap call.keep
                 /\ \A i, j \in DOMAIN Buffered : i # j =>
                      /\ Buffered[i].source # Buffered[j].source
                      /\ Normalized(Buffered[i].dest) # Normalized(Buffered[j].dest)
      <3>1. results = <<>> /\ ToSet(entries) = Reachable
        BY <2>1 DEF Planned, Walked, Covered
      <3>2. Len(Buffered) \in Nat /\ DOMAIN Buffered = 1 .. Len(Buffered)
        BY DEF Own
      <3>3. /\ DOMAIN Plan = DOMAIN Buffered
            /\ \A i \in DOMAIN Buffered : Plan[i] = <<Buffered[i].source, Normalized(Buffered[i].dest)>>
        <4>1. Len(Buffered) + Len(results) = Len(Buffered)
          BY <3>1, <3>2
        <4>2. \A i \in 1 .. Len(Buffered) : i <= Len(Buffered)
          BY <3>2
        <4> QED BY <3>2, <4>1, <4>2 DEF Plan
      <3>4. /\ {Plan[i][1] : i \in DOMAIN Plan} = ToSet(entries) \cap call.keep
            /\ \A i, j \in DOMAIN Plan : i # j => Plan[i][1] # Plan[j][1] /\ Plan[i][2] # Plan[j][2]
        BY <2>1 DEF Planned
      <3>5. {Buffered[i].source : i \in DOMAIN Buffered} = {Plan[i][1] : i \in DOMAIN Plan}
        BY <3>3
      <3>6. \A i \in DOMAIN Buffered : /\ Plan[i][1] = Buffered[i].source
                                      /\ Plan[i][2] = Normalized(Buffered[i].dest)
        BY <3>3
      <3>7. {Buffered[i].source : i \in DOMAIN Buffered} = Reachable \cap call.keep
        BY <3>1, <3>4, <3>5
      <3>8. \A i, j \in DOMAIN Buffered : i # j =>
              /\ Buffered[i].source # Buffered[j].source
              /\ Normalized(Buffered[i].dest) # Normalized(Buffered[j].dest)
        BY <3>3, <3>4, <3>6
      <3> QED BY <3>7, <3>8
    <2>2. \A d \in ToSet(Buffered) : Rendered(d)
      BY DEF Own
    <2> QED BY <2>1, <2>2 DEF EveryFileOnce, Rendered
  <1>2. Init => Walked /\ Own /\ Planned
    BY WalkedInit, PlannedInit
  <1>3. Walked /\ Own /\ Planned /\ [Next]_vars => Walked' /\ Own' /\ Planned'
    BY WalkedStep, PlannedStep
  <1> QED BY <1>1, <1>2, <1>3, PTL DEF Spec

==============================================================================
