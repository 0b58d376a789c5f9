---------------------------- MODULE MemoryProofs ----------------------------
(***************************************************************************)
(* Proofs about Memory and PhysMem, for any word size, bitmap length,      *)
(* number of threads, processes and regions, any place of the kernel, any  *)
(* sizes of regions and any well-formed executables.                       *)
(***************************************************************************)
EXTENDS Memory, FiniteSetTheorems, WellFoundedInduction, TLAPS

-----------------------------------------------------------------------------
(* Numbers and sets of numbers *)

(* The natural numbers are well ordered. *)
LEMMA LeastExists ==
  ASSUME NEW T \in SUBSET Nat, T # {}
  PROVE  \E x \in T : \A y \in T : x <= y
<1> DEFINE R == OpToRel(<, Nat)
<1>1. IsWellFoundedOn(R, Nat)
  BY NatLessThanWellFounded
<1>2. \A x, y \in Nat : y < x => <<y, x>> \in R
  BY DEF OpToRel
<1> HIDE DEF R
<1>3. PICK x \in T : \A y \in T : ~(<<y, x>> \in R)
  BY <1>1, WFMin
<1>4. ASSUME NEW y \in T PROVE x <= y
  <2>1. x \in Nat /\ y \in Nat
    OBVIOUS
  <2>2. ~(<<y, x>> \in R)
    BY <1>3
  <2>3. ~(y < x)
    BY <1>2, <2>1, <2>2, Zenon
  <2> QED
    BY <2>1, <2>3
<1> QED
  BY <1>4

LEMMA MinIs ==
  ASSUME NEW T \in SUBSET Nat, T # {}
  PROVE  Min(T) \in T /\ \A y \in T : Min(T) <= y
<1> DEFINE Least(x) == x \in T /\ \A y \in T : x <= y
<1>1. PICK x : Least(x)
  BY LeastExists
<1> HIDE DEF Least
<1>2. Least(CHOOSE y : Least(y))
  BY <1>1, Zenon
<1>3. Min(T) = CHOOSE y : Least(y)
  BY DEF Min, Least
<1> QED
  BY <1>2, <1>3 DEF Least

(* A bounded set of numbers has a greatest element. *)
LEMMA MaxIs ==
  ASSUME NEW n \in Nat, NEW T \in SUBSET (0 .. n), T # {}
  PROVE  Max(T) \in T /\ \A y \in T : Max(T) >= y
<1> DEFINE U == {n - x : x \in T}
           Greatest(x) == x \in T /\ \A y \in T : x >= y
<1>1. U \in SUBSET Nat /\ U # {}
  <2>1. \A x \in T : n - x \in Nat
    OBVIOUS
  <2> QED
    BY <2>1, Zenon
<1>2. PICK u \in U : \A v \in U : u <= v
  BY <1>1, LeastExists
<1>3. PICK x \in T : u = n - x
  BY <1>2
<1>4. ASSUME NEW y \in T PROVE x >= y
  <2>1. n - y \in U
    OBVIOUS
  <2>2. n - x <= n - y
    BY <1>2, <1>3, <2>1
  <2> QED
    BY <2>2
<1>5. Greatest(x)
  BY <1>4
<1> HIDE DEF Greatest
<1>6. Greatest(CHOOSE y : Greatest(y))
  BY <1>5, Zenon
<1>7. Max(T) = CHOOSE y : Greatest(y)
  BY DEF Max, Greatest
<1> QED
  BY <1>6, <1>7 DEF Greatest

(* A finite set of numbers is bounded. *)
LEMMA Bounded ==
  ASSUME NEW T \in SUBSET Nat, IsFiniteSet(T)
  PROVE  \E n \in Nat : T \subseteq 0 .. n
<1> DEFINE Unbounded(U) ==
             U \in SUBSET Nat /\ IsFiniteSet(U) /\ \A n \in Nat : ~(U \subseteq 0 .. n)
           Sizes == {c \in Nat : \E U : Unbounded(U) /\ Cardinality(U) = c}
<1> SUFFICES ASSUME Unbounded(T) PROVE FALSE
  OBVIOUS
<1>1. Cardinality(T) \in Sizes
  BY FS_CardinalityType
<1> HIDE DEF Unbounded
<1>2. PICK c \in Sizes : \A d \in Sizes : c <= d
  BY <1>1, LeastExists
<1>3. PICK U : Unbounded(U) /\ Cardinality(U) = c
  BY <1>2
<1>4. U \in SUBSET Nat /\ IsFiniteSet(U) /\ \A n \in Nat : ~(U \subseteq 0 .. n)
  BY <1>3 DEF Unbounded
<1>5. U # {}
  <2>1. 0 \in Nat /\ ~(U \subseteq 0 .. 0)
    BY <1>4
  <2> QED
    BY <2>1
<1>6. PICK x \in U : TRUE
  BY <1>5
<1> DEFINE V == U \ {x}
<1>7. IsFiniteSet(V) /\ Cardinality(V) = c - 1
  BY <1>3, <1>4, FS_RemoveElement
<1>8. Cardinality(V) \in Nat /\ ~(c <= c - 1)
  BY <1>7, FS_CardinalityType
<1>9. ~Unbounded(V)
  BY <1>2, <1>7, <1>8
<1>10. PICK n \in Nat : V \subseteq 0 .. n
  BY <1>4, <1>7, <1>9 DEF Unbounded
<1>11. x \in Nat /\ n + x \in Nat
  BY <1>4
<1>12. U \subseteq 0 .. n + x
  BY <1>4, <1>10, <1>11
<1> QED
  BY <1>4, <1>11, <1>12

(* Division rounds down. *)
LEMMA DivMod ==
  ASSUME NEW a \in Nat, NEW d \in Nat \ {0}
  PROVE  a \div d \in Nat /\ a % d \in 0 .. d - 1 /\ a = d * (a \div d) + (a % d)
<1>1. a \div d \in Nat /\ a % d \in 0 .. d - 1
  OBVIOUS
<1>2. a = d * (a \div d) + (a % d)
  OBVIOUS
<1> QED
  BY <1>1, <1>2

LEMMA DivUnique ==
  ASSUME NEW q \in Nat, NEW d \in Nat \ {0}, NEW r \in 0 .. d - 1
  PROVE  (d * q + r) \div d = q /\ (d * q + r) % d = r
  OBVIOUS

LEMMA DivStep ==
  ASSUME NEW a \in Nat, NEW d \in Nat \ {0}
  PROVE  (a + d) \div d = a \div d + 1
<1>1. (a + d * 1) \div d = a \div d + 1
  OBVIOUS
<1> QED
  BY <1>1

LEMMA TimesMonotone ==
  ASSUME NEW a \in Nat, NEW b \in Nat, NEW d \in Nat, a <= b
  PROVE  a * d \in Nat /\ b * d \in Nat /\ a * d <= b * d
  OBVIOUS

-----------------------------------------------------------------------------
(* The bitmap *)

(* Block x of word i is free of the words before it. *)
LEMMA WordStart ==
  ASSUME NEW i \in Nat
  PROVE  i * W \in Nat /\ (i + 1) * W = i * W + W
  BY PhysAssumption

(* n blocks fit from word i on. *)
Fits(bm, i, n) == i + n \div W < Words /\ Run(i * W, n) \cap bm = {}

(* The first place for n blocks that is not before word i. *)
FitFrom(bm, i, n) ==
  LET fits == {j \in i .. Words - 1 : Fits(bm, j, n)}
  IN IF fits = {} THEN NoBlock ELSE W * Min(fits)

LEMMA FitFromHere ==
  ASSUME NEW bm, NEW i \in Nat, NEW n \in Nat, Fits(bm, i, n)
  PROVE  FitFrom(bm, i, n) = i * W
<1> DEFINE fits == {j \in i .. Words - 1 : Fits(bm, j, n)}
<1>1. n \div W \in Nat
  BY PhysAssumption
<1>2. i \in fits
  BY <1>1, PhysAssumption DEF Fits
<1>3. fits \in SUBSET Nat
  OBVIOUS
<1>4. Min(fits) \in fits /\ Min(fits) <= i
  BY <1>2, <1>3, MinIs
<1>5. Min(fits) = i
  BY <1>4
<1> HIDE DEF fits
<1>6. W * i = i * W
  BY PhysAssumption
<1> QED
  BY <1>2, <1>5, <1>6 DEF FitFrom, fits

LEMMA FitFromNext ==
  ASSUME NEW bm, NEW i \in Nat, NEW n \in Nat, ~Fits(bm, i, n)
  PROVE  FitFrom(bm, i, n) = FitFrom(bm, i + 1, n)
<1>1. {j \in i .. Words - 1 : Fits(bm, j, n)} = {j \in i + 1 .. Words - 1 : Fits(bm, j, n)}
  <2>1. \A j \in i .. Words - 1 : j = i \/ j \in i + 1 .. Words - 1
    BY PhysAssumption
  <2>2. \A j \in i + 1 .. Words - 1 : j \in i .. Words - 1
    BY PhysAssumption
  <2> QED
    BY <2>1, <2>2
<1> QED
  BY <1>1 DEF FitFrom

(* What the scan returns at word i, when the run it follows began at word   *)
(* start and needs icnt more blocks.                                        *)
Found(bm, n, i, start, icnt) ==
  IF Fits(bm, i, icnt) THEN start * W ELSE FitFrom(bm, i + 1, n)

LEMMA FoundAtOnce ==
  ASSUME NEW bm, NEW i \in Nat, NEW n \in Nat
  PROVE  Found(bm, n, i, i, n) = FitFrom(bm, i, n)
  BY FitFromHere, FitFromNext DEF Found

LEMMA RunSplit ==
  ASSUME NEW b \in Int, NEW m \in Nat, NEW n \in Nat, m <= n
  PROVE  /\ Run(b, n) = Run(b, m) \cup Run(b + m, n - m)
         /\ Run(b, m) \subseteq Run(b, n)
  BY DEF Run

(* A free word is followed by the rest of the run. *)
LEMMA FitsStep ==
  ASSUME NEW bm, NEW i \in Nat, NEW n \in Nat, n >= W, Word(i) \cap bm = {}
  PROVE  Fits(bm, i, n) <=> Fits(bm, i + 1, n - W)
<1>1. i * W \in Nat /\ (i + 1) * W = i * W + W /\ W \in Nat
  BY WordStart, PhysAssumption
<1>2. Run(i * W, n) = Word(i) \cup Run((i + 1) * W, n - W)
  BY <1>1, RunSplit DEF Word
<1>3. n \div W = (n - W) \div W + 1
  <2> DEFINE m == n - W
  <2>1. m \in Nat /\ n = m + W
    BY <1>1
  <2> HIDE DEF m
  <2>2. (m + W) \div W = m \div W + 1
    BY <2>1, DivStep, PhysAssumption
  <2> QED
    BY <2>1, <2>2 DEF m
<1>4. (n - W) \div W \in Nat
  BY <1>1, DivMod, PhysAssumption
<1>5. i + n \div W = (i + 1) + (n - W) \div W
  BY <1>3, <1>4
<1> QED
  BY <1>2, <1>5 DEF Fits

LEMMA FitsLess ==
  ASSUME NEW bm, NEW i \in Nat, NEW m \in Nat, NEW n \in Nat, m <= n, Fits(bm, i, n)
  PROVE  Fits(bm, i, m)
<1>1. i * W \in Nat
  BY PhysAssumption
<1>2. Run(i * W, m) \subseteq Run(i * W, n)
  BY <1>1, RunSplit
<1>3. m \div W <= n \div W /\ m \div W \in Nat /\ n \div W \in Nat
  BY PhysAssumption
<1> QED
  BY <1>2, <1>3, PhysAssumption DEF Fits

(* One iteration of the scan. *)
FoundNext(bm, n, i, start, icnt) ==
  IF i = Words THEN NoBlock
  ELSE IF icnt >= W
  THEN IF Word(i) \cap bm # {} THEN Found(bm, n, i + 1, i + 1, n)
       ELSE Found(bm, n, i + 1, start, icnt - W)
  ELSE IF Run(i * W, icnt) \cap bm # {} THEN Found(bm, n, i + 1, i + 1, n)
       ELSE start * W

(* Found solves the equation of the scan. *)
LEMMA FoundStep ==
  ASSUME NEW bm, NEW n \in Nat, NEW i \in 0 .. Words, NEW start \in 0 .. Words, NEW icnt \in 0 .. n
  PROVE  Found(bm, n, i, start, icnt) = FoundNext(bm, n, i, start, icnt)
<1>0. W \in Nat \ {0} /\ Words \in Nat \ {0} /\ i \in Nat /\ icnt \in Nat /\ i + 1 \in Nat
  BY PhysAssumption
<1>1. i * W \in Nat /\ icnt \div W \in Nat
  BY <1>0
<1>2. Found(bm, n, i + 1, i + 1, n) = FitFrom(bm, i + 1, n)
  BY <1>0, FoundAtOnce
<1>3. CASE i = Words
  <2>1. ~Fits(bm, i, icnt)
    BY <1>0, <1>1, <1>3 DEF Fits
  <2>2. i + 1 .. Words - 1 = {}
    BY <1>0, <1>3
  <2>3. FitFrom(bm, i + 1, n) = NoBlock
    BY <2>2 DEF FitFrom
  <2> QED
    BY <1>3, <2>1, <2>3 DEF Found, FoundNext
<1>4. CASE i # Words /\ icnt >= W /\ Word(i) \cap bm # {}
  <2>1. Word(i) \subseteq Run(i * W, icnt)
    BY <1>0, <1>1, <1>4, RunSplit DEF Word
  <2>2. ~Fits(bm, i, icnt)
    BY <1>4, <2>1 DEF Fits
  <2> QED
    BY <1>2, <1>4, <2>2 DEF Found, FoundNext
<1>5. CASE i # Words /\ icnt >= W /\ Word(i) \cap bm = {}
  <2>1. Fits(bm, i, icnt) <=> Fits(bm, i + 1, icnt - W)
    BY <1>0, <1>5, FitsStep
  <2>2. CASE Fits(bm, i, icnt)
    BY <1>5, <2>1, <2>2 DEF Found, FoundNext
  <2>3. CASE ~Fits(bm, i, icnt)
    <3>1. icnt - W \in Nat /\ icnt - W <= n
      BY <1>0, <1>5
    <3>2. ~Fits(bm, i + 1, n)
      BY <1>0, <2>1, <2>3, <3>1, FitsLess
    <3>3. FitFrom(bm, i + 1, n) = FitFrom(bm, (i + 1) + 1, n)
      BY <1>0, <3>2, FitFromNext
    <3> QED
      BY <1>5, <2>1, <2>3, <3>3 DEF Found, FoundNext
  <2> QED
    BY <2>2, <2>3
<1>6. CASE i # Words /\ ~(icnt >= W)
  <2>1. icnt \div W = 0 /\ i < Words
    BY <1>0, <1>6
  <2>2. Fits(bm, i, icnt) <=> Run(i * W, icnt) \cap bm = {}
    BY <1>0, <2>1 DEF Fits
  <2> QED
    BY <1>2, <1>6, <2>2 DEF Found, FoundNext
<1> QED
  BY <1>3, <1>4, <1>5, <1>6

(* The scan by words finds the first place that fits. *)
LEMMA ScanIsFirstFit ==
  ASSUME NEW bm, NEW n \in Nat
  PROVE  kpmm_find_free_region(bm, n) = FirstFit(bm, n)
<1> DEFINE Body(s, i, start, icnt) ==
             IF i = Words THEN NoBlock
             ELSE IF icnt >= W
             THEN IF Word(i) \cap bm # {} THEN s[i + 1][i + 1][n] ELSE s[i + 1][start][icnt - W]
             ELSE IF Run(i * W, icnt) \cap bm # {} THEN s[i + 1][i + 1][n] ELSE start * W
           Row(s, i) == [start \in 0 .. Words |-> [icnt \in 0 .. n |-> Body(s, i, start, icnt)]]
           F(s) == [i \in 0 .. Words |-> Row(s, i)]
           g == [i \in 0 .. Words |-> [start \in 0 .. Words |-> [icnt \in 0 .. n |->
                  Found(bm, n, i, start, icnt)]]]
           scan == CHOOSE s : s = F(s)
<1>0. W \in Nat \ {0} /\ Words \in Nat \ {0} /\ 0 \in 0 .. Words /\ n \in 0 .. n
  BY PhysAssumption
<1>1. g = F(g)
  <2>1. ASSUME NEW i \in 0 .. Words, NEW start \in 0 .. Words, NEW icnt \in 0 .. n
        PROVE  Found(bm, n, i, start, icnt) = Body(g, i, start, icnt)
    <3>0. Found(bm, n, i, start, icnt) = FoundNext(bm, n, i, start, icnt)
      BY FoundStep
    <3>1. CASE i = Words
      <4>1. Found(bm, n, i, start, icnt) = NoBlock
        BY <3>0, <3>1, Zenon DEF FoundNext
      <4> HIDE DEF g
      <4> QED
        BY <3>1, <4>1
    <3>2. CASE i # Words
      <4>1. i + 1 \in 0 .. Words /\ (icnt >= W => icnt - W \in 0 .. n)
        BY <1>0, <3>2
      <4>2. g[i + 1][i + 1][n] = Found(bm, n, i + 1, i + 1, n)
        BY <1>0, <4>1
      <4>3. icnt >= W => g[i + 1][start][icnt - W] = Found(bm, n, i + 1, start, icnt - W)
        BY <1>0, <4>1
      <4> HIDE DEF g
      <4>4. CASE icnt >= W /\ Word(i) \cap bm # {}
        <5>1. Found(bm, n, i, start, icnt) = Found(bm, n, i + 1, i + 1, n)
          BY <3>0, <3>2, <4>4, Zenon DEF FoundNext
        <5> QED
          BY <3>2, <4>2, <4>4, <5>1
      <4>5. CASE icnt >= W /\ Word(i) \cap bm = {}
        <5>1. Found(bm, n, i, start, icnt) = Found(bm, n, i + 1, start, icnt - W)
          BY <3>0, <3>2, <4>5, Zenon DEF FoundNext
        <5> QED
          BY <3>2, <4>3, <4>5, <5>1
      <4>6. CASE ~(icnt >= W) /\ Run(i * W, icnt) \cap bm # {}
        <5>1. Found(bm, n, i, start, icnt) = Found(bm, n, i + 1, i + 1, n)
          BY <3>0, <3>2, <4>6, Zenon DEF FoundNext
        <5> QED
          BY <3>2, <4>2, <4>6, <5>1
      <4>7. CASE ~(icnt >= W) /\ Run(i * W, icnt) \cap bm = {}
        <5>1. Found(bm, n, i, start, icnt) = start * W
          BY <3>0, <3>2, <4>7, Zenon DEF FoundNext
        <5> QED
          BY <3>2, <4>7, <5>1
      <4> QED
        BY <4>4, <4>5, <4>6, <4>7
    <3> QED
      BY <3>1, <3>2
  <2> HIDE DEF Body
  <2> QED
    BY <2>1
<1> HIDE DEF F
<1>2. scan = F(scan)
  BY <1>1, Zenon
<1> HIDE DEF scan
<1> DEFINE Bad == {k \in 0 .. Words : scan[Words - k] # g[Words - k]}
<1>3. Bad = {}
  <2> SUFFICES ASSUME Bad # {} PROVE FALSE
    OBVIOUS
  <2>1. PICK k \in Bad : \A j \in Bad : k <= j
    <3>1. Bad \in SUBSET Nat
      BY <1>0
    <3> HIDE DEF Bad
    <3> QED
      BY <3>1, LeastExists
  <2> DEFINE i == Words - k
  <2>2. i \in 0 .. Words /\ k \in 0 .. Words /\ k \in Nat
    BY <1>0
  <2>3. scan[i] = Row(scan, i) /\ g[i] = Row(g, i)
    <3> HIDE DEF Row, g
    <3> QED
      BY <1>1, <1>2, <2>2 DEF F
  <2>4. i # Words => scan[i + 1] = g[i + 1]
    <3> SUFFICES ASSUME i # Words PROVE scan[i + 1] = g[i + 1]
      OBVIOUS
    <3>1. k - 1 \in 0 .. Words /\ i + 1 = Words - (k - 1) /\ ~(k <= k - 1)
      BY <1>0, <2>2
    <3>2. k - 1 \notin Bad
      BY <2>1, <3>1
    <3> HIDE DEF g
    <3> QED
      BY <3>1, <3>2
  <2>5. Row(scan, i) = Row(g, i)
    <3> HIDE DEF g
    <3>1. \A start \in 0 .. Words, icnt \in 0 .. n :
            Body(scan, i, start, icnt) = Body(g, i, start, icnt)
      BY <2>4
    <3> HIDE DEF Body
    <3> QED
      BY <3>1
  <2> HIDE DEF g, Row
  <2> QED
    BY <2>1, <2>3, <2>5
<1>4. scan[0] = g[0]
  <2>1. Words \in 0 .. Words /\ Words - Words = 0
    BY <1>0
  <2> HIDE DEF g
  <2> QED
    BY <1>3, <2>1
<1>5. kpmm_find_free_region(bm, n) = scan[0][0][n]
  BY DEF kpmm_find_free_region, scan, F
<1>6. g[0][0][n] = FitFrom(bm, 0, n)
  BY <1>0, FoundAtOnce
<1>7. FitFrom(bm, 0, n) = FirstFit(bm, n)
  BY DEF FitFrom, FirstFit, Fits
<1> QED
  BY <1>4, <1>5, <1>6, <1>7

(* The place found, if there is one, is a word's, lies in the bitmap and is *)
(* free.                                                                    *)
LEMMA FindIs ==
  ASSUME NEW bm, NEW n \in Nat, kpmm_find_free_region(bm, n) # NoBlock
  PROVE  LET b == kpmm_find_free_region(bm, n)
         IN b \in Nat /\ b % W = 0 /\ b + n <= W * Words /\ Run(b, n) \cap bm = {}
<1> DEFINE b == kpmm_find_free_region(bm, n)
           fits == {i \in 0 .. Words - 1 : i + n \div W < Words /\ Run(i * W, n) \cap bm = {}}
           i == Min(fits)
<1>1. b = (IF fits = {} THEN NoBlock ELSE W * i)
  BY ScanIsFirstFit DEF FirstFit
<1>2. fits # {} /\ b = W * i
  BY <1>1
<1>3. fits \in SUBSET Nat
  OBVIOUS
<1>4. i \in fits
  BY <1>2, <1>3, MinIs
<1> HIDE DEF i
<1>5. i \in Nat /\ i + n \div W < Words /\ Run(i * W, n) \cap bm = {}
  BY <1>4
<1>6. W * i = i * W /\ W * i \in Nat /\ W \in Nat \ {0}
  BY <1>5, PhysAssumption
<1>7. (W * i + 0) % W = 0
  BY <1>5, DivUnique, PhysAssumption
<1>8. b + n <= W * Words
  <2> DEFINE q == n \div W
             r == n % W
  <2>1. q \in Nat /\ r \in 0 .. W - 1 /\ n = W * q + r
    BY DivMod, PhysAssumption
  <2> HIDE DEF q, r
  <2>2. i + q < Words /\ Words \in Nat
    BY <1>5, PhysAssumption DEF q
  <2>3. W * q \in Nat /\ (i + q + 1) * W = W * i + W * q + W
    BY <1>5, <1>6, <2>1
  <2>4. (i + q + 1) * W <= Words * W /\ Words * W = W * Words /\ W * Words \in Nat
    BY <1>5, <1>6, <2>1, <2>2, TimesMonotone
  <2>5. W * i + n <= W * Words
    BY <1>6, <2>1, <2>3, <2>4
  <2> QED
    BY <1>2, <2>5
<1> HIDE DEF b
<1>9. b \in Nat /\ b % W = 0 /\ Run(b, n) \cap bm = {}
  BY <1>2, <1>5, <1>6, <1>7
<1> QED
  BY <1>8, <1>9 DEF b

-----------------------------------------------------------------------------
(* Who holds which blocks *)

(* A claim: blocks r.pa + from to r.pa + n - 1 belong to region r of        *)
(* process `of', or to thread `of', which is allocating them for r or giving *)
(* them back, and has done with those before.                               *)
Area(c) == Run(c.r.pa + c.from, c.n - c.from)

(* The area and what of it has been given back *)
Extent(c) == Run(c.r.pa, c.n)

Cover(S) == UNION {Area(c) : c \in S}

Extents(S) == UNION {Extent(c) : c \in S}

Owned == AutoFree \cup {"heap"}

RegionClaim(p, r) ==
  IF r.use \in Owned THEN {[kind |-> "region", of |-> p, r |-> r, n |-> r.n, from |-> 0]} ELSE {}

ThreadClaim(k, j) ==
  IF /\ j.pc \in {"test", "set", "map", "fill", "count", "free", "undo"}
     /\ j.r.use \notin {"lfb", "kernel"}
  THEN {[kind |-> "thread", of |-> k, r |-> j.r,
         n |-> IF j.pc \in {"test", "set"} THEN j.i ELSE j.r.n,
         from |-> IF j.pc \in {"free", "undo"} THEN j.i ELSE 0]}
  ELSE {}

(* Unlinking and Live of Memory, for any memory m and any jobs J. *)
UnlinkingIn(J) == {J[k].r : k \in {q \in KThreads : J[q].pc \in {"free", "unlink"}}}

LiveIn(m, J, p) == IF p = KERNEL THEN m.regs[p] \ UnlinkingIn(J) ELSE m.regs[p]

SameLive(m, J, m1, J1) == \A p \in Procs : LiveIn(m1, J1, p) = LiveIn(m, J, p)

Claims(m, J) ==
  (UNION {ThreadClaim(k, J[k]) : k \in KThreads}) \cup
  (UNION {UNION {RegionClaim(p, r) : r \in LiveIn(m, J, p)} : p \in Procs})

WellPlaced(c) == c.r.pa \in Nat /\ c.n \in Nat /\ c.from \in 0 .. c.n /\ c.r.pa % W = 0

(* Claims begin with a word, are marked, and their extents overlap neither  *)
(* each other nor the blocks of boot and kernel.                            *)
Kept(Cs, used) ==
  /\ 0 .. Reserved - 1 \subseteq used
  /\ \A c \in Cs :
       /\ WellPlaced(c)
       /\ Area(c) \subseteq used
       /\ Extent(c) \cap 0 .. Reserved - 1 = {}
       /\ \A d \in Cs : c # d => Extent(c) \cap Extent(d) = {}

LostIn(Cs, used) == used \ (Cover(Cs) \cup 0 .. Reserved - 1)

(* Blocks nobody has, nor is giving back *)
Fresh(Cs, used, new) == new \cap used = {} /\ new \cap Extents(Cs) = {}

LEMMA AreaInExtent ==
  ASSUME NEW c, WellPlaced(c)
  PROVE  Area(c) \subseteq Extent(c)
  BY DEF WellPlaced, Area, Extent, Run

(* Claims Old are exchanged for New, whose blocks are those of Old or have  *)
(* been free.                                                               *)
Exchanged(Cs, used, Old, New, fresh, Cs1, used1) ==
  /\ Old \subseteq Cs
  /\ Cs1 = (Cs \ Old) \cup New
  /\ used1 = (used \ Cover(Old)) \cup Cover(New)
  /\ Fresh(Cs, used, fresh)
  /\ \A c \in New : /\ WellPlaced(c)
                    /\ Area(c) \subseteq Cover(Old) \cup fresh
                    /\ Extent(c) \subseteq Extents(Old) \cup fresh
                    /\ \A d \in New : c = d

(* Nothing is lost by an exchange. *)
LEMMA Exchange ==
  ASSUME NEW Cs, NEW used, NEW Old, NEW New, NEW fresh, NEW Cs1, NEW used1,
         Kept(Cs, used), Exchanged(Cs, used, Old, New, fresh, Cs1, used1)
  PROVE  Kept(Cs1, used1) /\ LostIn(Cs1, used1) \subseteq LostIn(Cs, used)
<1> USE DEF Exchanged
<1> HIDE DEF Area, Extent, WellPlaced
<1>0. \A c \in Cs \cup New : Area(c) \subseteq Extent(c)
  BY AreaInExtent DEF Kept
<1>1. \A c \in Cs : \A x \in Area(c) : x \in used
  BY DEF Kept
<1>2. \A c \in Cs : \A x \in Extent(c) : x \notin 0 .. Reserved - 1
  BY DEF Kept
<1>3. \A c, d \in Cs : c # d => Extent(c) \cap Extent(d) = {}
  BY DEF Kept
<1>4. \A x \in Cover(Old) : x \in Extents(Old)
  BY <1>0 DEF Cover, Extents
<1>5. \A x \in Extents(Old) : x \notin 0 .. Reserved - 1
  BY <1>2 DEF Extents
<1>6. \A c \in Cs \ Old : Extent(c) \cap Extents(Old) = {} /\ Extent(c) \cap fresh = {}
  BY <1>3 DEF Extents, Fresh
<1>7. 0 .. Reserved - 1 \subseteq used /\ fresh \cap used = {}
  BY DEF Kept, Fresh
<1>8. 0 .. Reserved - 1 \subseteq used1
  BY <1>4, <1>5, <1>7
<1>9. ASSUME NEW c \in Cs1
      PROVE  /\ WellPlaced(c)
             /\ Area(c) \subseteq used1 /\ Extent(c) \cap 0 .. Reserved - 1 = {}
             /\ \A d \in Cs1 : c # d => Extent(c) \cap Extent(d) = {}
  <2>1. CASE c \in Cs \ Old
    <3>1. WellPlaced(c)
      BY <2>1 DEF Kept
    <3>2. Area(c) \subseteq used1 /\ Extent(c) \cap 0 .. Reserved - 1 = {}
      BY <1>0, <1>1, <1>2, <1>4, <1>6, <2>1
    <3>3. \A d \in New : Extent(c) \cap Extent(d) = {}
      BY <1>6, <2>1
    <3> QED
      BY <1>3, <2>1, <3>1, <3>2, <3>3
  <2>2. CASE c \in New
    <3>1. WellPlaced(c)
      BY <2>2
    <3>2. Area(c) \subseteq Cover(New)
      BY <2>2 DEF Cover
    <3>3. Extent(c) \cap 0 .. Reserved - 1 = {}
      BY <1>5, <1>7, <2>2
    <3>4. \A d \in Cs \ Old : Extent(c) \cap Extent(d) = {}
      BY <1>6, <2>2
    <3> QED
      BY <2>2, <3>1, <3>2, <3>3, <3>4
  <2> QED
    BY <2>1, <2>2
<1>10. Kept(Cs1, used1)
  BY <1>8, <1>9 DEF Kept
<1>11. ASSUME NEW x \in LostIn(Cs1, used1) PROVE x \in LostIn(Cs, used)
  <2>1. x \in used1 /\ x \notin 0 .. Reserved - 1 /\ \A c \in Cs1 : x \notin Area(c)
    BY DEF LostIn, Cover
  <2>2. x \notin Cover(New)
    BY <2>1 DEF Cover
  <2>3. x \in used /\ x \notin Cover(Old)
    BY <2>1, <2>2
  <2>4. \A c \in Cs : x \notin Area(c)
    BY <2>1, <2>3 DEF Cover
  <2> QED
    BY <2>1, <2>3, <2>4 DEF LostIn, Cover
<1> QED
  BY <1>10, <1>11

(* A new claim *)
LEMMA Grant ==
  ASSUME NEW Cs, NEW used, Kept(Cs, used), NEW c, WellPlaced(c), c.from = 0,
         Fresh(Cs, used, Extent(c)),
         NEW Cs1, Cs1 = Cs \cup {c}, NEW used1, used1 = used \cup Extent(c)
  PROVE  Kept(Cs1, used1) /\ LostIn(Cs1, used1) \subseteq LostIn(Cs, used)
<1> DEFINE fresh == Extent(c)
           New == {c}
           Old == {}
<1>0. Area(c) = Extent(c)
  BY DEF WellPlaced, Area, Extent
<1> HIDE DEF Area, Extent
<1>1. Cover(Old) = {} /\ Cover(New) = fresh /\ Extents(Old) = {}
  BY <1>0 DEF Cover, Extents
<1>2. Old \in SUBSET Cs /\ Cs1 = (Cs \ Old) \cup New /\ used1 = (used \ Cover(Old)) \cup Cover(New)
  BY <1>1
<1>3. \A d \in New : d = c
  OBVIOUS
<1> HIDE DEF New, Old, fresh
<1>4. \A d \in New : /\ WellPlaced(d)
                     /\ Area(d) \subseteq Cover(Old) \cup fresh
                     /\ Extent(d) \subseteq Extents(Old) \cup fresh
                     /\ \A e \in New : d = e
  BY <1>0, <1>3 DEF fresh
<1>5. Fresh(Cs, used, fresh)
  BY DEF fresh
<1>6. Exchanged(Cs, used, Old, New, fresh, Cs1, used1)
  BY <1>2, <1>4, <1>5 DEF Exchanged
<1> QED
  BY <1>6, Exchange

(* A claim that is given back *)
LEMMA Revoke ==
  ASSUME NEW Cs, NEW used, Kept(Cs, used), NEW c \in Cs,
         NEW Cs1, Cs1 = Cs \ {c}, NEW used1, used1 = used \ Area(c)
  PROVE  Kept(Cs1, used1) /\ LostIn(Cs1, used1) \subseteq LostIn(Cs, used)
<1>1. Cover({}) = {} /\ Cover({c}) = Area(c)
  BY DEF Cover
<1>2. {c} \in SUBSET Cs /\ Cs1 = (Cs \ {c}) \cup {} /\ used1 = (used \ Cover({c})) \cup Cover({})
  BY <1>1
<1>3. Fresh(Cs, used, {})
  BY DEF Fresh
<1>6. Exchanged(Cs, used, {c}, {}, {}, Cs1, used1)
  BY <1>2, <1>3 DEF Exchanged
<1> QED
  BY <1>6, Exchange

(* A claim in place of another one, with its blocks but for those given     *)
(* back, and blocks that were free.                                         *)
Traded(Cs, used, c, d, gone, fresh, Cs1, used1) ==
  /\ c \in Cs
  /\ WellPlaced(d)
  /\ Area(c) \cup fresh = Area(d) \cup gone /\ Area(d) \cap gone = {}
  /\ Extent(d) = Extent(c) \cup fresh
  /\ Fresh(Cs, used, fresh) /\ fresh \cap gone = {}
  /\ Cs1 = (Cs \ {c}) \cup {d} /\ used1 = (used \ gone) \cup fresh

LEMMA Trade ==
  ASSUME NEW Cs, NEW used, NEW c, NEW d, NEW gone, NEW fresh, NEW Cs1, NEW used1,
         Kept(Cs, used), Traded(Cs, used, c, d, gone, fresh, Cs1, used1)
  PROVE  Kept(Cs1, used1) /\ LostIn(Cs1, used1) \subseteq LostIn(Cs, used)
<1> DEFINE New == {d}
           Old == {c}
<1>1. Cover(Old) = Area(c) /\ Cover(New) = Area(d) /\ Extents(Old) = Extent(c)
  BY DEF Cover, Extents
<1>2. Area(c) \subseteq used
  BY DEF Kept, Traded
<1> HIDE DEF Area, Extent
<1>3. Old \in SUBSET Cs /\ Cs1 = (Cs \ Old) \cup New
  BY DEF Traded
<1>4. used1 = (used \ Cover(Old)) \cup Cover(New)
  BY <1>1, <1>2 DEF Traded, Fresh
<1>5. \A e \in New : e = d
  OBVIOUS
<1> HIDE DEF New, Old
<1>6. \A e \in New : /\ WellPlaced(e)
                     /\ Area(e) \subseteq Cover(Old) \cup fresh
                     /\ Extent(e) \subseteq Extents(Old) \cup fresh
                     /\ \A f \in New : e = f
  BY <1>1, <1>5 DEF Traded
<1>7. Exchanged(Cs, used, Old, New, fresh, Cs1, used1)
  BY <1>3, <1>4, <1>6 DEF Exchanged, Traded
<1> QED
  BY <1>7, Exchange

(* Claims may be given up, and blocks marked, at the price of losing some. *)
LEMMA KeptLess ==
  ASSUME NEW Cs, NEW used, NEW Cs1 \in SUBSET Cs, NEW used1, Kept(Cs, used), used \subseteq used1
  PROVE  Kept(Cs1, used1)
<1>1. \A c \in Cs1 : c \in Cs
  OBVIOUS
<1> HIDE DEF Area, Extent, WellPlaced
<1> QED
  BY <1>1 DEF Kept

-----------------------------------------------------------------------------
(* How claims follow the jobs and the regions *)

Segment == [va : Nat, bytes : Nat]

Steps == {"find", "test", "set", "map", "fill", "count", "free", "undo", "unlink"}

JobRec == [pc : Steps, p : Procs, r : RegionType,
           rest : Seq(Segment), i : Nat]

Jobs == [KThreads -> {Idle} \cup JobRec]

(* The jobs J after thread k has taken X for its own. *)
Turned(J, k, X) == [J EXCEPT ![k] = X]

(* A job has a program counter of its own unless it is none. *)
LEMMA JobCases ==
  ASSUME NEW j \in {Idle} \cup JobRec
  PROVE  /\ j.pc = "idle" => j = Idle
         /\ j.pc # "idle" => j \in JobRec
<1>1. CASE j = Idle
  BY <1>1 DEF Idle
<1>2. CASE j \in JobRec
  <2>1. j.pc \in Steps /\ "idle" \notin Steps
    BY <1>2 DEF JobRec, Steps
  <2> QED
    BY <1>2, <2>1
<1> QED
  BY <1>1, <1>2

LEMMA ClaimIs ==
  ASSUME NEW m, NEW J, NEW c
  PROVE  c \in Claims(m, J) <=>
           \/ \E k \in KThreads : c \in ThreadClaim(k, J[k])
           \/ \E p \in Procs : \E r \in LiveIn(m, J, p) : c \in RegionClaim(p, r)
<1> HIDE DEF ThreadClaim, RegionClaim, LiveIn
<1> QED
  BY DEF Claims

LEMMA ClaimKinds ==
  /\ \A k, j : \A c \in ThreadClaim(k, j) : c.kind = "thread" /\ c.of = k
  /\ \A p, r : \A c \in RegionClaim(p, r) : c.kind = "region" /\ c.of = p /\ c.r = r
<1>1. ASSUME NEW k, NEW j, NEW c \in ThreadClaim(k, j) PROVE c.kind = "thread" /\ c.of = k
  BY DEF ThreadClaim
<1>2. ASSUME NEW p, NEW r, NEW c \in RegionClaim(p, r)
      PROVE c.kind = "region" /\ c.of = p /\ c.r = r
  BY DEF RegionClaim
<1> QED
  BY <1>1, <1>2

(* Thread k claims what X claims instead of what it has claimed. *)
ClaimsTurned(m, J, m1, J1, k, X) ==
  /\ ThreadClaim(k, J[k]) \subseteq Claims(m, J)
  /\ Claims(m1, J1) = (Claims(m, J) \ ThreadClaim(k, J[k])) \cup ThreadClaim(k, X)

(* A thread goes on and leaves the regions alone. *)
LEMMA JobChange ==
  ASSUME NEW m, NEW m1, NEW J \in Jobs, NEW k \in KThreads, NEW X, NEW J1,
         J1 = Turned(J, k, X),
         SameLive(m, J, m1, J1)
  PROVE  ClaimsTurned(m, J, m1, J1, k, X)
<1>0. J1[k] = X /\ \A q \in KThreads \ {k} : J1[q] = J[q]
  BY DEF Jobs, Turned
<1> HIDE DEF ThreadClaim, RegionClaim, LiveIn, Jobs
<1>1. ASSUME NEW c
      PROVE  c \in Claims(m1, J1) <=>
               c \in (Claims(m, J) \ ThreadClaim(k, J[k])) \cup ThreadClaim(k, X)
  <2>1. /\ \A q, j : c \in ThreadClaim(q, j) => c.kind = "thread" /\ c.of = q
        /\ \A p, r : c \in RegionClaim(p, r) => c.kind = "region"
    BY ClaimKinds
  <2>2. (\E q \in KThreads : c \in ThreadClaim(q, J1[q])) <=>
        \/ c \in ThreadClaim(k, X)
        \/ \E q \in KThreads : c \in ThreadClaim(q, J[q]) /\ c \notin ThreadClaim(k, J[k])
    <3>1. \A q \in KThreads \ {k} : c \in ThreadClaim(q, J[q]) => c \notin ThreadClaim(k, J[k])
      BY <2>1
    <3> QED
      BY <1>0, <3>1
  <2>3. (\E p \in Procs : \E r \in LiveIn(m1, J1, p) : c \in RegionClaim(p, r)) <=>
        \E p \in Procs : \E r \in LiveIn(m, J, p) :
          c \in RegionClaim(p, r) /\ c \notin ThreadClaim(k, J[k])
    BY <2>1 DEF SameLive
  <2> QED
    BY <2>2, <2>3, ClaimIs
<1>2. ThreadClaim(k, J[k]) \subseteq Claims(m, J)
  BY ClaimIs
<1> QED
  BY <1>1, <1>2 DEF ClaimsTurned

(* A process is given a region. *)
LEMMA RegionAdded ==
  ASSUME NEW m, NEW m1, NEW J, NEW p \in Procs, NEW r,
         LiveIn(m1, J, p) = LiveIn(m, J, p) \cup {r},
         \A q \in Procs \ {p} : LiveIn(m1, J, q) = LiveIn(m, J, q)
  PROVE  Claims(m1, J) = Claims(m, J) \cup RegionClaim(p, r)
<1> HIDE DEF ThreadClaim, RegionClaim, LiveIn
<1>1. ASSUME NEW c PROVE c \in Claims(m1, J) <=> c \in Claims(m, J) \cup RegionClaim(p, r)
  <2>1. (\E q \in Procs : \E s \in LiveIn(m1, J, q) : c \in RegionClaim(q, s)) <=>
        \/ \E q \in Procs : \E s \in LiveIn(m, J, q) : c \in RegionClaim(q, s)
        \/ c \in RegionClaim(p, r)
    OBVIOUS
  <2> QED
    BY <2>1, ClaimIs
<1> QED
  BY <1>1

(* A process loses a region. *)
LEMMA RegionRemoved ==
  ASSUME NEW m, NEW m1, NEW J, NEW p \in Procs, NEW r \in LiveIn(m, J, p),
         LiveIn(m1, J, p) = LiveIn(m, J, p) \ {r},
         \A q \in Procs \ {p} : LiveIn(m1, J, q) = LiveIn(m, J, q)
  PROVE  /\ RegionClaim(p, r) \subseteq Claims(m, J)
         /\ Claims(m1, J) = Claims(m, J) \ RegionClaim(p, r)
<1> HIDE DEF ThreadClaim, RegionClaim, LiveIn
<1>1. ASSUME NEW c PROVE c \in Claims(m1, J) <=> c \in Claims(m, J) \ RegionClaim(p, r)
  <2>1. /\ \A q, j : c \in ThreadClaim(q, j) => c.kind = "thread"
        /\ \A q, s : c \in RegionClaim(q, s) => c.kind = "region" /\ c.of = q /\ c.r = s
    BY ClaimKinds
  <2>2. (\E q \in Procs : \E s \in LiveIn(m1, J, q) : c \in RegionClaim(q, s)) <=>
        \E q \in Procs : \E s \in LiveIn(m, J, q) :
          c \in RegionClaim(q, s) /\ c \notin RegionClaim(p, r)
    BY <2>1
  <2> QED
    BY <2>1, <2>2, ClaimIs
<1>2. RegionClaim(p, r) \subseteq Claims(m, J)
  BY ClaimIs
<1> QED
  BY <1>1, <1>2

Unlinks(j) == j.pc \in {"free", "unlink"}

(* What is being unlinked, when a thread goes on. *)
LEMMA UnlinkingChange ==
  ASSUME NEW J \in Jobs, NEW k \in KThreads, NEW X, NEW J1, J1 = Turned(J, k, X)
  PROVE  /\ ~Unlinks(J[k]) /\ ~Unlinks(X) => UnlinkingIn(J1) = UnlinkingIn(J)
         /\ ~Unlinks(J[k]) /\ Unlinks(X) => UnlinkingIn(J1) = UnlinkingIn(J) \cup {X.r}
         /\ Unlinks(J[k]) /\ Unlinks(X) /\ X.r = J[k].r => UnlinkingIn(J1) = UnlinkingIn(J)
<1>0. J1[k] = X /\ \A q \in KThreads \ {k} : J1[q] = J[q]
  BY DEF Jobs, Turned
<1> HIDE DEF Jobs
<1>1. \A K, x : x \in UnlinkingIn(K) <=> \E q \in KThreads : Unlinks(K[q]) /\ x = K[q].r
  BY DEF UnlinkingIn, Unlinks
<1>2. \A x : x \in UnlinkingIn(J1) <=>
        \/ Unlinks(X) /\ x = X.r
        \/ \E q \in KThreads \ {k} : Unlinks(J[q]) /\ x = J[q].r
  BY <1>0, <1>1
<1>3. \A x : x \in UnlinkingIn(J) <=>
        \/ Unlinks(J[k]) /\ x = J[k].r
        \/ \E q \in KThreads \ {k} : Unlinks(J[q]) /\ x = J[q].r
  BY <1>1
<1> HIDE DEF Unlinks, UnlinkingIn
<1>4. ~Unlinks(J[k]) /\ ~Unlinks(X) => UnlinkingIn(J1) = UnlinkingIn(J)
  BY <1>2, <1>3
<1>5. ~Unlinks(J[k]) /\ Unlinks(X) => UnlinkingIn(J1) = UnlinkingIn(J) \cup {X.r}
  BY <1>2, <1>3
<1>6. Unlinks(J[k]) /\ Unlinks(X) /\ X.r = J[k].r => UnlinkingIn(J1) = UnlinkingIn(J)
  BY <1>2, <1>3
<1> QED
  BY <1>4, <1>5, <1>6

-----------------------------------------------------------------------------
(* The operations on the memory *)

Halts == {"no", "memory", "regions", "overlap", "place", "lost race"}

MemRec == [used : SUBSET Blocks, halt : Halts,
           regs : [Procs -> SUBSET RegionType], pages : [Procs -> SUBSET (Nat \X Nat)]]

LEMMA MemFields ==
  ASSUME NEW m \in MemRec
  PROVE  /\ m.used \in SUBSET Blocks /\ m.halt \in Halts
         /\ m.regs \in [Procs -> SUBSET RegionType]
         /\ m.pages \in [Procs -> SUBSET (Nat \X Nat)]
  BY DEF MemRec

LEMMA MemIs ==
  ASSUME NEW m \in MemRec, NEW u \in SUBSET Blocks, NEW h \in Halts,
         NEW rs \in [Procs -> SUBSET RegionType], NEW ps \in [Procs -> SUBSET (Nat \X Nat)]
  PROVE  /\ [m EXCEPT !.used = u] \in MemRec
         /\ [m EXCEPT !.halt = h] \in MemRec
         /\ [m EXCEPT !.regs = rs] \in MemRec
         /\ [m EXCEPT !.pages = ps] \in MemRec
<1> USE DEF MemRec
<1> HIDE DEF Halts
<1>1. [m EXCEPT !.used = u] \in MemRec
  OBVIOUS
<1>2. [m EXCEPT !.halt = h] \in MemRec
  OBVIOUS
<1>3. [m EXCEPT !.regs = rs] \in MemRec
  OBVIOUS
<1>4. [m EXCEPT !.pages = ps] \in MemRec
  OBVIOUS
<1> QED
  BY <1>1, <1>2, <1>3, <1>4

LEMMA RegionIs ==
  ASSUME NEW va \in Nat, NEW pa \in Nat \cup {NoBlock}, NEW n \in Nat, NEW use \in Uses
  PROVE  LET r == [va |-> va, pa |-> pa, n |-> n, use |-> use]
         IN r \in RegionType /\ r.va = va /\ r.pa = pa /\ r.n = n /\ r.use = use
  BY DEF RegionType

LEMMA HaltIs ==
  ASSUME NEW m \in MemRec, NEW why \in Halts
  PROVE  /\ Halt(m, why) \in MemRec /\ Halt(m, why).halt = why
         /\ Halt(m, why).used = m.used /\ Halt(m, why).regs = m.regs
         /\ Halt(m, why).pages = m.pages
<1>1. Halt(m, why) \in MemRec
  BY MemIs, MemFields DEF Halt
<1> QED
  BY <1>1 DEF Halt, MemRec

(* The page tables ps after n pages at va of process p have been cleared,   *)
(* and after region r has been put into them.                               *)
PagesDropped(ps, p, va, n) == [ps EXCEPT ![p] = {e \in @ : e[1] \notin Run(va, n)}]

PagesPut(ps, p, r) == [ps EXCEPT ![p] = {e \in @ : e[1] \notin Run(r.va, r.n)} \cup PagesOf(r)]

LEMMA DropIs ==
  ASSUME NEW m \in MemRec, NEW p \in Procs, NEW va, NEW n
  PROVE  LET m1 == DropPages(m, p, va, n)
         IN /\ m1 \in MemRec /\ m1.used = m.used /\ m1.regs = m.regs /\ m1.halt = m.halt
            /\ m1.pages = PagesDropped(m.pages, p, va, n)
<1> DEFINE ps == PagesDropped(m.pages, p, va, n)
<1>1. ps \in [Procs -> SUBSET (Nat \X Nat)]
  BY MemFields DEF PagesDropped
<1>2. DropPages(m, p, va, n) = [m EXCEPT !.pages = ps]
  BY DEF DropPages, MemRec, PagesDropped
<1> HIDE DEF ps
<1>3. [m EXCEPT !.pages = ps] \in MemRec
  BY <1>1, MemIs, MemFields
<1> QED
  BY <1>2, <1>3 DEF MemRec, ps

LEMMA PutIs ==
  ASSUME NEW m \in MemRec, NEW p \in Procs, NEW r \in RegionType, r.pa \in Nat
  PROVE  LET m1 == PutPages(m, p, r)
         IN /\ m1 \in MemRec /\ m1.used = m.used /\ m1.regs = m.regs /\ m1.halt = m.halt
            /\ m1.pages = PagesPut(m.pages, p, r)
<1> DEFINE ps == PagesPut(m.pages, p, r)
<1>0. r.va \in Nat /\ r.n \in Nat
  BY DEF RegionType
<1>1. PagesOf(r) \subseteq Nat \X Nat
  BY <1>0 DEF PagesOf
<1>2. ps \in [Procs -> SUBSET (Nat \X Nat)]
  <2>1. {e \in m.pages[p] : e[1] \notin Run(r.va, r.n)} \cup PagesOf(r) \subseteq Nat \X Nat
    BY <1>1, MemFields
  <2> QED
    BY <2>1, MemFields DEF PagesPut
<1>3. PutPages(m, p, r) = [m EXCEPT !.pages = ps]
  BY DEF PutPages, MemRec, PagesPut
<1> HIDE DEF ps
<1>4. [m EXCEPT !.pages = ps] \in MemRec
  BY <1>2, MemIs, MemFields
<1> QED
  BY <1>3, <1>4 DEF MemRec, ps

LEMMA TempMapIs ==
  ASSUME NEW m \in MemRec, NEW n, KERNEL \in Procs
  PROVE  LET m1 == TempMap(m, n)
         IN /\ m1 \in MemRec /\ m1.used = m.used /\ m1.regs = m.regs
            /\ m1.halt = m.halt \/ m1.halt = "regions"
            /\ m1.halt = "no" =>
                 m1.pages = PagesDropped(m.pages, KERNEL, TempPlace(m.regs[KERNEL], n), n)
<1>1. CASE m.halt # "no"
  BY <1>1 DEF TempMap
<1>2. CASE m.halt = "no" /\ Full(m, KERNEL)
  BY <1>2, HaltIs DEF TempMap, Halts
<1>3. CASE m.halt = "no" /\ ~Full(m, KERNEL)
  BY <1>3, DropIs DEF TempMap
<1> QED
  BY <1>1, <1>2, <1>3

(* A stack is placed below everything, so it never overlaps. *)
LEMMA StackBelow ==
  ASSUME NEW rs \in SUBSET RegionType
  PROVE  LET va == StackPlace(rs)
         IN /\ va \in Int /\ va + STACK + 1 <= KBASE - 1
            /\ \A r \in rs : va + STACK + 1 <= r.va
            /\ va + STACK + 1 = KBASE - 1 \/ \E r \in rs : va + STACK + 1 = r.va
            /\ ~Overlaps(rs, va, STACK)
<1> DEFINE places == {r.va : r \in rs} \cup {KBASE - 1}
           low == Min(places)
           va == StackPlace(rs)
<1>0. STACK \in Nat /\ KBASE \in Nat \ {0} /\ \A r \in rs : r.va \in Nat /\ r.n \in Nat
  BY MemoryAssumption DEF RegionType
<1>1. places \in SUBSET Nat /\ places # {}
  BY <1>0
<1>2. low \in places /\ \A y \in places : low <= y
  BY <1>1, MinIs
<1> HIDE DEF low
<1>3. low \in Nat /\ low <= KBASE - 1 /\ \A r \in rs : low <= r.va
  BY <1>1, <1>2
<1>4. low = KBASE - 1 \/ \E r \in rs : low = r.va
  BY <1>2
<1>5. va = low - STACK - 1
  BY DEF StackPlace, low
<1> HIDE DEF places
<1> HIDE DEF va
<1>6. va \in Int /\ va + STACK + 1 = low
  BY <1>0, <1>3, <1>5
<1>7. ASSUME NEW r \in rs
      PROVE  /\ ~(r.va >= va /\ r.va < va + STACK)
             /\ ~(r.va + r.n > va /\ r.va + r.n <= va + STACK)
  BY <1>0, <1>3, <1>6
<1>8. ~Overlaps(rs, va, STACK)
  BY <1>7 DEF Overlaps
<1> QED
  BY <1>3, <1>4, <1>6, <1>8 DEF va

StackRegion(rs, b) == [va |-> StackPlace(rs), pa |-> b, n |-> STACK, use |-> "stack"]

(* What AddStack makes of m. *)
StackGiven(m, p, m1, b) ==
  /\ m.halt = "no" /\ m1.halt = "no"
  /\ b \in Nat /\ b % W = 0 /\ Run(b, STACK) \cap m.used = {}
  /\ m1.used = m.used \cup Run(b, STACK)
  /\ StackRegion(m.regs[p], b) \in RegionType
  /\ m1.regs = [m.regs EXCEPT ![p] = @ \cup {StackRegion(m.regs[p], b)}]
  /\ m1.pages = PagesPut(m.pages, p, StackRegion(m.regs[p], b))

StackRefused(m, m1) ==
  /\ m1.halt # "no" /\ (m1.halt = "overlap" => m.halt = "overlap")
  /\ m1.regs = m.regs /\ m.used \subseteq m1.used

LEMMA AddStackIs ==
  ASSUME NEW m \in MemRec, NEW p \in Procs, NEW m1, m1 = AddStack(m, p)
  PROVE  m1 \in MemRec /\ (StackRefused(m, m1) \/ \E b : StackGiven(m, p, m1, b))
<1> DEFINE b == kpmm_find_free_region(m.used, STACK)
           r == StackRegion(m.regs[p], b)
           m2 == [m EXCEPT !.used = @ \cup Run(b, STACK)]
<1>0. m.regs[p] \in SUBSET RegionType /\ STACK \in Nat \ {0} /\ m.halt \in Halts
  BY MemFields, MemoryAssumption
<1> HIDE DEF b
<1>1. m1 = IF m.halt # "no" THEN m
           ELSE IF b = NoBlock THEN Halt(m, "memory")
           ELSE IF r.va < 0 THEN Halt(m, "place")
           ELSE MapRegion(m2, p, r)
  BY DEF AddStack, StackRegion, b
<1>2. CASE m.halt # "no"
  BY <1>1, <1>2 DEF StackRefused
<1>3. CASE m.halt = "no" /\ b = NoBlock
  <2>1. m1 = Halt(m, "memory") /\ "memory" \in Halts
    BY <1>1, <1>3 DEF Halts
  <2> QED
    BY <2>1, HaltIs DEF StackRefused
<1>4. CASE m.halt = "no" /\ b # NoBlock /\ r.va < 0
  <2>1. m1 = Halt(m, "place") /\ "place" \in Halts
    BY <1>1, <1>4 DEF Halts
  <2> QED
    BY <2>1, HaltIs DEF StackRefused
<1>5. CASE m.halt = "no" /\ b # NoBlock /\ ~(r.va < 0)
  <2>1. m1 = MapRegion(m2, p, r)
    BY <1>1, <1>5
  <2>2. b \in Nat /\ b % W = 0 /\ b + STACK <= W * Words /\ Run(b, STACK) \cap m.used = {}
    BY <1>0, <1>5, FindIs DEF b
  <2>3. r.va \in Nat /\ r.pa = b /\ r.n = STACK /\ r.va = StackPlace(m.regs[p])
    BY <1>0, <1>5, StackBelow DEF StackRegion
  <2>4. r \in RegionType
    <3>1. StackPlace(m.regs[p]) \in Nat /\ STACK \in Nat /\ b \in Nat \cup {NoBlock}
      BY <1>0, <2>2, <2>3
    <3>2. "stack" \in Uses
      BY DEF Uses, AutoFree
    <3> QED
      BY <3>1, <3>2, RegionIs DEF StackRegion
  <2>5. m.used \cup Run(b, STACK) \in SUBSET Blocks
    <3>1. W * Words \in Nat
      BY PhysAssumption
    <3>2. Run(b, STACK) \subseteq Blocks
      BY <1>0, <2>2, <3>1 DEF Run, Blocks
    <3> QED
      BY <3>2, MemFields
  <2>6. m2 \in MemRec /\ m2.used = m.used \cup Run(b, STACK) /\ m2.regs = m.regs /\ m2.halt = "no"
        /\ m2.pages = m.pages
    <3>1. m2 \in MemRec
      BY <2>5, MemIs, MemFields
    <3> QED
      BY <1>5, <3>1 DEF MemRec
  <2> HIDE DEF m2, r
  <2>7. CASE Full(m2, p)
    <3>1. m1 = Halt(m2, "regions") /\ "regions" \in Halts
      BY <2>1, <2>7 DEF MapRegion, Halts
    <3> QED
      BY <2>6, <3>1, HaltIs DEF StackRefused
  <2>8. CASE ~Full(m2, p)
    <3>1. ~Overlaps(m2.regs[p], r.va, r.n)
      BY <1>0, <2>3, <2>6, StackBelow
    <3> DEFINE rs == [m2.regs EXCEPT ![p] = @ \cup {r}]
               m3 == [m2 EXCEPT !.regs = rs]
    <3>2. m1 = PutPages([m2 EXCEPT !.regs[p] = @ \cup {r}], p, r)
      BY <2>1, <2>8, <3>1 DEF MapRegion
    <3>3. [m2 EXCEPT !.regs[p] = @ \cup {r}] = m3
      BY <2>6 DEF MemRec
    <3>4. rs \in [Procs -> SUBSET RegionType]
      <4>1. m2.regs[p] \cup {r} \in SUBSET RegionType
        BY <1>0, <2>4, <2>6
      <4> QED
        BY <2>6, <4>1, MemFields
    <3> HIDE DEF rs
    <3>5. m3 \in MemRec
      BY <2>6, <3>4, MemIs, MemFields
    <3>6. m3.used = m2.used /\ m3.halt = "no" /\ m3.regs = rs /\ m3.pages = m2.pages
      BY <2>6 DEF MemRec
    <3> HIDE DEF m3
    <3>7. m1 \in MemRec /\ m1.used = m2.used /\ m1.halt = "no" /\ m1.regs = rs
          /\ m1.pages = PagesPut(m2.pages, p, r)
      <4>1. m1 = PutPages(m3, p, r) /\ r.pa \in Nat
        BY <2>2, <2>3, <3>2, <3>3
      <4> QED
        BY <2>4, <3>5, <3>6, <4>1, PutIs
    <3>8. rs = [m.regs EXCEPT ![p] = @ \cup {r}]
      BY <2>6 DEF rs
    <3>9. StackGiven(m, p, m1, b)
      BY <1>5, <2>2, <2>4, <2>6, <3>7, <3>8 DEF StackGiven, r
    <3> QED
      BY <3>7, <3>9
  <2> QED
    BY <2>7, <2>8
<1> QED
  BY <1>2, <1>3, <1>4, <1>5

(* The regions that threads are unlinking are buffers. *)
Buffers == {"fdc", "sb16", "lfb"}

UnlinkBuffers(J) == \A k \in KThreads : Unlinks(J[k]) => J[k].r.use \in Buffers

(* A stack is claimed by the process that gets it. *)
LEMMA AddStackKeeps ==
  ASSUME NEW m \in MemRec, NEW p \in Procs, NEW m1, m1 = AddStack(m, p), NEW J,
         UnlinkBuffers(J), Kept(Claims(m, J), m.used),
         (m1.used \ m.used) \cap Extents(Claims(m, J)) = {}
  PROVE  /\ Kept(Claims(m1, J), m1.used)
         /\ m1.halt = "no" => LostIn(Claims(m1, J), m1.used) \subseteq LostIn(Claims(m, J), m.used)
<1>1. CASE StackRefused(m, m1)
  <2>1. Claims(m1, J) = Claims(m, J)
    BY <1>1 DEF StackRefused, Claims, LiveIn
  <2> QED
    BY <1>1, <2>1, KeptLess DEF StackRefused
<1>2. ASSUME NEW b, StackGiven(m, p, m1, b)
      PROVE  /\ Kept(Claims(m1, J), m1.used)
             /\ LostIn(Claims(m1, J), m1.used) \subseteq LostIn(Claims(m, J), m.used)
  <2> DEFINE r == StackRegion(m.regs[p], b)
             New == RegionClaim(p, r)
             fresh == Run(b, STACK)
  <2>0. /\ b \in Nat /\ b % W = 0 /\ fresh \cap m.used = {} /\ m1.used = m.used \cup fresh
        /\ m1.regs = [m.regs EXCEPT ![p] = @ \cup {r}] /\ m.regs \in [Procs -> SUBSET RegionType]
    BY <1>2, MemFields DEF StackGiven
  <2>1. r.use = "stack" /\ r.pa = b /\ r.n = STACK /\ STACK \in Nat
    BY MemoryAssumption DEF StackRegion
  <2> HIDE DEF r
  <2>2. r \notin UnlinkingIn(J)
    BY <2>1 DEF UnlinkBuffers, Buffers, UnlinkingIn, Unlinks
  <2>3. LiveIn(m1, J, p) = LiveIn(m, J, p) \cup {r}
    BY <2>0, <2>2 DEF LiveIn
  <2>4. \A q \in Procs \ {p} : LiveIn(m1, J, q) = LiveIn(m, J, q)
    BY <2>0 DEF LiveIn
  <2>5. Claims(m1, J) = Claims(m, J) \cup New
    BY <2>3, <2>4, RegionAdded
  <2> DEFINE c == [kind |-> "region", of |-> p, r |-> r, n |-> STACK, from |-> 0]
  <2>6. New = {c} /\ c.r = r /\ c.n = STACK /\ c.from = 0
    BY <2>1 DEF RegionClaim, Owned, AutoFree
  <2> HIDE DEF New, c
  <2>7. Extent(c) = fresh
    BY <2>1, <2>6 DEF Extent
  <2>8. WellPlaced(c)
    BY <2>0, <2>1, <2>6 DEF WellPlaced
  <2> HIDE DEF fresh
  <2>9. /\ Fresh(Claims(m, J), m.used, Extent(c)) /\ Claims(m1, J) = Claims(m, J) \cup {c}
        /\ m1.used = m.used \cup Extent(c)
    BY <2>0, <2>5, <2>6, <2>7 DEF Fresh
  <2> QED
    BY <2>6, <2>8, <2>9, Grant
<1> QED
  BY <1>1, <1>2, AddStackIs

-----------------------------------------------------------------------------
(* The invariant *)

Types(m, J) == m \in MemRec /\ J \in Jobs /\ IsFiniteSet(m.regs[KERNEL])

(* A job allocates for the kernel or loads a process, and has what it needs *)
(* at its place.                                                            *)
Proper(j) ==
  /\ j.r.use \in {"heap", "fdc", "sb16", "lfb", "kernel", "image"}
  /\ j.r.use \in {"kernel", "image"} => j.p \in Users
  /\ j.r.use \notin {"kernel", "image"} => j.p = KERNEL /\ j.rest = <<>>
  /\ j.pc \in {"find", "test", "set"} => j.r.use \notin {"lfb", "kernel"} /\ j.i < j.r.n
  /\ j.pc = "find" => j.i = 0
  /\ j.pc \in {"test", "set"} => j.r.pa \in Nat /\ j.r.pa + j.r.n <= W * Words
  /\ j.pc \in {"map", "fill", "count"} => j.r.pa \in Nat
  /\ Unlinks(j) => j.r.use \in Buffers
  /\ j.pc \in {"free", "undo"} => j.r.use \in {"fdc", "sb16"} /\ j.r.pa \in Nat /\ j.i < j.r.n
  /\ 0 < j.r.n

(* There is one buffer of each driver, or one thread making it. *)
BuffersOnce(m, J) ==
  /\ \A k \in KThreads : J[k].pc # "idle" /\ J[k].r.use \in Buffers =>
       /\ \A l \in KThreads \ {k} : J[l].pc # "idle" => J[l].r.use # J[k].r.use
       /\ ~Unlinks(J[k]) => \A r \in m.regs[KERNEL] : r.use # J[k].r.use
       /\ Unlinks(J[k]) => J[k].r \in m.regs[KERNEL]
  /\ \A r, s \in m.regs[KERNEL] : r.use \in Buffers /\ r.use = s.use => r = s
  /\ \A r \in m.regs[KERNEL] : r.use \in Buffers => 0 < r.n

(* Segments that are still to be loaded *)
Segments(rest) ==
  \A i \in 1 .. Len(rest) :
    /\ rest[i].va + SegmentPages(rest[i]) <= UserTop
    /\ \A l \in i + 1 .. Len(rest) :
         /\ rest[i].va < rest[l].va
         /\ rest[i].va + SegmentPages(rest[i]) <= rest[l].va + 1

(* Where the loader has still to put something *)
Ahead(j) ==
  {j.rest[i].va : i \in 1 .. Len(j.rest)} \cup (IF j.r.use = "image" THEN {j.r.va} ELSE {})

(* A region that ends at v, but for the page too many of a segment *)
Before(r, v) == r.va < v /\ r.va + r.n <= v + 1

(* In a process that is being loaded there are stacks, the kernel, and      *)
(* segments before the ones to come.                                        *)
Loads(rs, j) ==
  /\ rs # {}
  /\ Segments(j.rest)
  /\ \A r \in rs : \/ UserTop <= r.va /\ 0 < r.n
                   \/ r.use = "image" /\ \A v \in Ahead(j) : Before(r, v)
  /\ j.r.use = "kernel" =>
       /\ j.pc \in {"map", "fill", "count"} /\ j.r = KernelRegion
       /\ \A r \in rs : r.va < KBASE /\ r.va + r.n <= KBASE
  /\ j.r.use = "image" =>
       j.r.va + j.r.n <= UserTop /\ \A i \in 1 .. Len(j.rest) : Before(j.r, j.rest[i].va)

Loading(m, J) ==
  \A k \in KThreads : J[k].pc # "idle" /\ J[k].p \in Users =>
    /\ Loads(m.regs[J[k].p], J[k])
    /\ \A l \in KThreads \ {k} : J[l].pc # "idle" => J[l].p # J[k].p

Sane(m, J) ==
  /\ \E r \in m.regs[KERNEL] : r.use \notin Buffers
  /\ \A k \in KThreads : J[k].pc # "idle" => Proper(J[k])
  /\ BuffersOnce(m, J)
  /\ Loading(m, J)

IInv ==
  /\ ~clash
  /\ Types(mem, job)
  /\ Kept(Claims(mem, job), mem.used)
  /\ OverlapPanicCause
  /\ mem.halt = "no" => Sane(mem, job)

(* The excuse of LeakCause: an allocation that meets another one or is      *)
(* refused its place.                                                       *)
Excused ==
  \E k \in KThreads :
    /\ job[k].pc \in {"test", "map"} /\ job'[k] = Idle
    /\ job[k].r.use \in {"heap", "fdc", "sb16"}
    /\ job[k].pc = "map" => Overlaps(mem.regs[KERNEL], job[k].r.va, job[k].r.n)

LostNow == LostIn(Claims(mem, job), mem.used)

LeakStep == mem'.halt = "no" /\ ~clash' => LostNow' \subseteq LostNow \/ Excused

LEMMA KernelIsProc == KERNEL \in Procs /\ Users \subseteq Procs /\ KERNEL \notin Users
  BY MemoryAssumption DEF Procs

LEMMA IdleIs == Idle.pc = "idle" /\ Idle \in {Idle} \cup JobRec
  BY DEF Idle

-----------------------------------------------------------------------------
(* Sane, when one job changes *)

LEMMA SaneLeave ==
  ASSUME NEW m, NEW m1, NEW J \in Jobs, NEW k \in KThreads, NEW J1, J1 = Turned(J, k, Idle),
         m1.regs = m.regs, Sane(m, J)
  PROVE  Sane(m1, J1)
<1>1. J1[k] = Idle /\ \A q \in KThreads \ {k} : J1[q] = J[q]
  BY DEF Jobs, Turned
<1>2. \A q \in KThreads : J1[q].pc # "idle" => q # k /\ J1[q] = J[q]
  BY <1>1, IdleIs
<1> HIDE DEF Jobs
<1>3. BuffersOnce(m1, J1)
  BY <1>2 DEF Sane, BuffersOnce
<1>4. Loading(m1, J1)
  BY <1>2 DEF Sane, Loading
<1> QED
  BY <1>2, <1>3, <1>4 DEF Sane

(* A job goes on with the same region, whose blocks may have been found. *)
SameJob(j, X) ==
  /\ j.pc # "idle" /\ X.pc # "idle" /\ (Unlinks(X) <=> Unlinks(j))
  /\ X.p = j.p /\ X.rest = j.rest
  /\ X.r.va = j.r.va /\ X.r.n = j.r.n /\ X.r.use = j.r.use
  /\ Unlinks(j) => X.r = j.r
  /\ j.r.use = "kernel" => X.r = j.r /\ X.pc \in {"map", "fill", "count"}

LEMMA SaneGoesOn ==
  ASSUME NEW m, NEW m1, NEW J \in Jobs, NEW k \in KThreads, NEW X, NEW J1, J1 = Turned(J, k, X),
         m1.regs = m.regs, Sane(m, J), SameJob(J[k], X), Proper(X)
  PROVE  Sane(m1, J1)
<1>1. J1[k] = X /\ \A q \in KThreads \ {k} : J1[q] = J[q]
  BY DEF Jobs, Turned
<1> HIDE DEF Jobs, Unlinks
<1>2. X.pc # "idle" /\ J[k].pc # "idle" /\ (Unlinks(X) <=> Unlinks(J[k]))
      /\ X.p = J[k].p /\ X.r.use = J[k].r.use /\ (Unlinks(X) => X.r = J[k].r)
  BY DEF SameJob
<1>3. \A q \in KThreads : /\ J1[q].pc = "idle" <=> J[q].pc = "idle"
                          /\ Unlinks(J1[q]) <=> Unlinks(J[q])
                          /\ J1[q].pc # "idle" => J1[q].p = J[q].p /\ J1[q].r.use = J[q].r.use
                          /\ Unlinks(J1[q]) => J1[q].r = J[q].r
  BY <1>1, <1>2
<1>4. BuffersOnce(m1, J1)
  BY <1>3 DEF Sane, BuffersOnce
<1>5. \A rs : Loads(rs, J[k]) => Loads(rs, X)
  <2>1. Ahead(X) = Ahead(J[k])
    BY DEF SameJob, Ahead
  <2> QED
    BY <2>1 DEF SameJob, Loads, Before
<1>6. Loading(m1, J1)
  BY <1>1, <1>3, <1>5 DEF Sane, Loading
<1> QED
  BY <1>1, <1>4, <1>6 DEF Sane

(* A thread of the kernel begins to allocate for the kernel. *)
LEMMA SaneBegins ==
  ASSUME NEW m, NEW m1, NEW J \in Jobs, NEW k \in KThreads, NEW X, NEW J1, J1 = Turned(J, k, X),
         m1.regs = m.regs, Sane(m, J), J[k].pc = "idle",
         X.pc # "idle", ~Unlinks(X), X.p = KERNEL, X.r.use \in {"heap"} \cup Buffers, Proper(X),
         X.r.use \in Buffers =>
           /\ \A q \in KThreads \ {k} : J[q].pc # "idle" => J[q].r.use # X.r.use
           /\ \A r \in m.regs[KERNEL] : r.use # X.r.use
  PROVE  Sane(m1, J1)
<1>1. J1[k] = X /\ \A q \in KThreads \ {k} : J1[q] = J[q]
  BY DEF Jobs, Turned
<1> HIDE DEF Jobs
<1>2. BuffersOnce(m1, J1)
  BY <1>1 DEF Sane, BuffersOnce
<1>3. KERNEL \notin Users
  BY KernelIsProc
<1>4. Loading(m1, J1)
  BY <1>1, <1>3 DEF Sane, Loading
<1> QED
  BY <1>1, <1>2, <1>4 DEF Sane

(* The kernel gets a stack. *)
LEMMA SaneStack ==
  ASSUME NEW m \in MemRec, NEW m1, NEW J, NEW r, r.use = "stack",
         m1.regs = [m.regs EXCEPT ![KERNEL] = @ \cup {r}], Sane(m, J)
  PROVE  Sane(m1, J)
<1>1. /\ m1.regs[KERNEL] = m.regs[KERNEL] \cup {r}
      /\ \A p \in Users : m1.regs[p] = m.regs[p]
  BY KernelIsProc, MemFields
<1>2. BuffersOnce(m1, J)
  BY <1>1 DEF Sane, BuffersOnce, Buffers
<1>3. Loading(m1, J)
  BY <1>1 DEF Sane, Loading
<1> QED
  BY <1>1, <1>2, <1>3 DEF Sane


-----------------------------------------------------------------------------
(* The initial state *)

(* A process that has no job yet and no unlinking claims nothing. *)
LEMMA KernelRegionIs ==
  /\ KernelRegion \in RegionType /\ KernelRegion.va = KBASE /\ KernelRegion.pa = 0
  /\ KernelRegion.n = KSIZE /\ KernelRegion.use = "kernel"
<1>1. KBASE \in Nat /\ 0 \in Nat \cup {NoBlock} /\ KSIZE \in Nat
  BY MemoryAssumption
<1>2. "kernel" \in Uses
  BY DEF Uses
<1> QED
  BY <1>1, <1>2, RegionIs DEF KernelRegion

(* The kernel is mapped into the empty memory. *)
LEMMA FirstRegion ==
  ASSUME NEW m0, m0 = MapRegion(Empty, KERNEL, KernelRegion)
  PROVE  /\ m0 \in MemRec /\ m0.used = 0 .. Reserved - 1
         /\ Empty.regs = [p \in Procs |-> {}]
         /\ \/ m0.halt = "regions" /\ m0.regs = Empty.regs
            \/ /\ m0.halt = "no" /\ m0.regs = [Empty.regs EXCEPT ![KERNEL] = @ \cup {KernelRegion}]
               /\ m0.pages = PagesPut([p \in Procs |-> {}], KERNEL, KernelRegion)
<1>0. KERNEL \in Procs
  BY KernelIsProc
<1>1. Empty \in MemRec /\ Empty.regs = [p \in Procs |-> {}] /\ Empty.halt = "no"
      /\ Empty.used = 0 .. Reserved - 1 /\ Empty.pages = [p \in Procs |-> {}]
  <2>1. 0 .. Reserved - 1 \subseteq Blocks
    BY PhysAssumption, MemoryAssumption DEF Blocks
  <2>2. [p \in Procs |-> {}] \in [Procs -> SUBSET RegionType]
        /\ [p \in Procs |-> {}] \in [Procs -> SUBSET (Nat \X Nat)]
    OBVIOUS
  <2>3. "no" \in Halts
    BY DEF Halts
  <2> HIDE DEF Halts
  <2> QED
    BY <2>1, <2>2, <2>3 DEF Empty, MemRec
<1>2. KernelRegion \in RegionType /\ KernelRegion.pa = 0
  BY KernelRegionIs
<1>3. CASE Full(Empty, KERNEL)
  <2>1. m0 = Halt(Empty, "regions") /\ "regions" \in Halts
    BY <1>3 DEF MapRegion, Halts
  <2> QED
    BY <1>1, <2>1, HaltIs
<1>4. CASE ~Full(Empty, KERNEL)
  <2> DEFINE rs == [Empty.regs EXCEPT ![KERNEL] = @ \cup {KernelRegion}]
             m3 == [Empty EXCEPT !.regs = rs]
  <2>1. ~Overlaps(Empty.regs[KERNEL], KernelRegion.va, KernelRegion.n)
    BY <1>0, <1>1 DEF Overlaps
  <2>2. m0 = PutPages([Empty EXCEPT !.regs[KERNEL] = @ \cup {KernelRegion}], KERNEL, KernelRegion)
    BY <1>4, <2>1 DEF MapRegion
  <2>3. [Empty EXCEPT !.regs[KERNEL] = @ \cup {KernelRegion}] = m3
    BY <1>1 DEF MemRec
  <2>4. rs \in [Procs -> SUBSET RegionType]
    BY <1>0, <1>1, <1>2
  <2> HIDE DEF rs
  <2>5. m3 \in MemRec
    BY <1>1, <2>4, MemIs, MemFields
  <2>6. m3.used = Empty.used /\ m3.halt = Empty.halt /\ m3.regs = rs
        /\ m3.pages = Empty.pages
    BY <1>1 DEF MemRec
  <2> HIDE DEF m3
  <2>7. m0 = PutPages(m3, KERNEL, KernelRegion) /\ KernelRegion.pa \in Nat
    BY <1>2, <2>2, <2>3
  <2>8. m0 \in MemRec /\ m0.used = m3.used /\ m0.regs = m3.regs /\ m0.halt = m3.halt
        /\ m0.pages = PagesPut(m3.pages, KERNEL, KernelRegion)
    BY <1>0, <1>2, <2>5, <2>7, PutIs
  <2> QED
    BY <1>1, <2>6, <2>8 DEF rs
<1> QED
  BY <1>3, <1>4

(* Only threads that give blocks back have done with some of them. *)
LEMMA ClaimFrom ==
  ASSUME NEW m, NEW J, \A k \in KThreads : J[k].pc \notin {"free", "undo"}
  PROVE  \A c \in Claims(m, J) : c.from = 0
<1>1. \A p, r : \A c \in RegionClaim(p, r) : c.from = 0
  BY DEF RegionClaim
<1>2. \A k \in KThreads : \A c \in ThreadClaim(k, J[k]) : c.from = 0
  BY DEF ThreadClaim
<1> HIDE DEF RegionClaim, ThreadClaim
<1> QED
  BY <1>1, <1>2, ClaimIs

LEMMA WholeIsUsed ==
  ASSUME NEW Cs, NEW used, Kept(Cs, used), \A c \in Cs : c.from = 0
  PROVE  Extents(Cs) \subseteq used
<1> SUFFICES ASSUME NEW c \in Cs PROVE Extent(c) \subseteq used
  BY DEF Extents
<1>1. WellPlaced(c) /\ Area(c) \subseteq used /\ c.from = 0
  BY DEF Kept
<1>2. Area(c) = Extent(c)
  BY <1>1 DEF Area, Extent, WellPlaced
<1> QED
  BY <1>1, <1>2

LEMMA InitInv == Init => IInv
<1> SUFFICES ASSUME Init PROVE IInv
  OBVIOUS
<1> DEFINE m0 == MapRegion(Empty, KERNEL, KernelRegion)
           m1 == AddStack(m0, KERNEL)
           m2 == AddStack(m1, KERNEL)
<1>0. KERNEL \in Procs /\ job = [k \in KThreads |-> Idle] /\ mem = m2
  BY KernelIsProc DEF Init
<1>1. job \in Jobs /\ \A k \in KThreads : job[k] = Idle /\ job[k].pc = "idle"
  BY <1>0, IdleIs DEF Jobs
<1>2. /\ m0 \in MemRec /\ m0.used = 0 .. Reserved - 1 /\ Empty.regs = [p \in Procs |-> {}]
      /\ \/ m0.halt = "regions" /\ m0.regs = Empty.regs
         \/ m0.halt = "no" /\ m0.regs = [Empty.regs EXCEPT ![KERNEL] = @ \cup {KernelRegion}]
  BY FirstRegion
<1>3. KernelRegion \in RegionType /\ KernelRegion.va = KBASE /\ KernelRegion.pa = 0
      /\ KernelRegion.n = KSIZE /\ KernelRegion.use = "kernel"
  BY KernelRegionIs
<1> HIDE DEF m0
<1>5. UnlinkBuffers(job) /\ UnlinkingIn(job) = {}
  BY <1>1 DEF UnlinkBuffers, UnlinkingIn, Unlinks
<1>6. Claims(m0, job) = {}
  <2>1. \A p \in Procs : \A r \in m0.regs[p] : r = KernelRegion
    BY <1>0, <1>2
  <2>2. RegionClaim(KERNEL, KernelRegion) = {}
    BY <1>3 DEF RegionClaim, Owned, AutoFree
  <2>3. \A p \in Procs : \A r \in LiveIn(m0, job, p) : r = KernelRegion
    BY <2>1 DEF LiveIn
  <2>4. \A p \in Procs : \A c : c \notin RegionClaim(p, KernelRegion)
    BY <1>3 DEF RegionClaim, Owned, AutoFree
  <2>5. \A k \in KThreads : ThreadClaim(k, job[k]) = {}
    BY <1>1 DEF ThreadClaim
  <2> HIDE DEF RegionClaim, ThreadClaim, LiveIn
  <2>6. \A c : c \notin Claims(m0, job)
    BY <2>3, <2>4, <2>5, ClaimIs
  <2> QED
    BY <2>6
<1>7. Kept(Claims(m0, job), m0.used)
  BY <1>2, <1>6 DEF Kept
<1>7a. Extents(Claims(m0, job)) = {}
  BY <1>6 DEF Extents
<1> HIDE DEF m1
<1>8. m1 \in MemRec /\ (StackRefused(m0, m1) \/ \E b : StackGiven(m0, KERNEL, m1, b))
  BY <1>0, <1>2, AddStackIs DEF m1
<1>9. Kept(Claims(m1, job), m1.used)
  BY <1>0, <1>2, <1>5, <1>7, <1>7a, AddStackKeeps DEF m1
<1>9a. (m2.used \ m1.used) \cap Extents(Claims(m1, job)) = {}
  <2>1. \A c \in Claims(m1, job) : c.from = 0
    BY <1>1, ClaimFrom
  <2>2. Extents(Claims(m1, job)) \subseteq m1.used
    BY <1>9, <2>1, WholeIsUsed
  <2> QED
    BY <2>2
<1> HIDE DEF m2
<1>10. m2 \in MemRec /\ (StackRefused(m1, m2) \/ \E b : StackGiven(m1, KERNEL, m2, b))
  BY <1>0, <1>8, AddStackIs DEF m2
<1>11. Kept(Claims(m2, job), m2.used)
  BY <1>0, <1>5, <1>8, <1>9, <1>9a, AddStackKeeps DEF m2
<1>12. m0.halt # "overlap" /\ m1.halt # "overlap" /\ m2.halt # "overlap"
  BY <1>2, <1>8, <1>10 DEF StackRefused, StackGiven
<1>13. IsFiniteSet(m0.regs[KERNEL])
  <2>1. m0.regs[KERNEL] = {} \/ m0.regs[KERNEL] = {} \cup {KernelRegion}
    BY <1>0, <1>2
  <2>2. IsFiniteSet({}) /\ IsFiniteSet({} \cup {KernelRegion})
    BY FS_EmptySet, FS_AddElement
  <2> QED
    BY <2>1, <2>2
<1>14. IsFiniteSet(m1.regs[KERNEL])
  <2>1. CASE StackRefused(m0, m1)
    BY <1>13, <2>1 DEF StackRefused
  <2>2. ASSUME NEW b, StackGiven(m0, KERNEL, m1, b) PROVE IsFiniteSet(m1.regs[KERNEL])
    <3>1. m1.regs[KERNEL] = m0.regs[KERNEL] \cup {StackRegion(m0.regs[KERNEL], b)}
      BY <1>0, <1>2, <2>2, MemFields DEF StackGiven
    <3> QED
      BY <1>13, <3>1, FS_AddElement
  <2> QED
    BY <1>8, <2>1, <2>2
<1>15. IsFiniteSet(m2.regs[KERNEL])
  <2>1. CASE StackRefused(m1, m2)
    BY <1>14, <2>1 DEF StackRefused
  <2>2. ASSUME NEW b, StackGiven(m1, KERNEL, m2, b) PROVE IsFiniteSet(m2.regs[KERNEL])
    <3>1. m2.regs[KERNEL] = m1.regs[KERNEL] \cup {StackRegion(m1.regs[KERNEL], b)}
      BY <1>0, <1>8, <2>2, MemFields DEF StackGiven
    <3> QED
      BY <1>14, <3>1, FS_AddElement
  <2> QED
    BY <1>10, <2>1, <2>2
<1>16. ASSUME m2.halt = "no" PROVE Sane(m2, job)
  <2>1. PICK b2 : StackGiven(m1, KERNEL, m2, b2)
    BY <1>10, <1>16 DEF StackRefused
  <2>2. m1.halt = "no"
    BY <2>1 DEF StackGiven
  <2>3. PICK b1 : StackGiven(m0, KERNEL, m1, b1)
    BY <1>8, <2>2 DEF StackRefused
  <2>4. m0.halt = "no"
    BY <2>3 DEF StackGiven
  <2>5. m0.regs[KERNEL] = {KernelRegion}
    BY <1>0, <1>2, <2>4
  <2>6. Sane(m0, job)
    BY <1>1, <1>3, <2>5 DEF Sane, BuffersOnce, Buffers, Loading
  <2>7. /\ StackRegion(m0.regs[KERNEL], b1).use = "stack"
        /\ StackRegion(m1.regs[KERNEL], b2).use = "stack"
    BY DEF StackRegion
  <2>8. Sane(m1, job)
    BY <1>2, <2>3, <2>6, <2>7, SaneStack DEF StackGiven
  <2> QED
    BY <1>8, <2>1, <2>7, <2>8, SaneStack DEF StackGiven
<1> QED
  BY <1>0, <1>1, <1>10, <1>11, <1>12, <1>15, <1>16 DEF Init, IInv, Types, OverlapPanicCause

-----------------------------------------------------------------------------
(* The steps *)

Inv(m, J) ==
  /\ Types(m, J) /\ Kept(Claims(m, J), m.used)
  /\ m.halt # "overlap" /\ (m.halt = "no" => Sane(m, J))

NothingLost(m, J, m1, J1) ==
  LostIn(Claims(m1, J1), m1.used) \subseteq LostIn(Claims(m, J), m.used)

(* What is to be shown of a step. *)
LEMMA StepOut ==
  ASSUME ~clash', Inv(mem', job'), mem'.halt = "no" => NothingLost(mem, job, mem', job') \/ Excused
  PROVE  IInv' /\ LeakStep
<1>1. OverlapPanicCause'
  BY DEF OverlapPanicCause, Inv
<1>2. Types(mem, job)' = Types(mem', job')
  BY DEF Types
<1>3. Sane(mem, job)' = Sane(mem', job')
  BY DEF Sane
<1>4. Kept(Claims(mem, job), mem.used)' = Kept(Claims(mem', job'), mem'.used)
  OBVIOUS
<1>5. LostNow' = LostIn(Claims(mem', job'), mem'.used)
  BY DEF LostNow
<1>6. IInv'
  BY <1>1, <1>2, <1>3, <1>4 DEF IInv, Inv
<1>7. LeakStep
  BY <1>5 DEF LeakStep, LostNow, NothingLost
<1> QED
  BY <1>6, <1>7

LEMMA RunningIs ==
  ASSUME IInv, ~clash', NEW k \in KThreads, NEW at, Running(k, at)
  PROVE  /\ mem \in MemRec /\ job \in Jobs /\ IsFiniteSet(mem.regs[KERNEL]) /\ mem.halt = "no"
         /\ Kept(Claims(mem, job), mem.used) /\ Sane(mem, job)
         /\ job[k].pc = at /\ job[k] \in {Idle} \cup JobRec
         /\ (at # "idle" => job[k] \in JobRec /\ Proper(job[k]))
         /\ (at = "idle" => job[k] = Idle)
<1>1. mem \in MemRec /\ job \in Jobs /\ job[k] \in {Idle} \cup JobRec
  BY DEF IInv, Types, Jobs
<1>2. mem.halt = "no" /\ job[k].pc = at /\ Sane(mem, job) /\ Kept(Claims(mem, job), mem.used)
      /\ IsFiniteSet(mem.regs[KERNEL])
  BY DEF Running, IInv, Types
<1>3. at # "idle" => Proper(job[k])
  BY <1>2 DEF Sane
<1> QED
  BY <1>1, <1>2, <1>3, JobCases

(* The machine stops for another reason than an overlap. *)
LEMMA StopIs ==
  ASSUME IInv, ~clash', NEW k \in KThreads, NEW at, Running(k, at), NEW why \in Halts \ {"no", "overlap"},
         mem' = Halt(mem, why), job' = job
  PROVE  IInv' /\ LeakStep
<1>1. /\ mem \in MemRec /\ job \in Jobs /\ IsFiniteSet(mem.regs[KERNEL])
      /\ Kept(Claims(mem, job), mem.used)
  BY RunningIs
<1>2. mem' \in MemRec /\ mem'.halt = why /\ mem'.used = mem.used /\ mem'.regs = mem.regs
  BY <1>1, HaltIs
<1>3. Claims(mem', job') = Claims(mem, job)
  BY <1>2 DEF Claims, LiveIn
<1>4. why # "no" /\ why # "overlap"
  OBVIOUS
<1>5. Inv(mem', job')
  BY <1>1, <1>2, <1>3, <1>4 DEF Inv, Types
<1> QED
  BY <1>2, <1>4, <1>5, StepOut

LEMMA WhyIs ==
  /\ "memory" \in Halts \ {"no", "overlap"} /\ "regions" \in Halts \ {"no", "overlap"}
  /\ "lost race" \in Halts \ {"no", "overlap"} /\ "place" \in Halts \ {"no", "overlap"}
  BY DEF Halts

(* A thread goes on; regions, and blocks if the claim is the same, do not   *)
(* change.                                                                  *)
LEMMA GoesOn ==
  ASSUME NEW m, NEW m1, NEW J \in Jobs, NEW k \in KThreads, NEW X, NEW J1, J1 = Turned(J, k, X),
         m1.regs = m.regs, 
         (~Unlinks(J[k]) /\ ~Unlinks(X)) \/ (Unlinks(J[k]) /\ Unlinks(X) /\ X.r = J[k].r)
  PROVE  ClaimsTurned(m, J, m1, J1, k, X)
<1>1. UnlinkingIn(J1) = UnlinkingIn(J)
  BY UnlinkingChange
<1>2. SameLive(m, J, m1, J1)
  BY <1>1 DEF LiveIn, SameLive
<1> QED
  BY <1>2, JobChange

LEMMA JobsIs ==
  ASSUME NEW J \in Jobs, NEW k \in KThreads, NEW X \in {Idle} \cup JobRec
  PROVE  Turned(J, k, X) \in Jobs
<1> HIDE DEF Idle
<1> QED
  BY DEF Jobs, Turned

(* A thread gives up. *)
LEMMA LeaveIs ==
  ASSUME IInv, ~clash', NEW k \in KThreads, NEW at, Running(k, at), at \notin {"idle", "free", "unlink"},
         mem' = mem, job' = Turned(job, k, Idle), ThreadClaim(k, job[k]) = {} \/ Excused
  PROVE  IInv' /\ LeakStep
<1>1. /\ mem \in MemRec /\ job \in Jobs /\ IsFiniteSet(mem.regs[KERNEL]) /\ mem.halt = "no"
      /\ Kept(Claims(mem, job), mem.used) /\ Sane(mem, job) /\ job[k].pc = at
  BY RunningIs
<1>2. ~Unlinks(Idle) /\ ThreadClaim(k, Idle) = {} /\ ~Unlinks(job[k])
  BY <1>1, IdleIs DEF ThreadClaim, Unlinks
<1>3. Claims(mem', job') = Claims(mem, job) \ ThreadClaim(k, job[k])
  BY <1>1, <1>2, GoesOn DEF ClaimsTurned
<1>4. Kept(Claims(mem', job'), mem'.used)
  BY <1>1, <1>3, KeptLess
<1>5. Sane(mem', job')
  BY <1>1, SaneLeave
<1>6. job' \in Jobs
  BY <1>1, IdleIs, JobsIs
<1>7. Inv(mem', job')
  BY <1>1, <1>4, <1>5, <1>6 DEF Inv, Types
<1>8. NothingLost(mem, job, mem', job') \/ Excused
  BY <1>3 DEF NothingLost
<1> QED
  BY <1>7, <1>8, StepOut

(* A thread begins a job that claims nothing yet. *)
LEMMA BeginIs ==
  ASSUME IInv, ~clash', NEW k \in KThreads, Running(k, "idle"), NEW X \in JobRec,
         mem' = mem, job' = Turned(job, k, X), X.pc \in {"find", "map"}, X.p = KERNEL,
         X.r.use \in {"heap"} \cup Buffers, Proper(X), X.pc = "map" => X.r.use = "lfb",
         X.r.use \in Buffers =>
           /\ \A q \in KThreads \ {k} : job[q].pc # "idle" => job[q].r.use # X.r.use
           /\ \A r \in mem.regs[KERNEL] : r.use # X.r.use
  PROVE  IInv' /\ LeakStep
<1>1. /\ mem \in MemRec /\ job \in Jobs /\ IsFiniteSet(mem.regs[KERNEL]) /\ mem.halt = "no"
      /\ Kept(Claims(mem, job), mem.used) /\ Sane(mem, job) /\ job[k].pc = "idle"
  BY RunningIs
<1>2. /\ ThreadClaim(k, job[k]) = {} /\ ThreadClaim(k, X) = {}
      /\ X.pc # "idle" /\ ~Unlinks(job[k]) /\ ~Unlinks(X) /\ mem'.regs = mem.regs
  <2>1. ThreadClaim(k, job[k]) = {}
    BY <1>1 DEF ThreadClaim
  <2>2. ThreadClaim(k, X) = {}
    BY DEF ThreadClaim
  <2> QED
    BY <1>1, <2>1, <2>2 DEF Unlinks
<1>3. Claims(mem', job') = Claims(mem, job)
  <2>1. ClaimsTurned(mem, job, mem', job', k, X)
    BY <1>1, <1>2, GoesOn
  <2> QED
    BY <1>2, <2>1 DEF ClaimsTurned
<1>4. Sane(mem', job')
  BY <1>1, <1>2, SaneBegins
<1>5. job' \in Jobs
  BY <1>1, JobsIs
<1>6. Inv(mem', job')
  BY <1>1, <1>3, <1>4, <1>5 DEF Inv, Types
<1>7. NothingLost(mem, job, mem', job')
  BY <1>3 DEF NothingLost
<1> QED
  BY <1>6, <1>7, StepOut

LEMMA SaneSame ==
  ASSUME NEW m, NEW m1, NEW J, m1.regs = m.regs, Sane(m, J)
  PROVE  Sane(m1, J)
<1>1. BuffersOnce(m1, J)
  BY DEF Sane, BuffersOnce
<1>2. Loading(m1, J)
  BY DEF Sane, Loading
<1> QED
  BY <1>1, <1>2 DEF Sane

LEMMA UnlinkingBuffers ==
  ASSUME NEW m, NEW J \in Jobs, Sane(m, J)
  PROVE  UnlinkBuffers(J)
<1>1. \A k \in KThreads : Unlinks(J[k]) => J[k].pc # "idle"
  BY DEF Unlinks
<1>2. \A k \in KThreads : Unlinks(J[k]) => Proper(J[k])
  BY <1>1 DEF Sane
<1> QED
  BY <1>2 DEF Proper, UnlinkBuffers

LEMMA FiniteStack ==
  ASSUME NEW m \in MemRec, IsFiniteSet(m.regs[KERNEL]), NEW p \in Procs, NEW m1,
         StackRefused(m, m1) \/ \E b : StackGiven(m, p, m1, b)
  PROVE  IsFiniteSet(m1.regs[KERNEL])
<1>1. CASE StackRefused(m, m1)
  BY <1>1 DEF StackRefused
<1>2. ASSUME NEW b, StackGiven(m, p, m1, b) PROVE IsFiniteSet(m1.regs[KERNEL])
  <2>1. \/ m1.regs[KERNEL] = m.regs[KERNEL]
        \/ m1.regs[KERNEL] = m.regs[KERNEL] \cup {StackRegion(m.regs[p], b)}
    BY <1>2, KernelIsProc, MemFields DEF StackGiven
  <2> QED
    BY <2>1, FS_AddElement
<1> QED
  BY <1>1, <1>2

(* The blocks S are new and not in a word that another thread is clearing.  *)
LEMMA NewIsFresh ==
  ASSUME NEW m, Kept(Claims(m, job), m.used), NEW k \in KThreads, job[k].pc \notin {"free", "undo"},
         NEW S, S \cap m.used = {}, \A b \in S : b \div W \notin Clearing(k)
  PROVE  Fresh(Claims(m, job), m.used, S)
<1> SUFFICES ASSUME NEW c \in Claims(m, job), NEW x \in Extent(c), x \in S PROVE FALSE
  BY DEF Fresh, Extents
<1>2. CASE c.from = 0
  <2>1. WellPlaced(c) /\ Area(c) \subseteq m.used
    BY DEF Kept
  <2>2. Area(c) = Extent(c)
    BY <1>2, <2>1 DEF Area, Extent, WellPlaced
  <2> QED
    BY <2>1, <2>2
<1>3. CASE c.from # 0
  <2>1. PICK q \in KThreads : c \in ThreadClaim(q, job[q])
    <3>1. \A p, r : \A d \in RegionClaim(p, r) : d.from = 0
      BY DEF RegionClaim
    <3> HIDE DEF RegionClaim, ThreadClaim
    <3> QED
      BY <1>3, <3>1, ClaimIs
  <2>2. job[q].pc \in {"free", "undo"} /\ c.r = job[q].r /\ c.n = job[q].r.n
    BY <1>3, <2>1 DEF ThreadClaim
  <2>3. q \in {q_1 \in KThreads \ {k} : job[q_1].pc \in {"free", "undo"}}
    BY <2>2
  <2>4. x \in Run(job[q].r.pa, job[q].r.n)
    BY <2>2 DEF Extent
  <2>5. x \div W \in Clearing(k)
    BY <2>3, <2>4 DEF Clearing
  <2> QED
    BY <2>5
<1> QED
  BY <1>2, <1>3

LEMMA CreateThread ==
  ASSUME IInv, ~clash', NEW k \in KThreads, sched_create_thread(k)
  PROVE  IInv' /\ LeakStep
<1> DEFINE a == AddStack(mem, KERNEL)
<1>0. Running(k, "idle") /\ job' = job /\ mem' = TempMap(a, STACK) /\ KERNEL \in Procs
  BY KernelIsProc DEF sched_create_thread
<1>1. /\ mem \in MemRec /\ job \in Jobs /\ IsFiniteSet(mem.regs[KERNEL]) /\ mem.halt = "no"
      /\ Kept(Claims(mem, job), mem.used) /\ Sane(mem, job) /\ job[k].pc = "idle"
  BY <1>0, RunningIs
<1>2. a \in MemRec /\ (StackRefused(mem, a) \/ \E b : StackGiven(mem, KERNEL, a, b))
  BY <1>0, <1>1, AddStackIs
<1>3. UnlinkBuffers(job)
  BY <1>1, UnlinkingBuffers
<1> HIDE DEF a
<1>4. /\ mem' \in MemRec /\ mem'.used = a.used /\ mem'.regs = a.regs
      /\ mem'.halt = a.halt \/ mem'.halt = "regions"
  BY <1>0, <1>2, TempMapIs
<1>5. (a.used \ mem.used) \cap Extents(Claims(mem, job)) = {}
  <2>1. ~Collides(k, a.used \ mem.used)
    BY <1>4 DEF sched_create_thread, Interferes
  <2>2. \A b \in a.used \ mem.used : b \div W \notin Clearing(k)
    BY <2>1 DEF Collides
  <2>3. Fresh(Claims(mem, job), mem.used, a.used \ mem.used)
    BY <1>1, <2>2, NewIsFresh
  <2> QED
    BY <2>3 DEF Fresh
<1>6. /\ Kept(Claims(a, job), a.used)
      /\ a.halt = "no" =>
           LostIn(Claims(a, job), a.used) \subseteq LostIn(Claims(mem, job), mem.used)
  BY <1>0, <1>1, <1>3, <1>5, AddStackKeeps DEF a
<1>7. Claims(mem', job') = Claims(a, job)
  BY <1>0, <1>4 DEF Claims, LiveIn
<1>8. IsFiniteSet(mem'.regs[KERNEL])
  BY <1>0, <1>1, <1>2, <1>4, FiniteStack
<1>9. a.halt # "overlap"
  BY <1>1, <1>2 DEF StackRefused, StackGiven
<1>10. ASSUME mem'.halt = "no" PROVE Sane(mem', job')
  <2>1. PICK b : StackGiven(mem, KERNEL, a, b)
    BY <1>2, <1>4, <1>10 DEF StackRefused
  <2>2. StackRegion(mem.regs[KERNEL], b).use = "stack"
    BY DEF StackRegion
  <2>3. Sane(a, job)
    BY <1>1, <2>1, <2>2, SaneStack DEF StackGiven
  <2> QED
    BY <1>0, <1>4, <2>3, SaneSame
<1>11. Inv(mem', job')
  BY <1>0, <1>1, <1>4, <1>6, <1>7, <1>8, <1>9, <1>10 DEF Inv, Types
<1>12. mem'.halt = "no" => NothingLost(mem, job, mem', job')
  BY <1>4, <1>6, <1>7 DEF NothingLost
<1> QED
  BY <1>11, <1>12, StepOut

(* The end of the kernel's address space is where its last region ends. *)
LEMMA EndIs ==
  ASSUME NEW m \in MemRec, IsFiniteSet(m.regs[KERNEL]), m.regs[KERNEL] # {}
  PROVE  /\ vmm_get_address_space_end(m) \in Nat
         /\ \E t \in m.regs[KERNEL] : /\ vmm_get_address_space_end(m) = t.va + t.n
                                      /\ \A s \in m.regs[KERNEL] : s.va <= t.va
<1> DEFINE rs == m.regs[KERNEL]
           places == {r.va : r \in rs}
           Last(r) == r \in rs /\ \A s \in rs : s.va <= r.va
<1>1. rs \in SUBSET RegionType
  BY KernelIsProc, MemFields
<1>2. \A r \in rs : r.va \in Nat /\ r.n \in Nat
  BY <1>1 DEF RegionType
<1> HIDE DEF rs
<1>3. IsFiniteSet(places)
  <2> DEFINE f == [r \in rs |-> r.va]
  <2>1. f \in Surjection(rs, places)
    BY DEF Surjection
  <2> HIDE DEF f, places
  <2> QED
    BY <2>1, FS_Surjection DEF rs
<1>4. places \in SUBSET Nat /\ places # {}
  BY <1>2 DEF rs
<1>5. PICK n \in Nat : places \subseteq 0 .. n
  BY <1>3, <1>4, Bounded
<1>6. Max(places) \in places /\ \A y \in places : Max(places) >= y
  BY <1>4, <1>5, MaxIs
<1>7. PICK r \in rs : Max(places) = r.va
  BY <1>6
<1>8. \A s \in rs : s.va \in places
  OBVIOUS
<1>9. Last(r)
  <2>1. \A s \in rs : Max(places) >= s.va
    BY <1>6, <1>8
  <2> QED
    BY <1>2, <1>7, <2>1
<1> DEFINE l == CHOOSE x : Last(x)
<1>10. Last(l)
  BY <1>9
<1>11. (CHOOSE x \in rs : \A s \in rs : s.va <= x.va) = l
  OBVIOUS
<1> HIDE DEF l
<1>12. l.n \in Nat /\ l.va \in Nat /\ l \in rs /\ \A s \in rs : s.va <= l.va
  BY <1>2, <1>10
<1>13. Max(places) = l.va
  <2>1. r.va <= l.va /\ l.va <= r.va
    BY <1>9, <1>10
  <2> QED
    BY <1>2, <1>7, <1>12, <2>1
<1> HIDE DEF Last
<1>14. vmm_get_address_space_end(m) = Max(places) + l.n
  BY <1>11 DEF vmm_get_address_space_end, rs
<1>15. vmm_get_address_space_end(m) = l.va + l.n
  BY <1>13, <1>14
<1> QED
  BY <1>12, <1>15 DEF rs

NewJob(at, p, r, rest) == [pc |-> at, p |-> p, r |-> r, rest |-> rest, i |-> 0]

Started(X, at, p, r, rest) ==
  /\ X \in JobRec /\ X.pc = at /\ X.p = p /\ X.r = r /\ X.rest = rest /\ X.i = 0

LEMMA StartIs ==
  ASSUME NEW k \in KThreads, NEW at \in Steps,
         NEW p \in Procs, NEW r \in RegionType, NEW rest \in Seq(Segment),
         Start(k, at, p, r, rest), NEW X, X = NewJob(at, p, r, rest)
  PROVE  Started(X, at, p, r, rest) /\ job' = Turned(job, k, X)
  BY DEF Started, NewJob, JobRec, Start, Turned

LEMMA CreateHeap ==
  ASSUME IInv, ~clash', NEW k \in KThreads, vmm_create_heap(k)
  PROVE  IInv' /\ LeakStep
<1> DEFINE r == Region(HeapPlace(mem), HEAP, "heap")
           X == NewJob("find", KERNEL, r, <<>>)
<1>1. r \in RegionType /\ r.use = "heap" /\ r.n \in Nat \ {0}
  <2>1. HeapPlace(mem) \in Nat /\ HEAP \in Nat \ {0} /\ NoBlock \in Nat \cup {NoBlock}
    BY MemoryAssumption DEF HeapPlace
  <2>2. "heap" \in Uses
    BY DEF Uses
  <2> QED
    BY <2>1, <2>2, RegionIs DEF Region
<1> HIDE DEF r
<1>2. <<>> \in Seq(Segment) /\ KERNEL \in Procs /\ KERNEL \notin Users
  BY KernelIsProc
<1>3. Running(k, "idle") /\ mem' = mem /\ Start(k, "find", KERNEL, r, <<>>)
  BY DEF vmm_create_heap, r
<1>3a. "find" \in Steps
  BY DEF Steps
<1> HIDE DEF X
<1>4. Started(X, "find", KERNEL, r, <<>>) /\ job' = Turned(job, k, X)
  BY <1>1, <1>2, <1>3, <1>3a, StartIs DEF X
<1>5. Proper(X)
  BY <1>1, <1>2, <1>4 DEF Proper, Started, Unlinks
<1>6. /\ X.r.use = "heap" /\ "heap" \notin Buffers /\ X \in JobRec /\ X.p = KERNEL
      /\ X.pc \in {"find", "map"} /\ X.pc # "map"
  BY <1>1, <1>4 DEF Buffers, Started
<1> QED
  BY <1>3, <1>4, <1>5, <1>6, BeginIs

(* A driver begins to make its buffer. *)
LEMMA BufferBegins ==
  ASSUME IInv, ~clash', NEW k \in KThreads, Running(k, "idle"), mem' = mem, NEW at, NEW r \in RegionType,
         \/ at = "find" /\ r.use \in {"fdc", "sb16"} /\ 0 < r.n
         \/ at = "map" /\ r.use = "lfb" /\ r.pa \in Nat /\ 0 < r.n,
         ~HasRegion(r.use), Start(k, at, KERNEL, r, <<>>)
  PROVE  IInv' /\ LeakStep
<1> DEFINE X == NewJob(at, KERNEL, r, <<>>)
<1>1. <<>> \in Seq(Segment) /\ KERNEL \in Procs /\ KERNEL \notin Users
  BY KernelIsProc
<1>2. at \in Steps /\ at \in {"find", "map"}
  BY DEF Steps
<1> HIDE DEF X
<1>3. Started(X, at, KERNEL, r, <<>>) /\ job' = Turned(job, k, X)
  BY <1>1, <1>2, StartIs DEF X
<1>4. r.n \in Nat
  BY DEF RegionType
<1>5. Proper(X)
  <2>1. CASE at = "find"
    BY <1>1, <1>3, <1>4, <2>1 DEF Proper, Started, Unlinks
  <2>2. CASE at = "map"
    BY <1>1, <1>3, <1>4, <2>2 DEF Proper, Started, Unlinks
  <2> QED
    BY <1>2, <2>1, <2>2
<1>6. /\ X.r.use \in Buffers /\ (X.pc = "map" => X.r.use = "lfb")
      /\ X \in JobRec /\ X.p = KERNEL /\ X.pc \in {"find", "map"}
  BY <1>2, <1>3 DEF Buffers, Started
<1>7. /\ \A q \in KThreads \ {k} : job[q].pc # "idle" => job[q].r.use # X.r.use
      /\ \A s \in mem.regs[KERNEL] : s.use # X.r.use
  BY <1>3 DEF HasRegion, Started
<1> QED
  BY <1>2, <1>3, <1>5, <1>6, <1>7, BeginIs

LEMMA DriverDma ==
  ASSUME IInv, ~clash', NEW k \in KThreads, driver_dma(k)
  PROVE  IInv' /\ LeakStep
<1>1. Running(k, "idle") /\ mem' = mem
  BY DEF driver_dma
<1>2. PICK u \in {"sb16", "fdc"} :
        /\ ~HasRegion(u)
        /\ Start(k, "find", KERNEL,
                 Region(IF u = "sb16" THEN TEMP - DMA ELSE vmm_get_address_space_end(mem), DMA, u),
                 <<>>)
  BY DEF driver_dma
<1> DEFINE va == IF u = "sb16" THEN TEMP - DMA ELSE vmm_get_address_space_end(mem)
           r == Region(va, DMA, u)
<1>3. vmm_get_address_space_end(mem) \in Nat
  <2>1. mem.regs[KERNEL] # {}
    BY <1>1, RunningIs DEF Sane
  <2> QED
    BY <1>1, <2>1, RunningIs, EndIs
<1>4. va \in Nat /\ DMA \in Nat \ {0} /\ NoBlock \in Nat \cup {NoBlock}
  BY <1>3, MemoryAssumption
<1>5. u \in Uses
  BY DEF Uses, AutoFree
<1> HIDE DEF va
<1>6. r \in RegionType /\ r.use = u /\ r.n = DMA
  BY <1>4, <1>5, RegionIs DEF Region
<1>7. Start(k, "find", KERNEL, r, <<>>)
  BY <1>2 DEF va
<1> HIDE DEF r
<1>8. r.use \in {"fdc", "sb16"} /\ 0 < r.n /\ ~HasRegion(r.use)
  BY <1>2, <1>4, <1>6
<1> QED
  BY <1>1, <1>6, <1>7, <1>8, BufferBegins

LEMMA DriverLfb ==
  ASSUME IInv, ~clash', NEW k \in KThreads, driver_lfb(k)
  PROVE  IInv' /\ LeakStep
<1> DEFINE va == vmm_get_address_space_end(mem)
           r0 == Region(va, LFB, "lfb")
           r == [r0 EXCEPT !.pa = W * Words]
<1>1. Running(k, "idle") /\ mem' = mem /\ ~HasRegion("lfb") /\ Start(k, "map", KERNEL, r, <<>>)
  BY DEF driver_lfb
<1>2. va \in Nat
  <2>1. mem.regs[KERNEL] # {}
    BY <1>1, RunningIs DEF Sane
  <2> QED
    BY <1>1, <2>1, RunningIs, EndIs
<1> HIDE DEF va
<1>3. LFB \in Nat \ {0} /\ W * Words \in Nat
  BY MemoryAssumption, PhysAssumption
<1>4. r = [va |-> va, pa |-> W * Words, n |-> LFB, use |-> "lfb"]
  BY DEF Region
<1>5. "lfb" \in Uses
  BY DEF Uses
<1> HIDE DEF r
<1>6. r \in RegionType /\ r.use = "lfb" /\ r.pa \in Nat /\ 0 < r.n
  BY <1>2, <1>3, <1>4, <1>5, RegionIs
<1> QED
  BY <1>1, <1>6, BufferBegins

-----------------------------------------------------------------------------
(* The loader *)

(* A segment that fills its pages gets one page too many. *)
LEMMA Rounding ==
  ASSUME NEW b \in Nat, NEW d \in Nat \ {0}
  PROVE  b \div d \in Nat /\ (b - 1) \div d \in Int /\ b \div d <= (b - 1) \div d + 1
<1>1. b \div d \in Nat /\ (b - 1) \div d \in Int
  OBVIOUS
<1>2. b \div d <= (b - 1) \div d + 1
  OBVIOUS
<1> QED
  BY <1>1, <1>2

LEMMA PagesIs ==
  ASSUME NEW s \in Segment
  PROVE  SegmentPages(s) \in Nat \ {0} /\ SegmentPages(s) <= (s.bytes - 1) \div PAGE + 2
<1> DEFINE b == s.bytes
<1>1. b \in Nat /\ PAGE \in Nat \ {0}
  BY MemoryAssumption DEF Segment
<1>2. SegmentPages(s) = b \div PAGE + 1
  BY DEF SegmentPages
<1> HIDE DEF b
<1>3. b \div PAGE \in Nat /\ (b - 1) \div PAGE \in Int /\ b \div PAGE <= (b - 1) \div PAGE + 1
  BY <1>1, Rounding
<1>4. SegmentPages(s) \in Nat \ {0} /\ SegmentPages(s) <= (b - 1) \div PAGE + 2
  BY <1>2, <1>3
<1> QED
  BY <1>4 DEF b

LEMMA ImageIs ==
  ASSUME NEW image \in Images
  PROVE  image \in Seq(Segment) /\ Segments(image)
<1>1. WellFormed(image)
  BY ImagesAssumption
<1>2. image \in Seq(Segment)
  BY <1>1 DEF WellFormed, Segment
<1>3. \A i \in 1 .. Len(image) : image[i] \in Segment
  BY <1>2
<1>4. ASSUME NEW i \in 1 .. Len(image), NEW l \in i + 1 .. Len(image)
      PROVE  image[i].va + SegmentPages(image[i]) <= image[l].va + 1
  <2>1. l \in 1 .. Len(image)
    BY <1>2
  <2>2. image[i].va + (image[i].bytes - 1) \div PAGE < image[l].va
    BY <1>1 DEF WellFormed
  <2>3. /\ SegmentPages(image[i]) \in Nat
        /\ SegmentPages(image[i]) <= (image[i].bytes - 1) \div PAGE + 2
    BY <1>3, PagesIs
  <2>4. image[i].va \in Nat /\ image[l].va \in Nat /\ image[i].bytes \in Nat
    BY <1>3, <2>1 DEF Segment
  <2>5. PAGE \in Nat \ {0}
    BY MemoryAssumption
  <2> DEFINE d == (image[i].bytes - 1) \div PAGE
  <2>6. d \in Int
    BY <2>4, <2>5
  <2>7. image[i].va + d < image[l].va /\ SegmentPages(image[i]) <= d + 2
    BY <2>2, <2>3
  <2> HIDE DEF d
  <2> QED
    BY <2>3, <2>4, <2>6, <2>7
<1>5. \A i \in 1 .. Len(image) :
        /\ image[i].va + SegmentPages(image[i]) <= UserTop
        /\ \A l \in i + 1 .. Len(image) : image[i].va < image[l].va
  BY <1>1 DEF WellFormed
<1> QED
  BY <1>2, <1>4, <1>5 DEF Segments

(* The two stacks of a new process *)
StacksAt(m, m1, p, s, t) ==
  /\ m1.regs = [m.regs EXCEPT ![p] = {s, t}]
  /\ s.n = STACK /\ s.va = KBASE - STACK - 2
  /\ t.n = STACK /\ t.va = UserTop

LEMMA TwoStacks ==
  ASSUME NEW m \in MemRec, NEW p \in Procs, m.regs[p] = {}, NEW a, NEW c, NEW b1, NEW b2,
         a \in MemRec, StackGiven(m, p, a, b1), StackGiven(a, p, c, b2)
  PROVE  \E s, t : StacksAt(m, c, p, s, t)
<1> DEFINE s == StackRegion(m.regs[p], b1)
           t == StackRegion(a.regs[p], b2)
<1>1. STACK \in Nat \ {0} /\ KBASE \in Nat \ {0}
  BY MemoryAssumption
<1>2. s \in RegionType /\ t \in RegionType
  BY DEF StackGiven
<1>3. /\ s.use = "stack" /\ s.n = STACK /\ s.va = StackPlace(m.regs[p])
      /\ t.use = "stack" /\ t.n = STACK /\ t.va = StackPlace(a.regs[p])
  BY DEF StackRegion
<1>4. /\ m.regs \in [Procs -> SUBSET RegionType] /\ a.regs = [m.regs EXCEPT ![p] = @ \cup {s}]
      /\ c.regs = [a.regs EXCEPT ![p] = @ \cup {t}]
  BY MemFields DEF StackGiven
<1> HIDE DEF s, t
<1>5. a.regs[p] = {s} /\ c.regs = [m.regs EXCEPT ![p] = {s, t}]
  <2>1. a.regs[p] = {s} /\ a.regs \in [Procs -> SUBSET RegionType]
    BY <1>2, <1>4
  <2>2. a.regs[p] \cup {t} = {s, t}
    BY <2>1
  <2> QED
    BY <1>4, <2>1, <2>2
<1>6. s.va \in Int /\ s.va + STACK + 1 = KBASE - 1
  <2>1. {} \in SUBSET RegionType
    OBVIOUS
  <2> QED
    BY <1>3, <2>1, StackBelow
<1>7. t.va \in Int /\ t.va + STACK + 1 = s.va
  <2>1. {s} \in SUBSET RegionType
    BY <1>2
  <2>2. /\ t.va \in Int /\ t.va + STACK + 1 <= s.va
        /\ t.va + STACK + 1 = KBASE - 1 \/ t.va + STACK + 1 = s.va
    BY <1>3, <1>5, <2>1, StackBelow
  <2> QED
    BY <1>1, <1>6, <2>2
<1>8. s.va = KBASE - STACK - 2 /\ t.va = UserTop
  BY <1>1, <1>6, <1>7 DEF UserTop
<1>9. StacksAt(m, c, p, s, t)
  BY <1>3, <1>5, <1>8 DEF StacksAt
<1> QED
  BY <1>9

(* What the loader finds when it maps the kernel. *)
LEMMA SaneLoads ==
  ASSUME NEW m \in MemRec, NEW m1, NEW J \in Jobs, NEW k \in KThreads, NEW X, NEW J1,
         J1 = Turned(J, k, X), NEW p \in Users, m.regs[p] = {}, Sane(m, J), J[k].pc = "idle",
         X.pc = "map", X.p = p, X.r = KernelRegion, Segments(X.rest), NEW s, NEW t,
         StacksAt(m, m1, p, s, t)
  PROVE  Sane(m1, J1)
<1>1. J1[k] = X /\ \A q \in KThreads \ {k} : J1[q] = J[q]
  BY DEF Jobs, Turned
<1> HIDE DEF Jobs
<1>2. p \in Procs /\ p # KERNEL /\ KERNEL \in Procs /\ Users \subseteq Procs /\ KERNEL \notin Users
  BY KernelIsProc
<1>3. /\ m1.regs[p] = {s, t}
      /\ \A q \in Procs \ {p} : m1.regs[q] = m.regs[q]
  BY <1>2, MemFields DEF StacksAt
<1>4. X.r.use = "kernel" /\ "kernel" \notin Buffers
  BY KernelRegionIs DEF Buffers
<1>5. STACK \in Nat \ {0} /\ KBASE \in Nat \ {0}
  BY MemoryAssumption
<1>6. Proper(X)
  BY <1>2, <1>4, KernelRegionIs, MemoryAssumption DEF Proper, Unlinks
<1>7. BuffersOnce(m1, J1)
  <2>1. m1.regs[KERNEL] = m.regs[KERNEL]
    BY <1>2, <1>3
  <2> HIDE DEF Unlinks, Buffers
  <2> QED
    BY <1>1, <1>4, <2>1 DEF Sane, BuffersOnce
<1>8. Loads(m1.regs[p], X)
  <2>1. \A r \in {s, t} : UserTop <= r.va /\ 0 < r.n /\ r.va < KBASE /\ r.va + r.n <= KBASE
    BY <1>5 DEF UserTop, StacksAt
  <2>2. X.r.use # "image"
    BY <1>4
  <2>3. m1.regs[p] # {}
    BY <1>3
  <2>4. \A r \in m1.regs[p] : UserTop <= r.va /\ 0 < r.n /\ r.va < KBASE /\ r.va + r.n <= KBASE
    BY <1>3, <2>1
  <2> QED
    <3> HIDE DEF Segments, Ahead
    <3>1. \A r \in m1.regs[p] : UserTop <= r.va /\ 0 < r.n
      BY <2>4
    <3> QED
      BY <2>2, <2>3, <2>4, <3>1 DEF Loads
<1>9. \A q \in KThreads \ {k} : J[q].pc # "idle" => J[q].p # p
  BY DEF Sane, Loading, Loads
<1>10. Loading(m1, J1)
  <2>1. \A q \in KThreads \ {k} : J1[q].pc # "idle" /\ J1[q].p \in Users =>
          m1.regs[J1[q].p] = m.regs[J1[q].p]
    BY <1>1, <1>2, <1>3, <1>9
  <2> QED
    BY <1>1, <1>8, <1>9, <2>1 DEF Sane, Loading
<1>11. \E r \in m1.regs[KERNEL] : r.use \notin Buffers
  BY <1>2, <1>3 DEF Sane
<1> QED
  BY <1>1, <1>6, <1>7, <1>10, <1>11 DEF Sane

LEMMA ElfLoad ==
  ASSUME IInv, ~clash', NEW k \in KThreads, elf_load_from_memory(k)
  PROVE  IInv' /\ LeakStep
<1>0. Running(k, "idle")
  BY DEF elf_load_from_memory
<1>1. /\ mem \in MemRec /\ job \in Jobs /\ IsFiniteSet(mem.regs[KERNEL]) /\ mem.halt = "no"
      /\ Kept(Claims(mem, job), mem.used) /\ Sane(mem, job) /\ job[k] = Idle /\ job[k].pc = "idle"
  BY <1>0, RunningIs
<1>2. PICK p \in Users, image \in Images :
        /\ mem.regs[p] = {}
        /\ mem' = TempMap(AddStack(AddStack(mem, p), p), STACK)
        /\ ~Interferes(k, mem')
        /\ Start(k, "map", p, KernelRegion, image)
  BY DEF elf_load_from_memory
<1> DEFINE a == AddStack(mem, p)
           c == AddStack(a, p)
           X == NewJob("map", p, KernelRegion, image)
<1>3. p \in Procs /\ KERNEL \in Procs /\ p # KERNEL /\ mem' = TempMap(c, STACK)
  BY <1>2, KernelIsProc
<1>4. UnlinkBuffers(job)
  BY <1>1, UnlinkingBuffers
<1> HIDE DEF c
<1>5. a \in MemRec /\ (StackRefused(mem, a) \/ \E b : StackGiven(mem, p, a, b))
  BY <1>1, <1>3, AddStackIs
<1> HIDE DEF a
<1>6. c \in MemRec /\ (StackRefused(a, c) \/ \E b : StackGiven(a, p, c, b))
  BY <1>3, <1>5, AddStackIs DEF c
<1>7. /\ mem' \in MemRec /\ mem'.used = c.used /\ mem'.regs = c.regs
      /\ mem'.halt = c.halt \/ mem'.halt = "regions"
  BY <1>3, <1>6, TempMapIs
<1>8. mem.used \subseteq a.used /\ a.used \subseteq c.used
  BY <1>5, <1>6 DEF StackRefused, StackGiven
<1>9. \A b \in c.used \ mem.used : b \div W \notin Clearing(k)
  BY <1>2, <1>7 DEF Interferes, Collides
<1>10. (a.used \ mem.used) \cap Extents(Claims(mem, job)) = {}
  <2>1. \A b \in a.used \ mem.used : b \div W \notin Clearing(k)
    BY <1>8, <1>9
  <2>2. Fresh(Claims(mem, job), mem.used, a.used \ mem.used)
    BY <1>1, <2>1, NewIsFresh
  <2> QED
    BY <2>2 DEF Fresh
<1>11. /\ Kept(Claims(a, job), a.used)
       /\ a.halt = "no" =>
            LostIn(Claims(a, job), a.used) \subseteq LostIn(Claims(mem, job), mem.used)
  BY <1>1, <1>3, <1>4, <1>10, AddStackKeeps DEF a
<1>12. (c.used \ a.used) \cap Extents(Claims(a, job)) = {}
  <2>1. \A b \in c.used \ a.used : b \div W \notin Clearing(k)
    BY <1>8, <1>9
  <2>2. Fresh(Claims(a, job), a.used, c.used \ a.used)
    BY <1>1, <1>11, <2>1, NewIsFresh
  <2> QED
    BY <2>2 DEF Fresh
<1>13. /\ Kept(Claims(c, job), c.used)
       /\ c.halt = "no" => LostIn(Claims(c, job), c.used) \subseteq LostIn(Claims(a, job), a.used)
  BY <1>3, <1>4, <1>5, <1>11, <1>12, AddStackKeeps DEF c
<1>14. IsFiniteSet(mem'.regs[KERNEL])
  <2>1. IsFiniteSet(a.regs[KERNEL])
    BY <1>1, <1>3, <1>5, FiniteStack
  <2> QED
    BY <1>3, <1>5, <1>6, <1>7, <2>1, FiniteStack
<1>15. a.halt # "overlap" /\ c.halt # "overlap" /\ (c.halt = "no" => a.halt = "no")
  BY <1>1, <1>5, <1>6 DEF StackRefused, StackGiven
<1>16. image \in Seq(Segment) /\ Segments(image) /\ KernelRegion \in RegionType
       /\ KernelRegion.use = "kernel"
  BY ImageIs, KernelRegionIs
<1>17. "map" \in Steps
  BY DEF Steps
<1> HIDE DEF X
<1>18. Started(X, "map", p, KernelRegion, image) /\ job' = Turned(job, k, X)
  BY <1>2, <1>3, <1>16, <1>17, StartIs DEF X
<1>19. X \in JobRec /\ X.pc = "map" /\ X.p = p /\ X.r = KernelRegion /\ X.rest = image
       /\ ~Unlinks(X) /\ ~Unlinks(job[k])
  BY <1>1, <1>18 DEF Started, Unlinks
<1>20. ThreadClaim(k, job[k]) = {} /\ ThreadClaim(k, X) = {}
  BY <1>1, <1>16, <1>19 DEF ThreadClaim
<1>21. Claims(mem', job') = Claims(c, job)
  <2>1. ClaimsTurned(c, job, mem', job', k, X)
    BY <1>1, <1>7, <1>18, <1>19, GoesOn
  <2> QED
    BY <1>20, <2>1 DEF ClaimsTurned
<1>22. job' \in Jobs
  BY <1>1, <1>18, <1>19, JobsIs
<1>23. ASSUME mem'.halt = "no" PROVE Sane(mem', job')
  <2>1. PICK b2 : StackGiven(a, p, c, b2)
    BY <1>6, <1>7, <1>23 DEF StackRefused
  <2>2. a.halt = "no"
    BY <2>1 DEF StackGiven
  <2>3. PICK b1 : StackGiven(mem, p, a, b1)
    BY <1>5, <2>2 DEF StackRefused
  <2>4. PICK s, t : StacksAt(mem, c, p, s, t)
    BY <1>1, <1>2, <1>3, <1>5, <2>1, <2>3, TwoStacks
  <2>5. StacksAt(mem, mem', p, s, t)
    BY <1>7, <2>4 DEF StacksAt
  <2> QED
    BY <1>1, <1>2, <1>16, <1>18, <1>19, <2>4, <2>5, SaneLoads
<1>24. Inv(mem', job')
  BY <1>7, <1>13, <1>14, <1>15, <1>21, <1>22, <1>23 DEF Inv, Types
<1>25. mem'.halt = "no" => NothingLost(mem, job, mem', job')
  BY <1>7, <1>11, <1>13, <1>15, <1>21 DEF NothingLost
<1> QED
  BY <1>24, <1>25, StepOut

-----------------------------------------------------------------------------
(* Allocating blocks *)

(* What a job becomes: at another place, behind a chunk, with its blocks    *)
(* found.                                                                   *)
JobAt(j, at) == [j EXCEPT !.pc = at]

JobMoved(j, i, at) == [j EXCEPT !.i = i, !.pc = at]

JobFound(j, b) == [j EXCEPT !.pc = "test", !.r.pa = b]

Becomes(j, X, at, r, i) ==
  /\ X \in JobRec /\ X.pc = at /\ X.p = j.p /\ X.r = r /\ X.rest = j.rest /\ X.i = i

LEMMA JobAtIs ==
  ASSUME NEW j \in JobRec, NEW at \in Steps
  PROVE  Becomes(j, JobAt(j, at), at, j.r, j.i)
  BY DEF JobRec, JobAt, Steps, Becomes

LEMMA JobMovedIs ==
  ASSUME NEW j \in JobRec, NEW at \in Steps, NEW i \in Nat
  PROVE  Becomes(j, JobMoved(j, i, at), at, j.r, i)
<1> DEFINE Y == [j EXCEPT !.i = i]
<1>1. Y \in JobRec /\ Y.p = j.p /\ Y.r = j.r /\ Y.rest = j.rest /\ Y.i = i
  BY DEF JobRec
<1>2. JobMoved(j, i, at) = JobAt(Y, at)
  BY DEF JobRec, JobMoved, JobAt
<1> HIDE DEF Y
<1>3. Becomes(Y, JobAt(Y, at), at, Y.r, Y.i)
  BY <1>1, JobAtIs
<1> QED
  BY <1>1, <1>2, <1>3 DEF Becomes

LEMMA JobFoundIs ==
  ASSUME NEW j \in JobRec, NEW b \in Nat
  PROVE  \E r \in RegionType :
           /\ r.va = j.r.va /\ r.pa = b /\ r.n = j.r.n /\ r.use = j.r.use
           /\ Becomes(j, JobFound(j, b), "test", r, j.i)
<1> DEFINE r == [j.r EXCEPT !.pa = b]
           Y == JobAt(j, "test")
           X == [Y EXCEPT !.r = r]
<1>0. j.r \in RegionType /\ b \in Nat \cup {NoBlock} /\ "test" \in Steps
  BY DEF JobRec, Steps
<1>1. r \in RegionType /\ r.va = j.r.va /\ r.pa = b /\ r.n = j.r.n /\ r.use = j.r.use
  <2> HIDE DEF Uses
  <2> QED
    BY <1>0 DEF RegionType
<1> HIDE DEF Y, r
<1>2. Becomes(j, Y, "test", j.r, j.i)
  BY <1>0, JobAtIs DEF Y
<1>3. X \in JobRec /\ X.pc = Y.pc /\ X.p = Y.p /\ X.r = r /\ X.rest = Y.rest /\ X.i = Y.i
  BY <1>1, <1>2 DEF JobRec, Becomes
<1>4. X = JobFound(j, b)
  BY DEF Y, r, JobRec, JobAt, JobFound
<1> HIDE DEF X
<1>5. Becomes(j, JobFound(j, b), "test", r, j.i)
  BY <1>2, <1>3, <1>4 DEF Becomes
<1> QED
  BY <1>1, <1>5

(* A thread goes on with other blocks marked. *)
LEMMA TurnIs ==
  ASSUME IInv, ~clash', NEW k \in KThreads, NEW at, Running(k, at), at # "idle",
         NEW X \in JobRec, job' = Turned(job, k, X), SameJob(job[k], X), Proper(X),
         mem' \in MemRec, mem'.regs = mem.regs, mem'.halt = "no",
         Kept(Claims(mem', job'), mem'.used), NothingLost(mem, job, mem', job')
  PROVE  IInv' /\ LeakStep
<1>1. /\ mem \in MemRec /\ job \in Jobs /\ IsFiniteSet(mem.regs[KERNEL]) /\ mem.halt = "no"
      /\ Sane(mem, job)
  BY RunningIs
<1>2. Sane(mem', job')
  BY <1>1, SaneGoesOn
<1>3. job' \in Jobs
  BY <1>1, JobsIs
<1>4. Inv(mem', job')
  BY <1>1, <1>2, <1>3 DEF Inv, Types
<1> QED
  BY <1>4, StepOut

(* A thread goes on with what it has. *)
LEMMA SameClaim ==
  ASSUME IInv, ~clash', NEW k \in KThreads, NEW at, Running(k, at), at # "idle",
         NEW X \in JobRec, job' = Turned(job, k, X), SameJob(job[k], X), Proper(X),
         mem' \in MemRec, mem'.used = mem.used, mem'.regs = mem.regs, mem'.halt = "no",
         ThreadClaim(k, X) = ThreadClaim(k, job[k])
  PROVE  IInv' /\ LeakStep
<1>1. job \in Jobs /\ Kept(Claims(mem, job), mem.used)
  BY RunningIs
<1>2. (~Unlinks(job[k]) /\ ~Unlinks(X)) \/ (Unlinks(job[k]) /\ Unlinks(X) /\ X.r = job[k].r)
  BY DEF SameJob
<1>3. ClaimsTurned(mem, job, mem', job', k, X)
  BY <1>1, <1>2, GoesOn
<1>4. Claims(mem', job') = Claims(mem, job)
  BY <1>3 DEF ClaimsTurned
<1>5. Kept(Claims(mem', job'), mem'.used) /\ NothingLost(mem, job, mem', job')
  BY <1>1, <1>4 DEF NothingLost
<1> QED
  BY <1>5, TurnIs

LEMMA FailsIs ==
  ASSUME IInv, ~clash', NEW k \in KThreads, NEW at, Running(k, at), at \notin {"idle", "free", "unlink"},
         NEW why \in Halts \ {"no", "overlap"}, Fails(k, why),
         job[k].r.use # "image" => ThreadClaim(k, job[k]) = {} \/ at = "test"
  PROVE  IInv' /\ LeakStep
<1>1. CASE job[k].r.use = "image"
  BY <1>1, StopIs DEF Fails, Stop
<1>2. CASE job[k].r.use # "image"
  <2>1. mem' = mem /\ job' = Turned(job, k, Idle) /\ job'[k] = Idle
    BY <1>2, RunningIs DEF Fails, Leave, Turned, Jobs
  <2>2. ThreadClaim(k, job[k]) = {} \/ Excused
    <3>1. job[k].pc = at /\ Proper(job[k])
      BY RunningIs
    <3>2. CASE at = "test"
      BY <1>2, <2>1, <3>1, <3>2 DEF Excused, Proper
    <3> QED
      BY <1>2, <3>2
  <2> QED
    BY <2>1, <2>2, LeaveIs
<1> QED
  BY <1>1, <1>2

LEMMA AllocFind ==
  ASSUME IInv, ~clash', NEW k \in KThreads, alloc_find(k)
  PROVE  IInv' /\ LeakStep
<1> DEFINE j == job[k]
           b == kpmm_find_free_region(mem.used, j.r.n)
           X == JobFound(j, b)
<1>0. Running(k, "find")
  BY DEF alloc_find
<1>1. /\ mem \in MemRec /\ job \in Jobs /\ mem.halt = "no" /\ Kept(Claims(mem, job), mem.used)
      /\ j \in JobRec /\ Proper(j) /\ j.pc = "find"
  BY <1>0, RunningIs
<1> HIDE DEF b
<1>2. /\ b # NoBlock => job' = [job EXCEPT ![k].pc = "test", ![k].r.pa = b] /\ mem' = mem
      /\ b = NoBlock /\ j.r.use = "heap" => Stop("memory")
      /\ b = NoBlock /\ j.r.use # "heap" => Fails(k, "memory")
  BY DEF alloc_find, b
<1>3. ThreadClaim(k, j) = {}
  BY <1>1 DEF ThreadClaim
<1>4. CASE b = NoBlock /\ j.r.use = "heap"
  <2>1. mem' = Halt(mem, "memory") /\ job' = job
    BY <1>2, <1>4 DEF Stop
  <2> QED
    BY <1>0, <2>1, StopIs, WhyIs
<1>5. CASE b = NoBlock /\ j.r.use # "heap"
  <2>1. "find" \notin {"idle", "free", "unlink"}
    OBVIOUS
  <2> QED
    BY <1>0, <1>2, <1>3, <1>5, <2>1, FailsIs, WhyIs
<1>6. CASE b # NoBlock
  <2>1. j.r \in RegionType /\ j.r.n \in Nat /\ j.i \in Nat /\ j.i = 0 /\ 0 < j.r.n
        /\ j.r.use \notin {"lfb", "kernel"}
    BY <1>1 DEF JobRec, RegionType, Proper
  <2>2. b \in Nat /\ b % W = 0 /\ b + j.r.n <= W * Words
    BY <1>6, <2>1, FindIs DEF b
  <2>3. job' = Turned(job, k, X) /\ mem' = mem
    BY <1>1, <1>2, <1>6 DEF Turned, Jobs, JobFound
  <2> HIDE DEF X
  <2>4. /\ X \in JobRec /\ X.pc = "test" /\ X.p = j.p /\ X.rest = j.rest /\ X.i = j.i
        /\ X.r \in RegionType /\ X.r.va = j.r.va /\ X.r.pa = b /\ X.r.n = j.r.n /\ X.r.use = j.r.use
    BY <1>1, <2>2, JobFoundIs DEF Becomes, X
  <2>6. SameJob(j, X)
    BY <1>1, <2>1, <2>4 DEF SameJob, Unlinks
  <2>7. Proper(X)
    BY <1>1, <2>1, <2>2, <2>4 DEF Proper, Unlinks
  <2> DEFINE c == [kind |-> "thread", of |-> k, r |-> X.r, n |-> X.i, from |-> 0]
  <2>8. ThreadClaim(k, X) = {c} /\ c.r = X.r /\ c.n = 0 /\ c.from = 0
    BY <2>1, <2>4 DEF ThreadClaim
  <2>9. Claims(mem', job') = Claims(mem, job) \cup ThreadClaim(k, X)
    <3>1. ~Unlinks(j) /\ ~Unlinks(X) /\ mem'.regs = mem.regs
      BY <1>1, <2>3, <2>4 DEF Unlinks
    <3>2. ClaimsTurned(mem, job, mem', job', k, X)
      BY <1>1, <2>3, <3>1, GoesOn
    <3> QED
      BY <1>3, <3>2 DEF ClaimsTurned
  <2> HIDE DEF c
  <2>10. Extent(c) = {} /\ WellPlaced(c)
    BY <2>2, <2>4, <2>8 DEF Extent, Run, WellPlaced
  <2>11. /\ Claims(mem', job') = Claims(mem, job) \cup {c}
         /\ Fresh(Claims(mem, job), mem.used, Extent(c)) /\ mem'.used = mem.used \cup Extent(c)
    BY <2>3, <2>8, <2>9, <2>10 DEF Fresh
  <2>10a. WellPlaced(c) /\ c.from = 0
    BY <2>8, <2>10
  <2>12. /\ Kept(Claims(mem', job'), mem'.used)
         /\ LostIn(Claims(mem', job'), mem'.used) \subseteq LostIn(Claims(mem, job), mem.used)
    BY <1>1, <2>10a, <2>11, Grant
  <2>13. /\ mem' \in MemRec /\ mem'.regs = mem.regs /\ mem'.halt = "no"
         /\ "find" # "idle"
    BY <1>1, <2>3
  <2>14. NothingLost(mem, job, mem', job')
    BY <2>12 DEF NothingLost
  <2> QED
    BY <1>0, <2>4, <2>3, <2>6, <2>7, <2>12, <2>13, <2>14, TurnIs
<1> QED
  BY <1>4, <1>5, <1>6

LEMMA AllocTest ==
  ASSUME IInv, ~clash', NEW k \in KThreads, alloc_test(k)
  PROVE  IInv' /\ LeakStep
<1> DEFINE j == job[k]
           X == JobAt(j, "set")
<1>0. Running(k, "test") /\ "test" \notin {"idle", "free", "unlink"}
  BY DEF alloc_test
<1>1. /\ mem \in MemRec /\ job \in Jobs /\ mem.halt = "no" /\ Kept(Claims(mem, job), mem.used)
      /\ j \in JobRec /\ Proper(j) /\ j.pc = "test"
  BY <1>0, RunningIs
<1>2. CASE ChunkTaken(j)
  <2>1. Fails(k, "lost race")
    BY <1>2 DEF alloc_test
  <2> QED
    BY <1>0, <2>1, FailsIs, WhyIs
<1>3. CASE ~ChunkTaken(j)
  <2>1. job' = Turned(job, k, X) /\ mem' = mem
    BY <1>1, <1>3 DEF alloc_test, Goto, Turned, JobAt, Jobs
  <2> HIDE DEF X
  <2>2. "set" \in Steps
    BY DEF Steps
  <2>3. Becomes(j, X, "set", j.r, j.i)
    BY <1>1, <2>2, JobAtIs DEF X
  <2>4. X \in JobRec
    BY <2>3 DEF Becomes
  <2>5. SameJob(j, X) /\ Proper(X)
    BY <1>1, <2>3 DEF SameJob, Proper, Becomes, Unlinks
  <2>6. ThreadClaim(k, X) = ThreadClaim(k, j)
    BY <1>1, <2>3 DEF ThreadClaim, Becomes
  <2> QED
    BY <1>0, <1>1, <2>1, <2>4, <2>5, <2>6, SameClaim
<1> QED
  BY <1>2, <1>3

LEMMA RunSize ==
  ASSUME NEW b \in Int, NEW n \in Nat
  PROVE  IsFiniteSet(Run(b, n)) /\ Cardinality(Run(b, n)) = n
<1>1. b + n - 1 \in Int
  OBVIOUS
<1>2. /\ IsFiniteSet(b .. b + n - 1)
      /\ Cardinality(b .. b + n - 1) = IF b > b + n - 1 THEN 0 ELSE (b + n - 1) - b + 1
  BY <1>1, FS_Interval
<1>3. (IF b > b + n - 1 THEN 0 ELSE (b + n - 1) - b + 1) = n
  OBVIOUS
<1> QED
  BY <1>2, <1>3 DEF Run

(* A chunk is what comes next of the blocks that are needed. *)
LEMMA ChunkIs ==
  ASSUME NEW j \in JobRec, j.r.pa \in Nat, j.i < j.r.n
  PROVE  LET s == Cardinality(Chunk(j))
         IN s \in Nat \ {0} /\ Chunk(j) = Run(j.r.pa + j.i, s) /\ j.i + s <= j.r.n
<1> DEFINE b == j.r.pa + j.i
           left == j.r.n - j.i
<1>1. j.i \in Nat /\ j.r.n \in Nat
  BY DEF JobRec, RegionType
<1>2. b \in Nat /\ left \in Nat \ {0} /\ W \in Nat \ {0}
  BY <1>1, PhysAssumption
<1>3. Chunk(j) = MarkChunk(b, left) /\ j.i + left = j.r.n
  BY <1>1 DEF Chunk
<1> HIDE DEF b, left
<1>4. CASE left >= W /\ b % W = 0
  <2>1. Chunk(j) = Run(b, W)
    BY <1>3, <1>4 DEF MarkChunk
  <2>2. Cardinality(Run(b, W)) = W
    BY <1>2, RunSize
  <2> QED
    BY <1>1, <1>2, <1>3, <1>4, <2>1, <2>2 DEF b
<1>5. CASE ~(left >= W /\ b % W = 0)
  <2>1. Chunk(j) = {b}
    BY <1>3, <1>5 DEF MarkChunk
  <2>2. {b} = Run(b, 1)
    BY <1>2 DEF Run
  <2>3. Cardinality(Run(b, 1)) = 1
    BY <1>2, RunSize
  <2> QED
    BY <1>1, <1>2, <1>3, <2>1, <2>2, <2>3 DEF b
<1> QED
  BY <1>4, <1>5

LEMMA AllocSet ==
  ASSUME IInv, ~clash', NEW k \in KThreads, alloc_set(k)
  PROVE  IInv' /\ LeakStep
<1> DEFINE j == job[k]
           s == Cardinality(Chunk(j))
           i == j.i + s
           at == IF i < j.r.n THEN "test" ELSE "map"
           X == JobMoved(j, i, at)
<1>0. Running(k, "set") /\ "set" # "idle"
  BY DEF alloc_set
<1>1. /\ mem \in MemRec /\ job \in Jobs /\ mem.halt = "no" /\ Kept(Claims(mem, job), mem.used)
      /\ j \in JobRec /\ Proper(j) /\ j.pc = "set"
  BY <1>0, RunningIs
<1>2. Chunk(j) \cap mem.used = {} /\ \A x \in Chunk(j) : x \div W \notin Clearing(k)
  BY DEF alloc_set, Collides
<1>3. mem' = [mem EXCEPT !.used = @ \cup Chunk(j)] /\ job' = Turned(job, k, X)
  BY <1>1, <1>2 DEF alloc_set, Outcomes, Collides, Marked, Turned, JobMoved, Jobs
<1> HIDE DEF X
<1>4. /\ j.i \in Nat /\ j.r.n \in Nat /\ j.r.pa \in Nat /\ j.i < j.r.n
      /\ j.r.pa + j.r.n <= W * Words /\ j.r.use \notin {"lfb", "kernel"}
  BY <1>1 DEF JobRec, RegionType, Proper
<1>5. s \in Nat \ {0} /\ Chunk(j) = Run(j.r.pa + j.i, s) /\ j.i + s <= j.r.n
  BY <1>1, <1>4, ChunkIs
<1> HIDE DEF s
<1>6. i \in Nat /\ i <= j.r.n /\ (at = "test" => i < j.r.n) /\ (at # "test" => i = j.r.n)
      /\ at \in {"test", "map"} /\ at \in Steps
  BY <1>4, <1>5 DEF Steps
<1> HIDE DEF i, at
<1>7. Becomes(j, X, at, j.r, i)
  BY <1>1, <1>6, JobMovedIs DEF X
<1>8. X \in JobRec /\ X.pc \in {"test", "map"} /\ ~Unlinks(X) /\ ~Unlinks(j)
  BY <1>1, <1>6, <1>7 DEF Becomes, Unlinks
<1>9. SameJob(j, X)
  BY <1>1, <1>4, <1>6, <1>7 DEF SameJob, Becomes, Unlinks
<1>10. Proper(X)
  BY <1>1, <1>4, <1>6, <1>7 DEF Proper, Becomes, Unlinks
<1>11. Chunk(j) \subseteq Blocks
  <2>1. W * Words \in Nat
    BY PhysAssumption
  <2> QED
    BY <1>4, <1>5, <2>1 DEF Run, Blocks
<1>12. mem' \in MemRec /\ mem'.used = mem.used \cup Chunk(j) /\ mem'.regs = mem.regs
       /\ mem'.halt = "no"
  <2>1. mem.used \cup Chunk(j) \in SUBSET Blocks
    BY <1>1, <1>11, MemFields
  <2>2. mem' \in MemRec
    BY <1>1, <1>3, <2>1, MemIs, MemFields
  <2> QED
    BY <1>1, <1>3, <2>2 DEF MemRec
<1>13. ClaimsTurned(mem, job, mem', job', k, X)
  BY <1>1, <1>3, <1>8, <1>12, GoesOn
<1> DEFINE c == [kind |-> "thread", of |-> k, r |-> j.r, n |-> j.i, from |-> 0]
           d == [kind |-> "thread", of |-> k, r |-> j.r, n |-> i, from |-> 0]
<1>14. ThreadClaim(k, j) = {c} /\ c.r = j.r /\ c.n = j.i /\ c.from = 0
  BY <1>1, <1>4 DEF ThreadClaim
<1>15. ThreadClaim(k, X) = {d} /\ d.r = j.r /\ d.n = i /\ d.from = 0
  BY <1>4, <1>6, <1>7 DEF ThreadClaim, Becomes
<1> HIDE DEF c, d
<1>16. c \in Claims(mem, job) /\ Claims(mem', job') = (Claims(mem, job) \ {c}) \cup {d}
  BY <1>13, <1>14, <1>15 DEF ClaimsTurned
<1>17. Area(d) = Area(c) \cup Chunk(j) /\ Extent(d) = Extent(c) \cup Chunk(j)
  <2>1. /\ Run(j.r.pa, i) = Run(j.r.pa, j.i) \cup Run(j.r.pa + j.i, i - j.i)
    BY <1>4, <1>5, <1>6, RunSplit DEF i
  <2>2. i - j.i = s
    BY <1>4, <1>5 DEF i
  <2> QED
    BY <1>4, <1>5, <1>6, <1>14, <1>15, <2>1, <2>2 DEF Area, Extent
<1>18. WellPlaced(d)
  BY <1>1, <1>4, <1>6, <1>14, <1>15, <1>16 DEF Kept, WellPlaced
<1>18a. Fresh(Claims(mem, job), mem.used, Chunk(j))
  BY <1>1, <1>2, NewIsFresh
<1>19. Traded(Claims(mem, job), mem.used, c, d, {}, Chunk(j), Claims(mem', job'), mem'.used)
  BY <1>12, <1>16, <1>17, <1>18, <1>18a DEF Traded
<1>20. Kept(Claims(mem', job'), mem'.used) /\ NothingLost(mem, job, mem', job')
  BY <1>1, <1>19, Trade DEF NothingLost
<1> QED
  BY <1>0, <1>3, <1>8, <1>9, <1>10, <1>12, <1>20, TurnIs

LEMMA AllocLimit ==
  ASSUME IInv, ~clash', NEW k \in KThreads, alloc_limit(k)
  PROVE  IInv' /\ LeakStep
<1> DEFINE j == job[k]
           X == JobMoved(j, 0, "undo")
<1>0. Running(k, "map") /\ "map" # "idle" /\ j.r.use \in {"fdc", "sb16"} /\ mem' = mem
  BY DEF alloc_limit, OverLimit
<1>1. /\ mem \in MemRec /\ job \in Jobs /\ mem.halt = "no"
      /\ j \in JobRec /\ Proper(j) /\ j.pc = "map"
  BY <1>0, RunningIs
<1>2. job' = Turned(job, k, X)
  BY <1>1 DEF alloc_limit, Turned, JobMoved, Jobs
<1>3. "undo" \in Steps /\ 0 \in Nat
  BY DEF Steps
<1> HIDE DEF X
<1>4. Becomes(j, X, "undo", j.r, 0)
  BY <1>1, <1>3, JobMovedIs DEF X
<1>5. X \in JobRec /\ SameJob(j, X) /\ Proper(X)
  BY <1>0, <1>1, <1>4 DEF Becomes, SameJob, Proper, Unlinks
<1>6. ThreadClaim(k, X) = ThreadClaim(k, j)
  BY <1>0, <1>1, <1>4 DEF ThreadClaim, Becomes
<1> QED
  BY <1>0, <1>1, <1>2, <1>5, <1>6, SameClaim

(* A thread that clears the next bit of what it gives back, which is set.   *)
LEMMA FreeBlock ==
  ASSUME IInv, ~clash', NEW k \in KThreads, free_block(k), UNCHANGED clash
  PROVE  IInv' /\ LeakStep
<1> DEFINE j == job[k]
           b == j.r.pa + j.i
           c == [kind |-> "thread", of |-> k, r |-> j.r, n |-> j.r.n, from |-> j.i]
           d == [kind |-> "thread", of |-> k, r |-> j.r, n |-> j.r.n, from |-> j.i + 1]
<1>0. Running(k, j.pc) /\ j.pc \in {"free", "undo"}
  BY DEF free_block, Running
<1>1. /\ mem \in MemRec /\ job \in Jobs /\ mem.halt = "no" /\ Kept(Claims(mem, job), mem.used)
      /\ j \in JobRec /\ Proper(j) /\ Sane(mem, job) /\ IsFiniteSet(mem.regs[KERNEL])
  BY <1>0, RunningIs
<1>2. /\ j.r.pa \in Nat /\ j.i \in Nat /\ j.r.n \in Nat /\ j.i < j.r.n
      /\ j.r.use \in {"fdc", "sb16"}
  BY <1>0, <1>1 DEF Proper, JobRec, RegionType
<1>3. ThreadClaim(k, j) = {c} /\ c.r = j.r /\ c.n = j.r.n /\ c.from = j.i
  BY <1>0, <1>2 DEF ThreadClaim
<1>4. d.r = j.r /\ d.n = j.r.n /\ d.from = j.i + 1
  OBVIOUS
<1> HIDE DEF c, d
<1>5. c \in Claims(mem, job)
  <2> HIDE DEF ThreadClaim
  <2> QED
    BY <1>3, ClaimIs
<1>6. WellPlaced(c) /\ Area(c) \subseteq mem.used
  BY <1>1, <1>5 DEF Kept
<1>7. /\ Area(c) = {b} \cup Area(d) /\ b \notin Area(d) /\ b \in Nat /\ WellPlaced(d)
      /\ Extent(d) = Extent(c) /\ (Cleared(j) => Area(c) = {b})
  BY <1>2, <1>3, <1>4, <1>6 DEF Area, Extent, WellPlaced, Run, Cleared
<1>8. ~UnmarkRefused(mem.used, b)
  <2>1. b \in mem.used /\ ~(b < b)
    BY <1>6, <1>7
  <2> QED
    BY <2>1 DEF UnmarkRefused
<1>9. mem' = [mem EXCEPT !.used = @ \ {b}]
  BY <1>8 DEF free_block, IInv
<1>10. mem' \in MemRec /\ mem'.used = mem.used \ {b} /\ mem'.regs = mem.regs /\ mem'.halt = "no"
  <2>1. mem.used \ {b} \in SUBSET Blocks
    BY <1>1, MemFields
  <2>2. mem' \in MemRec
    BY <1>1, <1>9, <2>1, MemIs, MemFields
  <2> QED
    BY <1>1, <1>9, <2>2 DEF MemRec
<1>11. CASE ~Cleared(j)
  <2> DEFINE X == JobMoved(j, j.i + 1, j.pc)
  <2>1. job' = Turned(job, k, X)
    BY <1>1, <1>8, <1>11 DEF free_block, Turned, JobMoved, Jobs, JobRec
  <2>2. j.pc \in Steps /\ j.i + 1 \in Nat /\ j.i + 1 < j.r.n
    BY <1>0, <1>2, <1>11 DEF Steps, Cleared
  <2> HIDE DEF X
  <2>3. Becomes(j, X, j.pc, j.r, j.i + 1)
    BY <1>1, <2>2, JobMovedIs DEF X
  <2>4. X \in JobRec /\ SameJob(j, X) /\ Proper(X)
    BY <1>0, <1>1, <1>2, <2>2, <2>3 DEF Becomes, SameJob, Proper, Unlinks
  <2>5. ThreadClaim(k, X) = {d}
    BY <1>0, <1>2, <2>3 DEF ThreadClaim, Becomes, d
  <2>6. (~Unlinks(j) /\ ~Unlinks(X)) \/ (Unlinks(j) /\ Unlinks(X) /\ X.r = j.r)
    BY <2>4 DEF SameJob
  <2>7. ClaimsTurned(mem, job, mem', job', k, X)
    BY <1>1, <1>10, <2>1, <2>6, GoesOn
  <2>8. Claims(mem', job') = (Claims(mem, job) \ {c}) \cup {d}
    BY <1>3, <2>5, <2>7 DEF ClaimsTurned
  <2>9. Traded(Claims(mem, job), mem.used, c, d, {b}, {}, Claims(mem', job'), mem'.used)
    <3>1. Fresh(Claims(mem, job), mem.used, {})
      BY DEF Fresh
    <3> HIDE DEF b
    <3> QED
      BY <1>5, <1>7, <1>10, <2>8, <3>1 DEF Traded
  <2>10. Kept(Claims(mem', job'), mem'.used) /\ NothingLost(mem, job, mem', job')
    BY <1>1, <2>9, Trade DEF NothingLost
  <2> QED
    BY <1>0, <1>10, <2>1, <2>4, <2>10, TurnIs
<1>12. ASSUME NEW X, ThreadClaim(k, X) = {}, Cleared(j), job' = Turned(job, k, X),
              (~Unlinks(j) /\ ~Unlinks(X)) \/ (Unlinks(j) /\ Unlinks(X) /\ X.r = j.r)
       PROVE  Kept(Claims(mem', job'), mem'.used) /\ NothingLost(mem, job, mem', job')
  <2>1. ClaimsTurned(mem, job, mem', job', k, X)
    BY <1>1, <1>10, <1>12, GoesOn
  <2>2. Claims(mem', job') = Claims(mem, job) \ {c}
    BY <1>3, <1>12, <2>1 DEF ClaimsTurned
  <2>3. mem'.used = mem.used \ Area(c)
    BY <1>7, <1>10, <1>12
  <2> QED
    BY <1>1, <1>5, <2>2, <2>3, Revoke DEF NothingLost
<1>13. CASE Cleared(j) /\ j.pc = "free"
  <2> DEFINE X == JobAt(j, "unlink")
  <2>1. job' = Turned(job, k, X)
    BY <1>1, <1>8, <1>13 DEF free_block, Goto, Turned, JobAt, Jobs
  <2>2. "unlink" \in Steps
    BY DEF Steps
  <2> HIDE DEF X
  <2>3. Becomes(j, X, "unlink", j.r, j.i)
    BY <1>1, <2>2, JobAtIs DEF X
  <2>4. X \in JobRec /\ SameJob(j, X) /\ Proper(X)
    BY <1>1, <1>2, <1>13, <2>3 DEF Becomes, SameJob, Proper, Unlinks, Buffers
  <2>5. ThreadClaim(k, X) = {}
    BY <2>3 DEF ThreadClaim, Becomes
  <2>6. Unlinks(j) /\ Unlinks(X) /\ X.r = j.r
    BY <1>13, <2>3 DEF Unlinks, Becomes
  <2>7. Kept(Claims(mem', job'), mem'.used) /\ NothingLost(mem, job, mem', job')
    BY <1>12, <1>13, <2>1, <2>5, <2>6
  <2> QED
    BY <1>0, <1>10, <2>1, <2>4, <2>7, TurnIs
<1>14. CASE Cleared(j) /\ j.pc = "undo"
  <2>1. job' = Turned(job, k, Idle)
    BY <1>8, <1>14 DEF free_block, Leave, Turned
  <2>2. ThreadClaim(k, Idle) = {} /\ ~Unlinks(j) /\ ~Unlinks(Idle)
    BY <1>14, IdleIs DEF ThreadClaim, Unlinks
  <2>3. Kept(Claims(mem', job'), mem'.used) /\ NothingLost(mem, job, mem', job')
    BY <1>12, <1>14, <2>1, <2>2
  <2>4. Sane(mem', job')
    BY <1>1, <1>10, <2>1, SaneLeave
  <2>5. job' \in Jobs
    BY <1>1, <2>1, IdleIs, JobsIs
  <2>6. Inv(mem', job')
    BY <1>1, <1>10, <2>3, <2>4, <2>5 DEF Inv, Types
  <2> QED
    BY <2>3, <2>6, StepOut
<1> QED
  BY <1>0, <1>11, <1>13, <1>14

-----------------------------------------------------------------------------
(* Mapping *)

(* The kernel finds its place free, and a segment meets at most the page    *)
(* too many of the one before it.                                           *)
LEMMA LoadsOverlap ==
  ASSUME NEW rs \in SUBSET RegionType, NEW j \in JobRec, Loads(rs, j), Overlaps(rs, j.r.va, j.r.n),
         j.r.use \in {"kernel", "image"}
  PROVE  j.r.use = "image" /\ \E r \in rs : r.use = "image" /\ r.va + r.n - 1 = j.r.va
<1> DEFINE va == j.r.va
           n == j.r.n
<1>1. va \in Nat /\ n \in Nat
  BY DEF JobRec, RegionType
<1>2. \A r \in rs : r.va \in Nat /\ r.n \in Nat
  BY DEF RegionType
<1>3. PICK r \in rs : \/ r.va >= va /\ r.va < va + n
                      \/ r.va + r.n > va /\ r.va + r.n <= va + n
  BY DEF Overlaps
<1>4. r.va \in Nat /\ r.n \in Nat
  BY <1>2
<1>5. CASE j.r.use = "kernel"
  <2>1. va = KBASE /\ r.va < KBASE /\ r.va + r.n <= KBASE
    BY <1>5, KernelRegionIs DEF Loads
  <2> QED
    BY <1>1, <1>3, <1>4, <2>1
<1>6. CASE j.r.use = "image"
  <2>1. va + n <= UserTop /\ va \in Ahead(j)
    BY <1>6 DEF Loads, Ahead
  <2>2. UserTop \in Int
    BY MemoryAssumption DEF UserTop
  <2>3. \/ UserTop <= r.va /\ 0 < r.n
        \/ r.use = "image" /\ \A v \in Ahead(j) : Before(r, v)
    BY DEF Loads
  <2>4. CASE UserTop <= r.va /\ 0 < r.n
    BY <1>1, <1>3, <1>4, <2>1, <2>2, <2>4
  <2>5. CASE r.use = "image" /\ \A v \in Ahead(j) : Before(r, v)
    <3>1. r.va < va /\ r.va + r.n <= va + 1
      BY <2>1, <2>5 DEF Before
    <3>2. r.va + r.n - 1 = va
      BY <1>1, <1>3, <1>4, <3>1
    <3> QED
      BY <1>6, <2>5, <3>2
  <2> QED
    BY <2>3, <2>4, <2>5
<1> QED
  BY <1>5, <1>6

LEMMA MapTest ==
  ASSUME IInv, ~clash', NEW k \in KThreads, map_test(k)
  PROVE  IInv' /\ LeakStep
<1> DEFINE j == job[k]
           X == JobAt(j, "fill")
<1>0. Running(k, "map") /\ "map" \notin {"idle", "free", "unlink"}
  BY DEF map_test
<1>1. /\ mem \in MemRec /\ job \in Jobs /\ mem.halt = "no" /\ Kept(Claims(mem, job), mem.used)
      /\ j \in JobRec /\ Proper(j) /\ j.pc = "map" /\ j.pc # "idle" /\ Sane(mem, job)
      /\ IsFiniteSet(mem.regs[KERNEL])
  BY <1>0, RunningIs
<1>2. CASE Full(mem, j.p)
  <2>1. mem' = Halt(mem, "regions") /\ job' = job
    BY <1>2 DEF map_test, Stop
  <2> QED
    BY <1>0, <2>1, StopIs, WhyIs
<1>3. CASE ~Full(mem, j.p) /\ Overlaps(mem.regs[j.p], j.r.va, j.r.n) /\ j.r.use \in {"kernel", "image"}
  <2>1. j.p \in Users /\ mem.regs[j.p] \in SUBSET RegionType
    BY <1>1, <1>3, KernelIsProc, MemFields DEF Proper
  <2>2. Loads(mem.regs[j.p], j)
    BY <1>1, <2>1 DEF Sane, Loading
  <2>3. /\ j.r.use = "image"
        /\ \E r \in mem.regs[j.p] : r.use = "image" /\ r.va + r.n - 1 = j.r.va
    BY <1>1, <1>3, <2>1, <2>2, LoadsOverlap
  <2>4. mem' = Halt(mem, "overlap") /\ job' = job /\ "overlap" \in Halts
    BY <1>3, <2>3 DEF map_test, Fails, Stop, Halts
  <2>5. mem' \in MemRec /\ mem'.halt = "overlap" /\ mem'.used = mem.used /\ mem'.regs = mem.regs
    BY <1>1, <2>4, HaltIs
  <2>6. OverlapPanicCause'
    BY <1>1, <2>3, <2>4, <2>5 DEF OverlapPanicCause
  <2>7. Types(mem, job)'
    BY <1>1, <2>4, <2>5 DEF Types
  <2>8. Claims(mem, job)' = Claims(mem, job)
    BY <2>4, <2>5 DEF Claims, LiveIn
  <2>9. IInv'
    BY <1>1, <2>5, <2>6, <2>7, <2>8 DEF IInv
  <2> QED
    BY <2>5, <2>9 DEF LeakStep
<1>4. CASE ~Full(mem, j.p) /\ Overlaps(mem.regs[j.p], j.r.va, j.r.n) /\ j.r.use \notin {"kernel", "image"}
  <2>1. Fails(k, "overlap") /\ j.p = KERNEL
    BY <1>1, <1>4 DEF map_test, Proper
  <2>2. mem' = mem /\ job' = Turned(job, k, Idle) /\ job'[k] = Idle
    BY <1>1, <1>4, <2>1 DEF Fails, Leave, Turned, Jobs
  <2>3. ThreadClaim(k, j) = {} \/ Excused
    <3>1. CASE j.r.use = "lfb"
      BY <3>1 DEF ThreadClaim
    <3>2. CASE j.r.use # "lfb"
      BY <1>1, <1>4, <2>1, <2>2, <3>2 DEF Excused, Proper
    <3> QED
      BY <3>1, <3>2
  <2> QED
    BY <1>0, <2>2, <2>3, LeaveIs
<1>5. CASE ~Full(mem, j.p) /\ ~Overlaps(mem.regs[j.p], j.r.va, j.r.n)
  <2>1. mem' = mem /\ job' = Turned(job, k, X)
    BY <1>1, <1>5 DEF map_test, Goto, Turned, JobAt, Jobs
  <2> HIDE DEF X
  <2>2. "fill" \in Steps
    BY DEF Steps
  <2>3. Becomes(j, X, "fill", j.r, j.i)
    BY <1>1, <2>2, JobAtIs DEF X
  <2>4. X \in JobRec /\ SameJob(j, X) /\ Proper(X)
    BY <1>1, <2>3 DEF SameJob, Proper, Becomes, Unlinks
  <2>5. ThreadClaim(k, X) = ThreadClaim(k, j)
    BY <1>1, <2>3 DEF ThreadClaim, Becomes
  <2> QED
    BY <1>0, <1>1, <2>1, <2>4, <2>5, SameClaim
<1> QED
  BY <1>2, <1>3, <1>4, <1>5

LEMMA MapFill ==
  ASSUME IInv, ~clash', NEW k \in KThreads, map_fill(k)
  PROVE  IInv' /\ LeakStep
<1> DEFINE j == job[k]
           X == JobAt(j, "count")
<1>0. Running(k, "fill") /\ "fill" # "idle"
  BY DEF map_fill
<1>1. /\ mem \in MemRec /\ job \in Jobs /\ mem.halt = "no"
      /\ j \in JobRec /\ Proper(j) /\ j.pc = "fill"
  BY <1>0, RunningIs
<1>2. mem' = PutPages(mem, j.p, j.r) /\ job' = Turned(job, k, X)
  BY <1>1 DEF map_fill, Goto, Turned, JobAt, Jobs
<1> HIDE DEF X
<1>3. j.p \in Procs /\ j.r \in RegionType /\ j.r.pa \in Nat
  BY <1>1 DEF JobRec, Proper
<1>4. mem' \in MemRec /\ mem'.used = mem.used /\ mem'.regs = mem.regs /\ mem'.halt = "no"
  BY <1>1, <1>2, <1>3, PutIs
<1>5. "count" \in Steps
  BY DEF Steps
<1>6. Becomes(j, X, "count", j.r, j.i)
  BY <1>1, <1>5, JobAtIs DEF X
<1>7. X \in JobRec /\ SameJob(j, X) /\ Proper(X)
  BY <1>1, <1>6 DEF SameJob, Proper, Becomes, Unlinks
<1>8. ThreadClaim(k, X) = ThreadClaim(k, j)
  BY <1>1, <1>6 DEF ThreadClaim, Becomes
<1> QED
  BY <1>0, <1>2, <1>4, <1>7, <1>8, SameClaim

(* The memory after a region has been counted. *)
Counted(m, p, r) == [m EXCEPT !.regs[p] = @ \cup {r}]

LEMMA CountedIs ==
  ASSUME NEW m \in MemRec, NEW p \in Procs, NEW r \in RegionType
  PROVE  LET m1 == Counted(m, p, r)
         IN /\ m1 \in MemRec /\ m1.used = m.used /\ m1.halt = m.halt /\ m1.pages = m.pages
            /\ m1.regs = [m.regs EXCEPT ![p] = @ \cup {r}]
<1> DEFINE rs == [m.regs EXCEPT ![p] = @ \cup {r}]
<1>1. rs \in [Procs -> SUBSET RegionType]
  BY MemFields
<1>2. Counted(m, p, r) = [m EXCEPT !.regs = rs]
  BY DEF Counted, MemRec
<1> HIDE DEF rs
<1>3. [m EXCEPT !.regs = rs] \in MemRec
  BY <1>1, MemIs, MemFields
<1> QED
  BY <1>2, <1>3 DEF MemRec, rs

(* A claim of a thread becomes one of a process. *)
LEMMA CountClaims ==
  ASSUME NEW m \in MemRec, NEW m1, NEW J \in Jobs, NEW k \in KThreads, NEW X, NEW J1, NEW p \in Procs,
         J1 = Turned(J, k, X), J[k] \in JobRec, J[k].pc = "count", J[k].p = p, Proper(J[k]),
         X.pc \in {"idle", "find"}, m1.used = m.used,
         m1.regs = [m.regs EXCEPT ![p] = @ \cup {J[k].r}],
         J[k].r \notin UnlinkingIn(J), Kept(Claims(m, J), m.used)
  PROVE  Kept(Claims(m1, J1), m1.used) /\ NothingLost(m, J, m1, J1)
<1> DEFINE r == J[k].r
           c == [kind |-> "thread", of |-> k, r |-> r, n |-> r.n, from |-> 0]
           d == [kind |-> "region", of |-> p, r |-> r, n |-> r.n, from |-> 0]
<1>0. r \in RegionType /\ r.use \in {"heap", "fdc", "sb16", "lfb", "kernel", "image"}
      /\ r.n \in Nat /\ m.regs \in [Procs -> SUBSET RegionType]
  BY MemFields DEF JobRec, Proper, RegionType
<1>1. LiveIn(m1, J, p) = LiveIn(m, J, p) \cup {r}
  BY <1>0 DEF LiveIn
<1>2. \A q \in Procs \ {p} : LiveIn(m1, J, q) = LiveIn(m, J, q)
  BY <1>0 DEF LiveIn
<1> HIDE DEF r
<1>3. Claims(m1, J) = Claims(m, J) \cup RegionClaim(p, r)
  BY <1>1, <1>2, RegionAdded
<1>4. ClaimsTurned(m1, J, m1, J1, k, X)
  <2>1. ~Unlinks(X) /\ ~Unlinks(J[k]) /\ m1.regs = m1.regs
    BY DEF Unlinks
  <2> QED
    BY <2>1, GoesOn
<1>5. ThreadClaim(k, X) = {}
  BY DEF ThreadClaim
<1>6. Claims(m1, J1) = (Claims(m, J) \cup RegionClaim(p, r)) \ ThreadClaim(k, J[k])
  BY <1>3, <1>4, <1>5 DEF ClaimsTurned
<1>7. CASE r.use \in {"lfb", "kernel"}
  <2>1. ThreadClaim(k, J[k]) = {} /\ RegionClaim(p, r) = {}
    BY <1>7 DEF ThreadClaim, RegionClaim, Owned, AutoFree, r
  <2> QED
    BY <1>6, <2>1 DEF NothingLost
<1>8. CASE r.use \notin {"lfb", "kernel"}
  <2>1. ThreadClaim(k, J[k]) = {c} /\ c.r = r /\ c.n = r.n /\ c.from = 0
    BY <1>8 DEF ThreadClaim, r
  <2>2. RegionClaim(p, r) = {d} /\ d.r = r /\ d.n = r.n /\ d.from = 0
    BY <1>0, <1>8 DEF RegionClaim, Owned, AutoFree
  <2>3. c # d
    OBVIOUS
  <2> HIDE DEF c, d
  <2>4. c \in Claims(m, J)
    BY <2>1, ClaimIs
  <2>5. Claims(m1, J1) = (Claims(m, J) \ {c}) \cup {d}
    BY <1>6, <2>1, <2>2, <2>3
  <2>6. Area(d) = Area(c) /\ Extent(d) = Extent(c)
    BY <2>1, <2>2 DEF Area, Extent
  <2>7. WellPlaced(d)
    BY <1>0, <2>1, <2>2, <2>4 DEF Kept, WellPlaced
  <2> HIDE DEF WellPlaced, Area, Extent
  <2>8. Traded(Claims(m, J), m.used, c, d, {}, {}, Claims(m1, J1), m1.used)
    BY <2>4, <2>5, <2>6, <2>7 DEF Traded, Fresh
  <2> QED
    BY <2>8, Trade DEF NothingLost
<1> QED
  BY <1>7, <1>8

(* The loader goes on with the next segment. *)
LEMMA NextSegment ==
  ASSUME NEW rs \in SUBSET RegionType, NEW j \in JobRec, Loads(rs, j), j.rest # <<>>,
         j.r.use \in {"kernel", "image"},
         NEW X \in JobRec, X.rest = Tail(j.rest), X.r.use = "image",
         X.r.va = Head(j.rest).va, X.r.n = SegmentPages(Head(j.rest))
  PROVE  Loads(rs \cup {j.r}, X)
<1> DEFINE rest == j.rest
           n == Len(rest)
<1>0. rest \in Seq(Segment) /\ rest # <<>>
  BY DEF JobRec
<1>1. n \in Nat \ {0} /\ Head(rest) = rest[1] /\ X.rest \in Seq(Segment) /\ Len(X.rest) = n - 1
      /\ \A i \in 1 .. n - 1 : X.rest[i] = rest[i + 1]
  BY <1>0
<1>2. \A i \in 1 .. n : rest[i] \in Segment /\ rest[i].va \in Nat /\ SegmentPages(rest[i]) \in Nat
  <2>1. \A i \in 1 .. n : rest[i] \in Segment
    BY <1>0
  <2>2. \A i \in 1 .. n : rest[i].va \in Nat
    BY <2>1 DEF Segment
  <2>3. \A i \in 1 .. n : SegmentPages(rest[i]) \in Nat
    BY <2>1, PagesIs
  <2> QED
    BY <2>1, <2>2, <2>3
<1>3. \A i \in 1 .. n :
        /\ rest[i].va + SegmentPages(rest[i]) <= UserTop
        /\ \A l \in i + 1 .. n :
             /\ rest[i].va < rest[l].va
             /\ rest[i].va + SegmentPages(rest[i]) <= rest[l].va + 1
  BY DEF Loads, Segments
<1>4. \A v \in Ahead(X) : \E i \in 1 .. n : v = rest[i].va
  <2> SUFFICES ASSUME NEW v \in Ahead(X) PROVE \E i \in 1 .. n : v = rest[i].va
    OBVIOUS
  <2>1. v = rest[1].va \/ \E i \in 1 .. n - 1 : v = X.rest[i].va
    BY <1>1 DEF Ahead
  <2>2. CASE v = rest[1].va
    BY <1>1, <2>2
  <2>3. ASSUME NEW i \in 1 .. n - 1, v = X.rest[i].va PROVE \E l \in 1 .. n : v = rest[l].va
    <3>1. v = rest[i + 1].va /\ i + 1 \in 1 .. n
      BY <1>1, <2>3
    <3> QED
      BY <3>1
  <2> QED
    BY <2>1, <2>2, <2>3
<1>5. \A i \in 1 .. n : rest[i].va \in Ahead(j)
  BY DEF Ahead
<1> HIDE DEF rest, n
<1>6. \A r \in rs : \/ UserTop <= r.va /\ 0 < r.n
                    \/ r.use = "image" /\ \A v \in Ahead(X) : Before(r, v)
  <2>1. \A r \in rs : \/ UserTop <= r.va /\ 0 < r.n
                      \/ r.use = "image" /\ \A v \in Ahead(j) : Before(r, v)
    BY DEF Loads
  <2>2. \A v \in Ahead(X) : v \in Ahead(j)
    BY <1>4, <1>5
  <2> QED
    BY <2>1, <2>2
<1>7. \/ UserTop <= j.r.va /\ 0 < j.r.n
      \/ j.r.use = "image" /\ \A v \in Ahead(X) : Before(j.r, v)
  <2>1. CASE j.r.use = "kernel"
    <3>1. j.r = KernelRegion
      BY <2>1 DEF Loads
    <3>2. UserTop <= KBASE /\ 0 < KSIZE
      BY MemoryAssumption DEF UserTop
    <3> QED
      BY <3>1, <3>2, KernelRegionIs
  <2>2. CASE j.r.use = "image"
    <3>1. \A i \in 1 .. n : Before(j.r, rest[i].va)
      BY <2>2 DEF Loads, rest, n
    <3> QED
      BY <1>4, <2>2, <3>1
  <2> QED
    BY <2>1, <2>2
<1>8. Segments(X.rest)
  <2> SUFFICES ASSUME NEW i \in 1 .. n - 1
               PROVE  /\ X.rest[i].va + SegmentPages(X.rest[i]) <= UserTop
                      /\ \A l \in i + 1 .. n - 1 :
                           /\ X.rest[i].va < X.rest[l].va
                           /\ X.rest[i].va + SegmentPages(X.rest[i]) <= X.rest[l].va + 1
    BY <1>1 DEF Segments
  <2>1. i + 1 \in 1 .. n /\ X.rest[i] = rest[i + 1]
    BY <1>1
  <2>2. ASSUME NEW l \in i + 1 .. n - 1
        PROVE  X.rest[l] = rest[l + 1] /\ l + 1 \in (i + 1) + 1 .. n
    BY <1>1, <2>1
  <2> QED
    BY <1>3, <2>1, <2>2
<1>9. X.r.va + X.r.n <= UserTop /\ \A i \in 1 .. Len(X.rest) : Before(X.r, X.rest[i].va)
  <2>1. 1 \in 1 .. n /\ X.r.va = rest[1].va /\ X.r.n = SegmentPages(rest[1])
    BY <1>1 DEF rest
  <2>2. \A i \in 1 .. n - 1 : X.rest[i] = rest[i + 1] /\ i + 1 \in 1 + 1 .. n
    BY <1>1
  <2> QED
    BY <1>1, <1>3, <2>1, <2>2 DEF Before
<1>10. \A r \in rs \cup {j.r} : \/ UserTop <= r.va /\ 0 < r.n
                                \/ r.use = "image" /\ \A v \in Ahead(X) : Before(r, v)
  BY <1>6, <1>7
<1> HIDE DEF Segments, Ahead, Before
<1> QED
  BY <1>8, <1>9, <1>10 DEF Loads

(* What a thread does that has counted a region for j. *)
Afterwards(m1, j, X) ==
  \/ X = Idle
  \/ /\ j.p \in Users /\ X.pc = "find" /\ X.p = j.p /\ X.r.use = "image" /\ Proper(X)
     /\ Loads(m1.regs[j.p], X)

(* The places of other loaders do not change. *)
LEMMA SaneCounts ==
  ASSUME NEW m \in MemRec, NEW m1, NEW J \in Jobs, NEW k \in KThreads, NEW X, NEW J1,
         J1 = Turned(J, k, X), J[k] \in JobRec, J[k].pc = "count", Sane(m, J),
         m1.regs = [m.regs EXCEPT ![J[k].p] = @ \cup {J[k].r}],
         Afterwards(m1, J[k], X)
  PROVE  Sane(m1, J1)
<1> DEFINE j == J[k]
           p == j.p
<1>0. J1[k] = X /\ \A q \in KThreads \ {k} : J1[q] = J[q]
  BY DEF Jobs, Turned
<1> HIDE DEF Jobs
<1>1. p \in Procs /\ KERNEL \in Procs /\ Users \subseteq Procs /\ KERNEL \notin Users
      /\ m.regs \in [Procs -> SUBSET RegionType]
  BY KernelIsProc, MemFields DEF JobRec
<1>2. m1.regs[p] = m.regs[p] \cup {j.r} /\ \A q \in Procs \ {p} : m1.regs[q] = m.regs[q]
  BY <1>1
<1>3. Proper(j) /\ j.pc = "count" /\ j.pc # "idle" /\ ~Unlinks(j)
  BY DEF Sane, Unlinks
<1>4. X.pc # "idle" => X.pc = "find" /\ X.p = p /\ p \in Users /\ X.r.use = "image" /\ Proper(X)
                       /\ Loads(m1.regs[p], X)
  BY IdleIs DEF Afterwards
<1>5. \A q \in KThreads \ {k} : J[q].pc # "idle" /\ J[q].p \in Users =>
        J[q].p # p /\ m1.regs[J[q].p] = m.regs[J[q].p]
  <2>1. \A q \in KThreads \ {k} : J[q].pc # "idle" /\ J[q].p \in Users => J[q].p # p
    BY <1>3 DEF Sane, Loading
  <2> QED
    BY <1>1, <1>2, <2>1
<1>6. m1.regs[KERNEL] = m.regs[KERNEL] \/ (p = KERNEL /\ m1.regs[KERNEL] = m.regs[KERNEL] \cup {j.r})
  BY <1>1, <1>2
<1> HIDE DEF p, j
<1>7. Loading(m1, J1)
  <2>1. ASSUME NEW q \in KThreads, J1[q].pc # "idle", J1[q].p \in Users
        PROVE  /\ Loads(m1.regs[J1[q].p], J1[q])
               /\ \A l \in KThreads \ {q} : J1[l].pc # "idle" => J1[l].p # J1[q].p
    <3>1. CASE q = k
      <4>1. Loads(m1.regs[p], X) /\ X.p = p /\ p \in Users
        BY <1>0, <1>4, <2>1, <3>1
      <4>2. \A l \in KThreads \ {k} : J[l].pc # "idle" => J[l].p # p
        BY <1>5, <4>1
      <4> QED
        BY <1>0, <3>1, <4>1, <4>2
    <3>2. CASE q # k
      <4>1. J1[q] = J[q] /\ J[q].p # p /\ m1.regs[J[q].p] = m.regs[J[q].p]
        BY <1>0, <1>5, <2>1, <3>2
      <4>2. /\ Loads(m.regs[J[q].p], J[q])
            /\ \A l \in KThreads \ {q} : J[l].pc # "idle" => J[l].p # J[q].p
        BY <2>1, <4>1 DEF Sane, Loading
      <4> QED
        BY <1>0, <1>4, <4>1, <4>2
    <3> QED
      BY <3>1, <3>2
  <2> QED
    BY <2>1 DEF Loading
<1>8. BuffersOnce(m1, J1)
  <2>0. BuffersOnce(m, J) /\ "image" \notin Buffers
    BY DEF Sane, Buffers
  <2>1. \A q \in KThreads : J1[q].pc # "idle" /\ J1[q].r.use \in Buffers => q # k /\ J1[q] = J[q]
    BY <1>0, <1>4, <2>0
  <2>2. p # KERNEL => j.r.use \notin Buffers
    BY <1>3 DEF Proper, Buffers, p
  <2>3. j.r.use \in Buffers =>
          /\ \A l \in KThreads \ {k} : J[l].pc # "idle" => J[l].r.use # j.r.use
          /\ \A r \in m.regs[KERNEL] : r.use # j.r.use
    BY <1>3, <2>0 DEF BuffersOnce, j
  <2>4. ASSUME NEW q \in KThreads, J1[q].pc # "idle", J1[q].r.use \in Buffers
        PROVE  /\ \A l \in KThreads \ {q} : J1[l].pc # "idle" => J1[l].r.use # J1[q].r.use
               /\ ~Unlinks(J1[q]) => \A r \in m1.regs[KERNEL] : r.use # J1[q].r.use
               /\ Unlinks(J1[q]) => J1[q].r \in m1.regs[KERNEL]
    <3>1. q # k /\ J1[q] = J[q]
      BY <2>1, <2>4
    <3>2. /\ \A l \in KThreads \ {q} : J[l].pc # "idle" => J[l].r.use # J[q].r.use
          /\ ~Unlinks(J[q]) => \A r \in m.regs[KERNEL] : r.use # J[q].r.use
          /\ Unlinks(J[q]) => J[q].r \in m.regs[KERNEL]
      BY <2>0, <2>4, <3>1 DEF BuffersOnce
    <3>3. j.r.use # J[q].r.use
      BY <1>3, <3>1, <3>2 DEF j
    <3>4. \A l \in KThreads \ {q} : J1[l].pc # "idle" => J1[l].r.use # J1[q].r.use
      BY <1>0, <1>4, <2>0, <2>4, <3>1, <3>2
    <3> QED
      BY <1>6, <3>1, <3>2, <3>3, <3>4
  <2>5. \A r, s \in m1.regs[KERNEL] : r.use \in Buffers /\ r.use = s.use => r = s
    <3>1. \A r, s \in m.regs[KERNEL] : r.use \in Buffers /\ r.use = s.use => r = s
      BY <2>0 DEF BuffersOnce
    <3> QED
      BY <1>6, <2>2, <2>3, <3>1
  <2>6. \A r \in m1.regs[KERNEL] : r.use \in Buffers => 0 < r.n
    <3>1. \A r \in m.regs[KERNEL] : r.use \in Buffers => 0 < r.n
      BY <2>0 DEF BuffersOnce
    <3>2. 0 < j.r.n
      BY <1>3 DEF Proper
    <3> QED
      BY <1>6, <3>1, <3>2
  <2> QED
    BY <2>4, <2>5, <2>6 DEF BuffersOnce
<1>9. \E r \in m1.regs[KERNEL] : r.use \notin Buffers
  BY <1>6 DEF Sane
<1>10. \A q \in KThreads : J1[q].pc # "idle" => Proper(J1[q])
  BY <1>0, <1>4 DEF Sane
<1> QED
  BY <1>7, <1>8, <1>9, <1>10 DEF Sane

LEMMA MapCount ==
  ASSUME IInv, ~clash', NEW k \in KThreads, map_count(k)
  PROVE  IInv' /\ LeakStep
<1> DEFINE j == job[k]
           p == j.p
           r == j.r
           s == Region(Head(j.rest).va, SegmentPages(Head(j.rest)), "image")
           N == NewJob("find", p, s, Tail(j.rest))
           X == IF j.rest = <<>> THEN Idle ELSE N
           m == Counted(mem, p, r)
<1>0. Running(k, "count") /\ "count" # "idle" /\ mem' = (IF r.use = "image" THEN TempMap(m, r.n) ELSE m)
  <2>1. Entries(p, r) = {r}
    BY DEF Entries, IInv
  <2> QED
    BY <2>1 DEF map_count, Counted
<1>1. /\ mem \in MemRec /\ job \in Jobs /\ mem.halt = "no" /\ Kept(Claims(mem, job), mem.used)
      /\ j \in JobRec /\ Proper(j) /\ j.pc = "count" /\ j.pc # "idle" /\ ~Unlinks(j)
      /\ Sane(mem, job) /\ IsFiniteSet(mem.regs[KERNEL])
  BY <1>0, RunningIs DEF Unlinks
<1>2. /\ p \in Procs /\ r \in RegionType /\ j.rest \in Seq(Segment) /\ KERNEL \in Procs
      /\ r.use \in {"heap", "fdc", "sb16", "lfb", "kernel", "image"}
  BY <1>1, KernelIsProc DEF JobRec, Proper
<1>3. ASSUME j.rest # <<>>
      PROVE  /\ Started(N, "find", p, s, Tail(j.rest)) /\ job' = Turned(job, k, N)
             /\ s \in RegionType /\ s.va = Head(j.rest).va /\ s.n = SegmentPages(Head(j.rest))
             /\ s.use = "image" /\ s.n \in Nat \ {0} /\ p \in Users /\ r.use \in {"kernel", "image"}
  <2>1. Head(j.rest) \in Segment /\ Tail(j.rest) \in Seq(Segment)
    BY <1>2, <1>3
  <2>2. Head(j.rest).va \in Nat /\ SegmentPages(Head(j.rest)) \in Nat \ {0}
    BY <2>1, PagesIs DEF Segment
  <2>3. "image" \in Uses /\ NoBlock \in Nat \cup {NoBlock}
    BY DEF Uses, AutoFree
  <2>4. /\ s \in RegionType /\ s.va = Head(j.rest).va /\ s.n = SegmentPages(Head(j.rest))
        /\ s.use = "image"
    BY <2>2, <2>3, RegionIs DEF Region
  <2>5. Start(k, "find", p, s, Tail(j.rest))
    BY <1>3 DEF map_count
  <2> HIDE DEF N, s
  <2>6. Started(N, "find", p, s, Tail(j.rest)) /\ job' = Turned(job, k, N)
    <3>1. "find" \in Steps
      BY DEF Steps
    <3> QED
      BY <1>2, <2>1, <2>4, <2>5, <3>1, StartIs DEF N
  <2>7. p \in Users /\ r.use \in {"kernel", "image"}
    BY <1>1, <1>2, <1>3 DEF Proper
  <2> QED
    BY <2>2, <2>4, <2>6, <2>7
<1> HIDE DEF N, s
<1>4. job' = Turned(job, k, X) /\ X \in {Idle} \cup JobRec /\ X.pc \in {"idle", "find"}
      /\ ~Unlinks(X) /\ (X = Idle \/ X = N)
  <2>1. CASE j.rest = <<>>
    <3>1. job' = Turned(job, k, Idle) /\ X = Idle
      BY <2>1 DEF map_count, Leave, Turned
    <3> QED
      BY <3>1, IdleIs DEF Unlinks
  <2>2. CASE j.rest # <<>>
    BY <1>3, <2>2 DEF Started, Unlinks
  <2> QED
    BY <2>1, <2>2
<1>5. job' \in Jobs
  BY <1>1, <1>4, JobsIs
<1>6. m \in MemRec /\ m.used = mem.used /\ m.halt = "no"
      /\ m.regs = [mem.regs EXCEPT ![p] = @ \cup {r}]
  BY <1>1, <1>2, CountedIs
<1> HIDE DEF X, m
<1>11. mem' \in MemRec /\ mem'.used = mem.used /\ mem'.halt \in {"no", "regions"}
      /\ mem'.regs = [mem.regs EXCEPT ![p] = @ \cup {r}]
  <2>1. CASE r.use # "image"
    BY <1>0, <1>6, <2>1
  <2>2. CASE r.use = "image"
    <3>1. mem' = TempMap(m, r.n)
      BY <1>0, <2>2
    <3> QED
      BY <1>2, <1>6, <3>1, TempMapIs
  <2> QED
    BY <2>1, <2>2
<1>12. r \notin UnlinkingIn(job)
  <2>1. ASSUME NEW q \in KThreads, Unlinks(job[q]), job[q].r = r PROVE FALSE
    <3>1. job[q].pc # "idle" /\ Proper(job[q]) /\ q # k
      BY <1>1, <2>1 DEF Sane, Unlinks
    <3>2. r.use \in Buffers
      BY <2>1, <3>1 DEF Proper
    <3> QED
      BY <1>1, <2>1, <3>1, <3>2 DEF Sane, BuffersOnce
  <2> QED
    BY <2>1 DEF UnlinkingIn, Unlinks
<1>13. Kept(Claims(mem', job'), mem'.used) /\ NothingLost(mem, job, mem', job')
  BY <1>1, <1>2, <1>4, <1>11, <1>12, CountClaims
<1>14. IsFiniteSet(mem'.regs[KERNEL])
  <2>1. mem'.regs[KERNEL] = mem.regs[KERNEL] \/ mem'.regs[KERNEL] = mem.regs[KERNEL] \cup {r}
    BY <1>1, <1>2, <1>11, MemFields
  <2> QED
    BY <1>1, <2>1, FS_AddElement
<1>15. Sane(mem', job')
  <2>1. CASE j.rest = <<>>
    <3>1. Afterwards(mem', j, X)
      BY <2>1 DEF X, Afterwards
    <3> QED
      BY <1>1, <1>4, <1>11, <3>1, SaneCounts
  <2>2. CASE j.rest # <<>>
    <3>1. X = N
      BY <2>2 DEF X
    <3>2. /\ X \in JobRec /\ X.pc = "find" /\ X.p = p /\ X.r = s /\ X.rest = Tail(j.rest) /\ X.i = 0
          /\ X.r.use = "image" /\ X.r.va = Head(j.rest).va /\ X.r.n = SegmentPages(Head(j.rest))
          /\ X.r.n \in Nat \ {0} /\ p \in Users /\ r.use \in {"kernel", "image"}
      BY <1>3, <2>2, <3>1 DEF Started
    <3>3. Proper(X)
      BY <3>2 DEF Proper, Unlinks
    <3>4. Loads(mem.regs[p], j) /\ mem.regs[p] \in SUBSET RegionType
      BY <1>1, <1>2, <3>2, MemFields DEF Sane, Loading
    <3>5. Loads(mem.regs[p] \cup {r}, X)
      BY <1>1, <2>2, <3>2, <3>4, NextSegment
    <3>6. mem'.regs[p] = mem.regs[p] \cup {r}
      BY <1>1, <1>2, <1>11, MemFields
    <3>7. Afterwards(mem', j, X)
      BY <3>2, <3>3, <3>5, <3>6 DEF Afterwards
    <3> QED
      BY <1>1, <1>4, <1>11, <3>7, SaneCounts
  <2> QED
    BY <2>1, <2>2
<1>16. Inv(mem', job')
  BY <1>5, <1>11, <1>13, <1>14, <1>15 DEF Inv, Types
<1> QED
  BY <1>13, <1>16, StepOut

-----------------------------------------------------------------------------
(* Unmapping *)

(* A driver begins to give back its buffer. *)
LEMMA SaneUnmaps ==
  ASSUME NEW m, NEW m1, NEW J \in Jobs, NEW k \in KThreads, NEW X, NEW J1, J1 = Turned(J, k, X),
         m1.regs = m.regs, Sane(m, J), J[k].pc = "idle",
         Unlinks(X), X.p = KERNEL, Proper(X), X.r \in m.regs[KERNEL], X.r.use \in Buffers,
         \A q \in KThreads : Unlinks(J[q]) => J[q].r # X.r
  PROVE  Sane(m1, J1)
<1>1. J1[k] = X /\ \A q \in KThreads \ {k} : J1[q] = J[q]
  BY DEF Jobs, Turned
<1> HIDE DEF Jobs
<1>2. KERNEL \notin Users
  BY KernelIsProc
<1>3. X.pc # "idle"
  BY DEF Unlinks
<1>4. BuffersOnce(m, J)
  BY DEF Sane
<1>5. \A q \in KThreads \ {k} : J[q].pc # "idle" => J[q].r.use # X.r.use
  <2> SUFFICES ASSUME NEW q \in KThreads \ {k}, J[q].pc # "idle", J[q].r.use = X.r.use PROVE FALSE
    OBVIOUS
  <2>1. Unlinks(J[q]) /\ J[q].r \in m.regs[KERNEL]
    BY <1>4 DEF BuffersOnce
  <2>2. J[q].r = X.r
    BY <1>4, <2>1 DEF BuffersOnce
  <2> QED
    BY <2>1, <2>2
<1>6. BuffersOnce(m1, J1)
  BY <1>1, <1>3, <1>4, <1>5 DEF BuffersOnce
<1>7. Loading(m1, J1)
  BY <1>1, <1>2 DEF Sane, Loading
<1> QED
  BY <1>1, <1>3, <1>6, <1>7 DEF Sane

LEMMA UnmapPages ==
  ASSUME IInv, ~clash', NEW k \in KThreads, unmap_pages(k)
  PROVE  IInv' /\ LeakStep
<1>0. Running(k, "idle")
  BY DEF unmap_pages
<1>1. /\ mem \in MemRec /\ job \in Jobs /\ mem.halt = "no" /\ Kept(Claims(mem, job), mem.used)
      /\ job[k] = Idle /\ job[k].pc = "idle" /\ Sane(mem, job) /\ IsFiniteSet(mem.regs[KERNEL])
  BY <1>0, RunningIs
<1>2. PICK r \in mem.regs[KERNEL] :
        /\ r.use \in {"fdc", "sb16", "lfb"}
        /\ \A q \in KThreads : Unlinks(job[q]) => job[q].r # r
        /\ mem' = DropPages(mem, KERNEL, r.va, r.n)
        /\ Start(k, IF r.use \in AutoFree THEN "free" ELSE "unlink", KERNEL, r, <<>>)
  BY DEF unmap_pages, Unlinks
<1> DEFINE at == IF r.use \in AutoFree THEN "free" ELSE "unlink"
           X == NewJob(at, KERNEL, r, <<>>)
           m2 == [mem EXCEPT !.regs = [mem.regs EXCEPT ![KERNEL] = @ \ {r}]]
<1>3. KERNEL \in Procs /\ KERNEL \notin Users /\ r \in RegionType /\ r.n \in Nat /\ r.use \in Buffers
      /\ <<>> \in Seq(Segment)
  <2>1. r \in RegionType /\ KERNEL \in Procs /\ KERNEL \notin Users
    BY <1>1, <1>2, KernelIsProc, MemFields
  <2> QED
    BY <1>2, <2>1 DEF RegionType, Buffers
<1>4. at \in Steps /\ at \in {"free", "unlink"} /\ (r.use \in AutoFree <=> at = "free")
      /\ (r.use \in AutoFree <=> r.use # "lfb")
  BY <1>2 DEF Steps, AutoFree
<1>5. mem' \in MemRec /\ mem'.used = mem.used /\ mem'.regs = mem.regs /\ mem'.halt = "no"
  BY <1>1, <1>2, <1>3, DropIs
<1> HIDE DEF X, at
<1>6. Started(X, at, KERNEL, r, <<>>) /\ job' = Turned(job, k, X)
  BY <1>2, <1>3, <1>4, StartIs DEF X, at
<1>7. X \in JobRec /\ X.pc = at /\ X.p = KERNEL /\ X.r = r /\ X.rest = <<>> /\ X.i = 0 /\ Unlinks(X)
      /\ ~Unlinks(job[k])
  BY <1>1, <1>4, <1>6 DEF Started, Unlinks
<1>8. m2.regs[KERNEL] = mem.regs[KERNEL] \ {r} /\ \A q \in Procs \ {KERNEL} : m2.regs[q] = mem.regs[q]
  BY <1>1, <1>3 DEF MemRec
<1> HIDE DEF m2
<1>9. r \in LiveIn(mem, job, KERNEL)
  BY <1>2 DEF LiveIn, UnlinkingIn, Unlinks
<1>10. LiveIn(m2, job, KERNEL) = LiveIn(mem, job, KERNEL) \ {r}
       /\ \A q \in Procs \ {KERNEL} : LiveIn(m2, job, q) = LiveIn(mem, job, q)
  BY <1>8 DEF LiveIn
<1>11. /\ RegionClaim(KERNEL, r) \subseteq Claims(mem, job)
       /\ Claims(m2, job) = Claims(mem, job) \ RegionClaim(KERNEL, r)
  BY <1>3, <1>9, <1>10, RegionRemoved
<1>12. ThreadClaim(k, job[k]) = {}
  BY <1>1 DEF ThreadClaim
<1>13. SameLive(m2, job, mem', job')
  <2>1. UnlinkingIn(job') = UnlinkingIn(job) \cup {r}
    BY <1>1, <1>6, <1>7, UnlinkingChange
  <2> QED
    BY <1>5, <1>8, <2>1 DEF SameLive, LiveIn
<1>14. ClaimsTurned(m2, job, mem', job', k, X)
  BY <1>1, <1>6, <1>13, JobChange
<1>15. Claims(mem', job') = (Claims(mem, job) \ RegionClaim(KERNEL, r)) \cup ThreadClaim(k, X)
  BY <1>11, <1>12, <1>14 DEF ClaimsTurned
<1> DEFINE c == [kind |-> "region", of |-> KERNEL, r |-> r, n |-> r.n, from |-> 0]
           d == [kind |-> "thread", of |-> k, r |-> r, n |-> r.n, from |-> 0]
<1>16. /\ r.use \in AutoFree => RegionClaim(KERNEL, r) = {c} /\ ThreadClaim(k, X) = {d}
       /\ r.use \notin AutoFree => RegionClaim(KERNEL, r) = {} /\ ThreadClaim(k, X) = {}
  <2>1. r.use \in AutoFree => RegionClaim(KERNEL, r) = {c}
    BY DEF RegionClaim, Owned
  <2>2. r.use \in AutoFree => ThreadClaim(k, X) = {d}
    BY <1>3, <1>4, <1>7 DEF ThreadClaim, Buffers
  <2>3. r.use \notin AutoFree => RegionClaim(KERNEL, r) = {}
    BY <1>3 DEF RegionClaim, Owned, Buffers
  <2>4. r.use \notin AutoFree => ThreadClaim(k, X) = {}
    BY <1>4, <1>7 DEF ThreadClaim
  <2> QED
    BY <2>1, <2>2, <2>3, <2>4
<1>17. c.r = r /\ c.n = r.n /\ c.from = 0 /\ d.r = r /\ d.n = r.n /\ d.from = 0
  OBVIOUS
<1> HIDE DEF c, d
<1>18. r.use \in AutoFree => r.pa \in Nat /\ c \in Claims(mem, job) /\ WellPlaced(c)
  <2>1. r.use \in AutoFree => c \in Claims(mem, job)
    BY <1>11, <1>16
  <2> QED
    BY <1>1, <1>17, <2>1 DEF Kept, WellPlaced
<1>19. Kept(Claims(mem', job'), mem'.used) /\ NothingLost(mem, job, mem', job')
  <2>1. CASE r.use \in AutoFree
    <3>1. Claims(mem', job') = (Claims(mem, job) \ {c}) \cup {d} /\ c \in Claims(mem, job)
      BY <1>15, <1>16, <1>18, <2>1
    <3>2. WellPlaced(d) /\ Area(d) = Area(c) /\ Extent(d) = Extent(c)
      BY <1>3, <1>17, <1>18, <2>1 DEF WellPlaced, Area, Extent
    <3> HIDE DEF WellPlaced, Area, Extent
    <3>3. Traded(Claims(mem, job), mem.used, c, d, {}, {}, Claims(mem', job'), mem'.used)
      BY <1>5, <3>1, <3>2 DEF Traded, Fresh
    <3> QED
      BY <1>1, <3>3, Trade DEF NothingLost
  <2>2. CASE r.use \notin AutoFree
    <3>1. Claims(mem', job') = Claims(mem, job) /\ mem'.used = mem.used
      BY <1>5, <1>15, <1>16, <2>2
    <3> QED
      BY <1>1, <3>1 DEF NothingLost
  <2> QED
    BY <2>1, <2>2
<1>20. Proper(X)
  <2>1. 0 < r.n
    BY <1>1, <1>2, <1>3 DEF Sane, BuffersOnce
  <2>2. X.pc = "free" => r.use \in {"fdc", "sb16"} /\ r.pa \in Nat
    BY <1>2, <1>4, <1>7, <1>18
  <2> QED
    BY <1>2, <1>3, <1>4, <1>7, <2>1, <2>2 DEF Proper
<1>21. Sane(mem', job')
  <2>1. X.r \in mem.regs[KERNEL] /\ X.r.use \in Buffers
    BY <1>2, <1>3, <1>7
  <2>2. \A q \in KThreads : Unlinks(job[q]) => job[q].r # X.r
    BY <1>2, <1>7
  <2> QED
    BY <1>1, <1>5, <1>6, <1>7, <1>20, <2>1, <2>2, SaneUnmaps
<1>22. job' \in Jobs
  BY <1>1, <1>6, <1>7, JobsIs
<1>23. Inv(mem', job')
  BY <1>1, <1>5, <1>19, <1>21, <1>22 DEF Inv, Types
<1> QED
  BY <1>19, <1>23, StepOut

LEMMA UnmapUnlink ==
  ASSUME IInv, ~clash', NEW k \in KThreads, unmap_unlink(k)
  PROVE  IInv' /\ LeakStep
<1> DEFINE r == job[k].r
           rs == [mem.regs EXCEPT ![KERNEL] = @ \ {r}]
<1>0. Running(k, "unlink") /\ "unlink" # "idle"
  BY DEF unmap_unlink
<1>1. /\ mem \in MemRec /\ job \in Jobs /\ mem.halt = "no" /\ Kept(Claims(mem, job), mem.used)
      /\ job[k] \in JobRec /\ job[k].pc = "unlink" /\ Proper(job[k]) /\ Sane(mem, job)
      /\ IsFiniteSet(mem.regs[KERNEL])
  BY <1>0, RunningIs
<1>2. ~Filling(k, KERNEL) /\ \A q \in KThreads \ {k} : ~Unlinks(job[q])
  BY DEF unmap_unlink, Unlinks
<1>3. mem' = [mem EXCEPT !.regs = rs] /\ job' = Turned(job, k, Idle)
  <2>1. Entries(KERNEL, r) = {r}
    BY DEF Entries, IInv
  <2> QED
    BY <1>1, <2>1 DEF unmap_unlink, Leave, Turned, MemRec
<1>4. KERNEL \in Procs /\ KERNEL \notin Users /\ Users \subseteq Procs
      /\ mem.regs \in [Procs -> SUBSET RegionType] /\ r.use \in Buffers
  BY <1>1, KernelIsProc, MemFields DEF Proper, Unlinks
<1>5. rs \in [Procs -> SUBSET RegionType] /\ rs[KERNEL] = mem.regs[KERNEL] \ {r}
      /\ \A p \in Procs \ {KERNEL} : rs[p] = mem.regs[p]
  BY <1>4
<1> HIDE DEF rs, r
<1>6. mem' \in MemRec /\ mem'.used = mem.used /\ mem'.halt = "no" /\ mem'.regs = rs
  <2>1. mem' \in MemRec
    BY <1>1, <1>3, <1>5, MemIs, MemFields
  <2> QED
    BY <1>1, <1>3, <2>1 DEF MemRec
<1>7. job'[k] = Idle /\ \A q \in KThreads \ {k} : job'[q] = job[q] /\ ~Unlinks(job[q])
  BY <1>1, <1>2, <1>3 DEF Turned, Jobs
<1>8. UnlinkingIn(job) = {r} /\ UnlinkingIn(job') = {}
  <2>1. \A x : x \in UnlinkingIn(job) <=> x = r
    BY <1>1, <1>7 DEF UnlinkingIn, Unlinks, r
  <2>2. \A x : x \notin UnlinkingIn(job')
    BY <1>7, IdleIs DEF UnlinkingIn, Unlinks
  <2> QED
    BY <2>1, <2>2
<1>9. SameLive(mem, job, mem', job')
  BY <1>5, <1>6, <1>8 DEF SameLive, LiveIn
<1>10. ClaimsTurned(mem, job, mem', job', k, Idle)
  BY <1>1, <1>3, <1>9, JobChange
<1>11. ThreadClaim(k, job[k]) = {} /\ ThreadClaim(k, Idle) = {}
  BY <1>1, IdleIs DEF ThreadClaim
<1>12. Claims(mem', job') = Claims(mem, job)
  BY <1>10, <1>11 DEF ClaimsTurned
<1>13. Kept(Claims(mem', job'), mem'.used) /\ NothingLost(mem, job, mem', job')
  BY <1>1, <1>6, <1>12 DEF NothingLost
<1>14. \A q \in KThreads : job'[q].pc # "idle" => q # k /\ job'[q] = job[q] /\ ~Unlinks(job[q])
  BY <1>7, IdleIs
<1>15. BuffersOnce(mem', job')
  BY <1>1, <1>5, <1>6, <1>14 DEF Sane, BuffersOnce
<1>16. Loading(mem', job')
  BY <1>1, <1>4, <1>5, <1>6, <1>14 DEF Sane, Loading
<1>17. \E x \in mem'.regs[KERNEL] : x.use \notin Buffers
  BY <1>1, <1>4, <1>5, <1>6 DEF Sane
<1>18. Sane(mem', job')
  BY <1>1, <1>14, <1>15, <1>16, <1>17 DEF Sane
<1>19. job' \in Jobs /\ IsFiniteSet(mem'.regs[KERNEL])
  <2>1. job' \in Jobs
    BY <1>1, <1>3, IdleIs, JobsIs
  <2> QED
    BY <1>1, <1>5, <1>6, <2>1, FS_RemoveElement
<1>20. Inv(mem', job')
  BY <1>6, <1>13, <1>18, <1>19 DEF Inv, Types
<1> QED
  BY <1>13, <1>20, StepOut

-----------------------------------------------------------------------------
(* The invariant holds and blocks are lost only as LeakCause says. *)

LEMMA StepInv ==
  ASSUME IInv, ~clash', [Next]_vars
  PROVE  IInv' /\ LeakStep
<1>1. ASSUME NEW k \in KThreads, sched_create_thread(k) PROVE IInv' /\ LeakStep
  BY <1>1, CreateThread
<1>2. ASSUME NEW k \in KThreads, vmm_create_heap(k) PROVE IInv' /\ LeakStep
  BY <1>2, CreateHeap
<1>3. ASSUME NEW k \in KThreads, driver_dma(k) PROVE IInv' /\ LeakStep
  BY <1>3, DriverDma
<1>4. ASSUME NEW k \in KThreads, driver_lfb(k) PROVE IInv' /\ LeakStep
  BY <1>4, DriverLfb
<1>5. ASSUME NEW k \in KThreads, elf_load_from_memory(k) PROVE IInv' /\ LeakStep
  BY <1>5, ElfLoad
<1>6. ASSUME NEW k \in KThreads, alloc_find(k) PROVE IInv' /\ LeakStep
  BY <1>6, AllocFind
<1>7. ASSUME NEW k \in KThreads, alloc_test(k) PROVE IInv' /\ LeakStep
  BY <1>7, AllocTest
<1>8. ASSUME NEW k \in KThreads, alloc_set(k) PROVE IInv' /\ LeakStep
  BY <1>8, AllocSet
<1>9. ASSUME NEW k \in KThreads, alloc_limit(k) PROVE IInv' /\ LeakStep
  BY <1>9, AllocLimit
<1>10. ASSUME NEW k \in KThreads, free_block(k), UNCHANGED clash PROVE IInv' /\ LeakStep
  BY <1>10, FreeBlock
<1>11. ASSUME NEW k \in KThreads, map_test(k) PROVE IInv' /\ LeakStep
  BY <1>11, MapTest
<1>12. ASSUME NEW k \in KThreads, map_fill(k) PROVE IInv' /\ LeakStep
  BY <1>12, MapFill
<1>13. ASSUME NEW k \in KThreads, map_count(k) PROVE IInv' /\ LeakStep
  BY <1>13, MapCount
<1>14. ASSUME NEW k \in KThreads, unmap_pages(k) PROVE IInv' /\ LeakStep
  BY <1>14, UnmapPages
<1>15. ASSUME NEW k \in KThreads, unmap_unlink(k) PROVE IInv' /\ LeakStep
  BY <1>15, UnmapUnlink
<1>16. ASSUME UNCHANGED vars PROVE IInv' /\ LeakStep
  <2>1. mem' = mem /\ job' = job
    BY <1>16 DEF vars
  <2>2. Inv(mem', job') \/ mem.halt = "overlap"
    BY <2>1 DEF IInv, Inv
  <2>3. NothingLost(mem, job, mem', job')
    BY <2>1 DEF NothingLost
  <2>4. CASE Inv(mem', job')
    BY <2>3, <2>4, StepOut
  <2>5. CASE mem.halt = "overlap"
    <3>1. IInv'
      BY <2>1 DEF IInv, Types, OverlapPanicCause, Claims, LiveIn, Sane
    <3> QED
      BY <2>1, <2>5, <3>1 DEF LeakStep
  <2> QED
    BY <2>2, <2>4, <2>5
<1> QED
  BY <1>1, <1>2, <1>3, <1>4, <1>5, <1>6, <1>7, <1>8, <1>9, <1>10, <1>11, <1>12, <1>13, <1>14, <1>15, <1>16 DEF Next, Step, Alone

LEMMA ClashStays ==
  ASSUME clash, [Next]_vars
  PROVE  clash'
<1>1. ASSUME NEW k \in KThreads, Step(k) PROVE clash'
  BY <1>1 DEF Step, sched_create_thread, elf_load_from_memory, alloc_set, map_fill, map_count, unmap_unlink
<1>2. ASSUME UNCHANGED vars PROVE clash'
  BY <1>2 DEF vars
<1> QED
  BY <1>1, <1>2 DEF Next

LEMMA Invariance == Spec => [](clash \/ IInv)
<1>1. Init => clash \/ IInv
  BY InitInv
<1>2. (clash \/ IInv) /\ [Next]_vars => (clash \/ IInv)'
  BY ClashStays, StepInv
<1> QED
  BY <1>1, <1>2, PTL DEF Spec

-----------------------------------------------------------------------------
(* What the invariant means *)

(* The holder of a claim's blocks *)
HolderOf(c) == Holder(IF c.kind = "region" THEN c.of ELSE job[c.of].p, c.r, c.from, c.n)

LEMMA HolderIs ==
  /\ \A c \in Claims(mem, job) : HolderOf(c) \in Holders
  /\ \A h \in Holders : \E c \in Claims(mem, job) : h = HolderOf(c)
  /\ \A c : HolderOf(c).pa = c.r.pa /\ HolderOf(c).from = c.from /\ HolderOf(c).to = c.n
<1>1. \A p \in Procs : LiveIn(mem, job, p) = Live(p)
  BY DEF UnlinkingIn, Unlinking, LiveIn, Live
<1>2. \A c : HolderOf(c).pa = c.r.pa /\ HolderOf(c).from = c.from /\ HolderOf(c).to = c.n
  BY DEF HolderOf, Holder
<1> DEFINE OfRegions ==
             UNION {{Holder(p, r, 0, r.n) : r \in {x \in Live(p) : x.use \in AutoFree \cup {"heap"}}} : p \in Procs}
           Allocates(k) == /\ job[k].pc \in {"test", "set", "map", "fill", "count", "free", "undo"}
                           /\ job[k].r.use \notin {"lfb", "kernel"}
           from(k) == IF job[k].pc \in {"free", "undo"} THEN job[k].i ELSE 0
           to(k) == IF job[k].pc \in {"test", "set"} THEN job[k].i ELSE job[k].r.n
           OfThreads == {Holder(job[k].p, job[k].r, from(k), to(k)) : k \in {q \in KThreads : Allocates(q)}}
           claim(k) == [kind |-> "thread", of |-> k, r |-> job[k].r, n |-> to(k), from |-> from(k)]
<1>3. Holders = OfRegions \cup OfThreads
  BY DEF Holders
<1>4. \A k \in KThreads : /\ Allocates(k) => ThreadClaim(k, job[k]) = {claim(k)}
                          /\ ~Allocates(k) => ThreadClaim(k, job[k]) = {}
  BY DEF ThreadClaim
<1>5. \A k : HolderOf(claim(k)) = Holder(job[k].p, job[k].r, from(k), to(k))
  BY DEF HolderOf
<1> HIDE DEF Allocates, from, to, claim
<1>6. ASSUME NEW k \in KThreads, NEW c \in ThreadClaim(k, job[k])
      PROVE  HolderOf(c) \in OfThreads
  <2>1. Allocates(k) /\ c = claim(k)
    BY <1>4
  <2> HIDE DEF HolderOf
  <2> QED
    BY <1>5, <2>1
<1>7. ASSUME NEW p \in Procs, NEW r \in Live(p), NEW c \in RegionClaim(p, r)
      PROVE  HolderOf(c) \in OfRegions
  <2>1. r.use \in AutoFree \cup {"heap"} /\ c = [kind |-> "region", of |-> p, r |-> r, n |-> r.n, from |-> 0]
    BY DEF RegionClaim, Owned
  <2>2. HolderOf(c) = Holder(p, r, 0, r.n)
    BY <2>1 DEF HolderOf
  <2> QED
    BY <2>1, <2>2
<1>8. ASSUME NEW h \in OfThreads PROVE \E c \in Claims(mem, job) : h = HolderOf(c)
  <2>1. PICK k \in KThreads : Allocates(k) /\ h = Holder(job[k].p, job[k].r, from(k), to(k))
    OBVIOUS
  <2>2. claim(k) \in ThreadClaim(k, job[k]) /\ h = HolderOf(claim(k))
    BY <1>4, <1>5, <2>1
  <2> HIDE DEF ThreadClaim
  <2>3. claim(k) \in Claims(mem, job)
    BY <2>2, ClaimIs
  <2> QED
    BY <2>2, <2>3
<1>9. ASSUME NEW h \in OfRegions PROVE \E c \in Claims(mem, job) : h = HolderOf(c)
  <2>0. PICK p \in Procs : \E r \in Live(p) : r.use \in AutoFree \cup {"heap"} /\ h = Holder(p, r, 0, r.n)
    OBVIOUS
  <2>1. PICK r \in Live(p) : r.use \in AutoFree \cup {"heap"} /\ h = Holder(p, r, 0, r.n)
    BY <2>0
  <2> DEFINE c == [kind |-> "region", of |-> p, r |-> r, n |-> r.n, from |-> 0]
  <2>2. c \in RegionClaim(p, r)
    BY <2>1 DEF RegionClaim, Owned
  <2>3. HolderOf(c) = h
    BY <2>1 DEF HolderOf
  <2> HIDE DEF c, RegionClaim
  <2>4. c \in Claims(mem, job)
    BY <1>1, <2>2, ClaimIs
  <2> QED
    BY <2>3, <2>4
<1> HIDE DEF OfRegions, OfThreads
<1>10. \A c \in Claims(mem, job) : HolderOf(c) \in Holders
  <2> SUFFICES ASSUME NEW c \in Claims(mem, job) PROVE HolderOf(c) \in Holders
    OBVIOUS
  <2>1. \/ \E k \in KThreads : c \in ThreadClaim(k, job[k])
        \/ \E p \in Procs : \E r \in LiveIn(mem, job, p) : c \in RegionClaim(p, r)
    BY ClaimIs
  <2> HIDE DEF HolderOf, ThreadClaim, RegionClaim
  <2> QED
    BY <1>1, <1>3, <1>6, <1>7, <2>1
<1> HIDE DEF HolderOf
<1> QED
  BY <1>2, <1>3, <1>8, <1>9, <1>10

(* The specification counts the lost blocks as the proof does. *)
LEMMA LostIs == Held = Cover(Claims(mem, job)) /\ Lost = LostNow
<1>1. \A h \in Holders : \E c \in Claims(mem, job) : Run(h.pa + h.from, h.to - h.from) = Area(c)
  BY HolderIs DEF Area
<1>2. \A c \in Claims(mem, job) : \E h \in Holders : Run(h.pa + h.from, h.to - h.from) = Area(c)
  BY HolderIs DEF Area
<1>3. Held = Cover(Claims(mem, job))
  BY <1>1, <1>2 DEF Held, Cover
<1> QED
  BY <1>3 DEF Lost, LostNow, LostIn

(* The first block of a word that a run from a word's start on reaches is   *)
(* in the run.                                                              *)
LEMMA WordHead ==
  ASSUME NEW pa \in Nat, (pa % W) = 0, NEW n \in Nat, NEW b \in Run(pa, n)
  PROVE  b \in Nat /\ W * (b \div W) \in Run(pa, n)
<1> DEFINE q == pa \div W
           w == b \div W
<1>0. W \in Nat \ {0}
  BY PhysAssumption
<1>1. b \in Nat /\ pa <= b /\ b <= pa + n - 1
  BY DEF Run
<1>2. q \in Nat /\ pa = W * q + (pa % W)
  BY <1>0, DivMod
<1>3. w \in Nat /\ b = W * w + (b % W) /\ (b % W) \in 0 .. W - 1
  BY <1>0, <1>1, DivMod
<1> HIDE DEF q, w
<1>4. pa = W * q /\ W * q \in Nat /\ W * w \in Nat /\ W * w <= b /\ b < W * w + W
  BY <1>0, <1>2, <1>3
<1>5. q <= w
  <2>1. CASE w < q
    <3>1. (w + 1) * W <= q * W
      BY <1>0, <1>2, <1>3, <2>1, TimesMonotone
    <3>2. (w + 1) * W = w * W + W
      BY <1>3, WordStart
    <3>3. w * W = W * w /\ q * W = W * q
      BY <1>0, <1>2, <1>3
    <3>4. W * w + W <= W * q
      BY <3>1, <3>2, <3>3
    <3> DEFINE x == W * w
               y == W * q
    <3>5. x \in Nat /\ y \in Nat /\ x + W <= y /\ y <= b /\ b < x + W
      BY <1>1, <1>4, <3>4
    <3> HIDE DEF x, y
    <3> QED
      BY <1>0, <1>1, <3>5
  <2> QED
    BY <1>2, <1>3, <2>1
<1>6. W * q <= W * w
  <2>1. q * W <= w * W
    BY <1>0, <1>2, <1>3, <1>5, TimesMonotone
  <2> QED
    BY <1>0, <1>2, <1>3, <2>1
<1> QED
  BY <1>1, <1>4, <1>6 DEF Run, w

LEMMA KeptMeansFrames == IInv => FramesKept
<1> SUFFICES ASSUME IInv PROVE FramesKept
  OBVIOUS
<1>1. Kept(Claims(mem, job), mem.used)
  BY DEF IInv
<1>2. MappedIsMarked
  BY <1>1, LostIs DEF MappedIsMarked, Kept, Cover
<1>3. \A c \in Claims(mem, job) : \A b \in Extent(c) : b \in Nat /\ W * (b \div W) \in Extent(c)
  BY <1>1, WordHead DEF Kept, Extent, WellPlaced
<1>4. \A h \in Holders : \E c \in Claims(mem, job) :
        h = HolderOf(c) /\ WordsOf(h) = {b \div W : b \in Extent(c)}
  BY HolderIs DEF WordsOf, Extent
<1>5. ASSUME NEW c \in Claims(mem, job), NEW d \in Claims(mem, job), c # d
      PROVE  {b \div W : b \in Extent(c)} \cap {b \div W : b \in Extent(d)} = {}
  <2> SUFFICES ASSUME NEW b \in Extent(c), NEW e \in Extent(d), b \div W = e \div W PROVE FALSE
    OBVIOUS
  <2>1. W * (b \div W) \in Extent(c) /\ W * (e \div W) \in Extent(d)
    BY <1>3
  <2>2. Extent(c) \cap Extent(d) = {}
    BY <1>1, <1>5 DEF Kept
  <2> HIDE DEF Extent
  <2> QED
    BY <2>1, <2>2
<1>6. ASSUME NEW c \in Claims(mem, job)
      PROVE  {b \div W : b \in Extent(c)} \cap {b \div W : b \in 0 .. Reserved - 1} = {}
  <2> SUFFICES ASSUME NEW b \in Extent(c), NEW e \in 0 .. Reserved - 1, b \div W = e \div W PROVE FALSE
    OBVIOUS
  <2>1. W * (b \div W) \in Extent(c)
    BY <1>3
  <2>2. W \in Nat \ {0} /\ e \in Nat /\ e <= Reserved - 1 /\ Reserved \in Int
    BY PhysAssumption, MemoryAssumption
  <2>3. e \div W \in Nat /\ e = W * (e \div W) + (e % W) /\ (e % W) \in 0 .. W - 1
    BY <2>2, DivMod
  <2>4. W * (e \div W) \in Nat
    BY <2>2, <2>3
  <2>5. W * (e \div W) \in 0 .. Reserved - 1
    BY <2>2, <2>3, <2>4
  <2>6. Extent(c) \cap 0 .. Reserved - 1 = {}
    BY <1>1 DEF Kept
  <2> HIDE DEF Extent
  <2> QED
    BY <2>1, <2>5, <2>6
<1>7. WordsNotShared
  BY <1>4, <1>5, <1>6 DEF WordsNotShared
<1> QED
  BY <1>2, <1>7 DEF FramesKept

-----------------------------------------------------------------------------
(* The invariant of the address spaces *)

Disjoint(r, s) == Run(r.va, r.n) \cap Run(s.va, s.n) = {}

(* One ends before the other begins. *)
Apart(r, s) == r.va + r.n <= s.va \/ s.va + s.n <= r.va

Off(r, s) == r.va = s.va \/ Apart(r, s)

HeapEnd == KBASE + KSIZE + HEAP

(* The buffers behind the kernel's last region.  A place is at the end of   *)
(* the heap or of the sound buffer, or leaves room there for the other one. *)
Slot(r, n, other) ==
  /\ r.n = n /\ HeapEnd <= r.va
  /\ r.va + n <= TEMP - DMA \/ TEMP <= r.va
  /\ \/ r.va \in {HeapEnd, TEMP}
     \/ HeapEnd + other <= r.va /\ r.va < TEMP
     \/ TEMP + other <= r.va

(* The plan of the kernel's address space *)
Placed(r) ==
  \/ r.use = "stack" /\ r.n = STACK /\ r.va + STACK <= KBASE - 1
  \/ r.use = "kernel" /\ r.n = KSIZE /\ r.va = KBASE
  \/ r.use = "heap" /\ r.n = HEAP /\ r.va = KBASE + KSIZE
  \/ r.use = "sb16" /\ r.n = DMA /\ r.va = TEMP - DMA
  \/ r.use = "fdc" /\ Slot(r, DMA, LFB)
  \/ r.use = "lfb" /\ Slot(r, LFB, DMA)

Arranged(O) ==
  /\ \A r \in O : Placed(r)
  /\ \A f, l \in O : f.use = "fdc" /\ l.use = "lfb" => Off(f, l)

(* What the kernel's address space holds or is about to hold *)
KernelJobs(J) == {J[k].r : k \in {q \in KThreads : J[q].pc # "idle" /\ J[q].p = KERNEL}}

Objects(m, J) == m.regs[KERNEL] \cup KernelJobs(J)

Fills(J, p) == {k \in KThreads : J[k].pc = "count" /\ J[k].p = p}

ApartIn(m, p) == \A r, s \in m.regs[p] : r # s => Disjoint(r, s)

(* A region that is filled and not counted yet *)
FilledIn(m, J, p) ==
  /\ \A k, l \in Fills(J, p) : k = l
  /\ \A k \in Fills(J, p) : \A r \in m.regs[p] : Disjoint(J[k].r, r)

Mapped(m, J, p) == LiveIn(m, J, p) \cup {J[k].r : k \in Fills(J, p)}

Space(m, J, p) ==
  /\ ApartIn(m, p)
  /\ m.halt = "no" => FilledIn(m, J, p) /\ m.pages[p] = UNION {PagesOf(r) : r \in Mapped(m, J, p)}

Spaces(m, J, st) ==
  /\ \A p \in Procs : (p = KERNEL => ~st) => Space(m, J, p)
  /\ m.halt = "no" /\ ~st => Arranged(Objects(m, J))

SInv == IInv /\ Spaces(mem, job, strayed)

-----------------------------------------------------------------------------
(* Places *)

LEMMA SizesAre ==
  /\ KBASE \in Nat \ {0} /\ KSIZE \in Nat \ {0} /\ STACK \in Nat \ {0} /\ HEAP \in Nat \ {0}
  /\ DMA \in Nat \ {0} /\ LFB \in Nat \ {0} /\ TEMP \in Nat /\ HeapEnd \in Nat
  /\ HeapEnd = KBASE + KSIZE + HEAP /\ HeapEnd + DMA <= TEMP
  BY MemoryAssumption DEF HeapEnd

LEMMA ApartIsDisjoint ==
  ASSUME NEW r \in RegionType, NEW s \in RegionType, Apart(r, s)
  PROVE  Disjoint(r, s)
<1>1. r.va \in Nat /\ r.n \in Nat /\ s.va \in Nat /\ s.n \in Nat
  BY DEF RegionType
<1>2. ASSUME NEW x \in Run(r.va, r.n), x \in Run(s.va, s.n) PROVE FALSE
  BY <1>1, <1>2 DEF Apart, Run
<1> QED
  BY <1>2 DEF Disjoint

LEMMA DisjointIsApart ==
  ASSUME NEW r \in RegionType, NEW s \in RegionType, 0 < r.n, 0 < s.n, Disjoint(r, s)
  PROVE  Apart(r, s)
<1>1. r.va \in Nat /\ r.n \in Nat /\ s.va \in Nat /\ s.n \in Nat
  BY DEF RegionType
<1> SUFFICES ASSUME ~Apart(r, s) PROVE FALSE
  OBVIOUS
<1>2. r.va < s.va + s.n /\ s.va < r.va + r.n
  BY <1>1 DEF Apart
<1>3. \/ r.va \in Run(r.va, r.n) /\ r.va \in Run(s.va, s.n)
      \/ s.va \in Run(r.va, r.n) /\ s.va \in Run(s.va, s.n)
  BY <1>1, <1>2 DEF Run
<1> QED
  BY <1>3 DEF Disjoint

LEMMA DisjointSwap ==
  ASSUME NEW r, NEW s, Disjoint(r, s)
  PROVE  Disjoint(s, r)
  BY DEF Disjoint

(* The kind of a placed region and where it is *)
LEMMA PlacedIs ==
  ASSUME NEW r \in RegionType, Placed(r)
  PROVE  /\ r.va \in Nat /\ r.n \in Nat \ {0}
         /\ r.use \in {"stack", "kernel", "heap", "sb16", "fdc", "lfb"}
         /\ r.va + r.n <= TEMP \/ TEMP <= r.va
         /\ r.use \in {"stack", "kernel"} => r.va < KBASE + KSIZE
<1>1. r.va \in Nat
  BY DEF RegionType
<1> QED
  BY <1>1, SizesAre DEF Placed, Slot

(* Different kinds do not meet, except perhaps the two buffers behind the   *)
(* last region.                                                             *)
LEMMA KindsApart ==
  ASSUME NEW r \in RegionType, NEW s \in RegionType, Placed(r), Placed(s), r.use # s.use,
         r.use = "fdc" /\ s.use = "lfb" => Apart(r, s),
         r.use = "lfb" /\ s.use = "fdc" => Apart(r, s)
  PROVE  Apart(r, s)
<1>1. r.va \in Nat /\ s.va \in Nat
  BY DEF RegionType
<1>2. CASE r.use = "stack" \/ s.use = "stack"
  BY <1>1, <1>2, SizesAre DEF Placed, Slot, Apart
<1>3. CASE r.use = "kernel" \/ s.use = "kernel"
  BY <1>1, <1>3, SizesAre DEF Placed, Slot, Apart
<1>4. CASE r.use = "heap" \/ s.use = "heap"
  BY <1>1, <1>4, SizesAre DEF Placed, Slot, Apart
<1>5. CASE r.use = "sb16" \/ s.use = "sb16"
  BY <1>1, <1>5, SizesAre DEF Placed, Slot, Apart
<1>6. r.use \in {"stack", "kernel", "heap", "sb16", "fdc", "lfb"}
      /\ s.use \in {"stack", "kernel", "heap", "sb16", "fdc", "lfb"}
  BY PlacedIs
<1> QED
  BY <1>2, <1>3, <1>4, <1>5, <1>6

(* The places depend on address, size and use.                              *)
Alike(r, s) == r.va = s.va /\ r.n = s.n /\ r.use = s.use

LEMMA ArrangedAlike ==
  ASSUME NEW O, NEW P, Arranged(O), \A r \in P : \E s \in O : Alike(r, s)
  PROVE  Arranged(P)
<1>1. ASSUME NEW r, NEW s, Alike(r, s), Placed(s) PROVE Placed(r)
  BY <1>1 DEF Alike, Placed, Slot
<1>2. ASSUME NEW f, NEW l, NEW f1, NEW l1, Alike(f, f1), Alike(l, l1), Off(f1, l1) PROVE Off(f, l)
  BY <1>2 DEF Alike, Off, Apart
<1>3. \A r \in P : Placed(r)
  BY <1>1 DEF Arranged
<1>4. ASSUME NEW f \in P, NEW l \in P, f.use = "fdc", l.use = "lfb" PROVE Off(f, l)
  <2>1. PICK f1 \in O : Alike(f, f1)
    OBVIOUS
  <2>2. PICK l1 \in O : Alike(l, l1)
    OBVIOUS
  <2>3. f1.use = "fdc" /\ l1.use = "lfb"
    BY <1>4, <2>1, <2>2 DEF Alike
  <2> QED
    BY <1>2, <2>1, <2>2, <2>3 DEF Arranged
<1> QED
  BY <1>3, <1>4 DEF Arranged

(* A region that passes the overlap test lies apart from all others. *)
LEMMA TestedIsApart ==
  ASSUME NEW O \in SUBSET RegionType, NEW rs \in SUBSET O, NEW r \in O, Arranged(O),
         r.use \in {"heap", "fdc", "sb16", "lfb"}, r.use # "heap" => \A s \in rs : s.use # r.use,
         ~Overlaps(rs, r.va, r.n)
  PROVE  \A s \in rs : Disjoint(r, s)
<1> SUFFICES ASSUME NEW s \in rs PROVE Apart(r, s)
  BY ApartIsDisjoint
<1>1. Placed(r) /\ Placed(s)
  BY DEF Arranged
<1>2. r.va \in Nat /\ r.n \in Nat \ {0} /\ s.va \in Nat
  BY <1>1, PlacedIs
<1>3. s.va # r.va
  BY <1>2 DEF Overlaps
<1>4. s.use # r.use
  BY <1>1, <1>3 DEF Placed
<1>5. r.use = "fdc" /\ s.use = "lfb" => Apart(r, s)
  BY <1>3 DEF Arranged, Off
<1>6. r.use = "lfb" /\ s.use = "fdc" => Apart(r, s)
  BY <1>3 DEF Arranged, Off, Apart
<1> QED
  BY <1>1, <1>4, <1>5, <1>6, KindsApart

-----------------------------------------------------------------------------
(* Looking for a place in the temporary area *)

(* Going from address to address as long as something is in the way.        *)
Going(go, nx, f) == f = [a \in Nat |-> IF a \in go THEN f[nx[a]] ELSE a]

Closed(go, nx, C) == \A c \in C : c \in go => nx[c] \in C

Reach(go, nx, a) == {b \in Nat : \A C \in SUBSET Nat : a \in C /\ Closed(go, nx, C) => b \in C}

(* Every step leads further, and none beyond top. *)
Walks(go, nx, top) ==
  /\ go \in SUBSET Nat /\ nx \in [Nat -> Nat] /\ top \in Nat
  /\ \A c \in go : c < nx[c] /\ nx[c] <= top

LEMMA ReachIs ==
  ASSUME NEW go, NEW nx, NEW top, Walks(go, nx, top), NEW a \in Nat
  PROVE  /\ a \in Reach(go, nx, a) /\ Reach(go, nx, a) \in SUBSET Nat
         /\ Closed(go, nx, Reach(go, nx, a))
         /\ \A x \in Reach(go, nx, a) : a <= x /\ (x <= top \/ x = a)
         /\ a \notin go => Reach(go, nx, a) = {a}
         /\ a \in go => Reach(go, nx, a) = {a} \cup Reach(go, nx, nx[a])
<1>0. go \in SUBSET Nat /\ nx \in [Nat -> Nat] /\ top \in Nat
      /\ \A c \in go : c < nx[c] /\ nx[c] <= top /\ nx[c] \in Nat
  BY DEF Walks
<1>1. ASSUME NEW e \in Nat, NEW C \in SUBSET Nat, e \in C, Closed(go, nx, C)
      PROVE  Reach(go, nx, e) \subseteq C
  BY <1>1 DEF Reach
<1>2. ASSUME NEW e \in Nat
      PROVE  /\ e \in Reach(go, nx, e) /\ Reach(go, nx, e) \in SUBSET Nat
             /\ Closed(go, nx, Reach(go, nx, e))
  <2>1. ASSUME NEW c \in Reach(go, nx, e), c \in go PROVE nx[c] \in Reach(go, nx, e)
    <3>1. c \in Nat /\ nx[c] \in Nat
      BY <1>0, <2>1
    <3>2. ASSUME NEW C \in SUBSET Nat, e \in C, Closed(go, nx, C) PROVE nx[c] \in C
      BY <2>1, <3>2 DEF Reach, Closed
    <3> QED
      BY <3>1, <3>2 DEF Reach
  <2> QED
    BY <2>1 DEF Reach, Closed
<1>3. \A x \in Reach(go, nx, a) : a <= x /\ (x <= top \/ x = a)
  <2> DEFINE C == {x \in Nat : a <= x /\ (x <= top \/ x = a)}
  <2>1. \A c \in C : c \in go => nx[c] \in C
    BY <1>0
  <2>2. a \in C /\ C \in SUBSET Nat /\ Closed(go, nx, C)
    BY <2>1 DEF Closed
  <2> QED
    BY <1>1, <2>2
<1>4. a \notin go => Reach(go, nx, a) = {a}
  <2> SUFFICES ASSUME a \notin go PROVE Reach(go, nx, a) = {a}
    OBVIOUS
  <2>1. Closed(go, nx, {a})
    BY DEF Closed
  <2> QED
    BY <1>1, <1>2, <2>1
<1>5. a \in go => Reach(go, nx, a) = {a} \cup Reach(go, nx, nx[a])
  <2> SUFFICES ASSUME a \in go PROVE Reach(go, nx, a) = {a} \cup Reach(go, nx, nx[a])
    OBVIOUS
  <2> DEFINE C == {a} \cup Reach(go, nx, nx[a])
  <2>1. nx[a] \in Nat
    BY <1>0
  <2>2. C \in SUBSET Nat /\ nx[a] \in C /\ Closed(go, nx, C)
    BY <1>2, <2>1 DEF Closed
  <2>3. Reach(go, nx, a) \subseteq C
    BY <1>1, <2>2
  <2>4. nx[a] \in Reach(go, nx, a)
    BY <1>2 DEF Closed
  <2>5. Reach(go, nx, nx[a]) \subseteq Reach(go, nx, a)
    BY <1>1, <1>2, <2>1, <2>4
  <2> QED
    BY <1>2, <2>3, <2>5
<1> QED
  BY <1>2, <1>3, <1>4, <1>5

(* The place where it ends *)
End(go, nx, a) == Max(Reach(go, nx, a))

LEMMA EndOfWalk ==
  ASSUME NEW go, NEW nx, NEW top, Walks(go, nx, top), NEW a \in Nat
  PROVE  /\ End(go, nx, a) \in Reach(go, nx, a) /\ End(go, nx, a) \notin go
         /\ a \notin go => End(go, nx, a) = a
         /\ a \in go => End(go, nx, a) = End(go, nx, nx[a])
<1>0. go \in SUBSET Nat /\ nx \in [Nat -> Nat] /\ top \in Nat
      /\ \A c \in go : c < nx[c] /\ nx[c] <= top /\ nx[c] \in Nat
  BY DEF Walks
<1>1. ASSUME NEW e \in Nat
      PROVE  /\ End(go, nx, e) \in Nat /\ End(go, nx, e) \in Reach(go, nx, e)
             /\ \A y \in Reach(go, nx, e) : y <= End(go, nx, e)
  <2> DEFINE T == Reach(go, nx, e)
             n == top + e
  <2>1. n \in Nat /\ T # {}
    BY <1>0, ReachIs
  <2>2. T \in SUBSET Nat /\ \A x \in T : e <= x /\ (x <= top \/ x = e)
    BY ReachIs
  <2> HIDE DEF T
  <2>3. T \in SUBSET (0 .. n)
    BY <1>0, <2>1, <2>2
  <2> HIDE DEF n
  <2>4. Max(T) \in T /\ \A y \in T : Max(T) >= y
    BY <2>1, <2>3, MaxIs
  <2> QED
    BY <2>2, <2>4 DEF End, T
<1>2. End(go, nx, a) \notin go
  <2> SUFFICES ASSUME End(go, nx, a) \in go PROVE FALSE
    OBVIOUS
  <2>1. nx[End(go, nx, a)] \in Reach(go, nx, a)
    BY <1>1, ReachIs DEF Closed
  <2> QED
    BY <1>0, <1>1, <2>1
<1>3. a \notin go => End(go, nx, a) = a
  BY <1>1, ReachIs
<1>4. a \in go => End(go, nx, a) = End(go, nx, nx[a])
  <2> SUFFICES ASSUME a \in go PROVE End(go, nx, a) = End(go, nx, nx[a])
    OBVIOUS
  <2>1. nx[a] \in Nat /\ a < nx[a]
    BY <1>0
  <2>2. Reach(go, nx, a) = {a} \cup Reach(go, nx, nx[a]) /\ nx[a] \in Reach(go, nx, nx[a])
    BY <2>1, ReachIs
  <2>3. /\ End(go, nx, a) \in Reach(go, nx, a) /\ End(go, nx, a) \in Nat
        /\ \A y \in Reach(go, nx, a) : y <= End(go, nx, a)
    BY <1>1
  <2>4. /\ End(go, nx, nx[a]) \in Reach(go, nx, nx[a]) /\ End(go, nx, nx[a]) \in Nat
        /\ \A y \in Reach(go, nx, nx[a]) : y <= End(go, nx, nx[a])
    BY <1>1, <2>1
  <2>5. End(go, nx, a) # a
    BY <2>1, <2>2, <2>3
  <2>6. End(go, nx, a) <= End(go, nx, nx[a]) /\ End(go, nx, nx[a]) <= End(go, nx, a)
    BY <2>2, <2>3, <2>4, <2>5
  <2> QED
    BY <2>3, <2>4, <2>6
<1> QED
  BY <1>1, <1>2, <1>3, <1>4

(* The function exists and what it returns is where the walk ends. *)
LEMMA GoingEnds ==
  ASSUME NEW go, NEW nx, NEW top, Walks(go, nx, top), NEW t \in Nat
  PROVE  /\ \E f : Going(go, nx, f)
         /\ \A f : Going(go, nx, f) =>
              /\ f[t] \in Nat /\ f[t] \notin go
              /\ f[t] = t \/ \E c \in go : f[t] = nx[c]
<1>0. go \in SUBSET Nat /\ nx \in [Nat -> Nat] /\ \A c \in go : nx[c] \in Nat
  BY DEF Walks
<1>1. \E f : Going(go, nx, f)
  <2> DEFINE g == [a \in Nat |-> End(go, nx, a)]
  <2>1. \A a \in Nat : g[a] = IF a \in go THEN g[nx[a]] ELSE a
    <3> TAKE a \in Nat
    <3>1. CASE a \in go
      BY <1>0, <3>1, EndOfWalk
    <3>2. CASE a \notin go
      BY <3>2, EndOfWalk
    <3> QED
      BY <3>1, <3>2
  <2>2. g = [a \in Nat |-> g[a]]
    OBVIOUS
  <2> HIDE DEF g
  <2>3. g = [a \in Nat |-> IF a \in go THEN g[nx[a]] ELSE a]
    BY <2>1, <2>2
  <2> QED
    BY <2>3 DEF Going
<1>2. ASSUME NEW f, Going(go, nx, f)
      PROVE  /\ f[t] \in Nat /\ f[t] \notin go
             /\ f[t] = t \/ \E c \in go : f[t] = nx[c]
  <2> DEFINE b == End(go, nx, t)
             C == {c \in Nat : f[c] = f[t]}
             D == {t} \cup {nx[c] : c \in go}
  <2>1. \A a \in Nat : f[a] = IF a \in go THEN f[nx[a]] ELSE a
    BY <1>2 DEF Going
  <2>2. b \in Reach(go, nx, t) /\ b \notin go
    BY EndOfWalk
  <2>3. C \in SUBSET Nat /\ t \in C /\ Closed(go, nx, C)
    BY <1>0, <2>1 DEF Closed
  <2>4. D \in SUBSET Nat /\ t \in D /\ Closed(go, nx, D)
    BY <1>0 DEF Closed
  <2> HIDE DEF b, C, D
  <2>5. b \in C /\ b \in D /\ b \in Nat
    BY <2>2, <2>3, <2>4 DEF Reach
  <2>6. f[t] = b
    BY <2>1, <2>2, <2>5 DEF C
  <2> QED
    BY <2>2, <2>5, <2>6 DEF D
<1> QED
  BY <1>1, <1>2

(* The ends of finitely many regions have a bound. *)
LEMMA EndsBounded ==
  ASSUME NEW rs \in SUBSET RegionType, IsFiniteSet(rs)
  PROVE  \E n \in Nat : \A r \in rs : r.va + r.n <= n
<1> DEFINE ends == {r.va + r.n : r \in rs}
           f == [r \in rs |-> r.va + r.n]
<1>1. \A r \in rs : r.va + r.n \in Nat
  BY DEF RegionType
<1>2. f \in Surjection(rs, ends)
  BY DEF Surjection
<1>3. ends \in SUBSET Nat /\ \A r \in rs : r.va + r.n \in ends
  BY <1>1
<1> HIDE DEF f, ends
<1>4. IsFiniteSet(ends)
  BY <1>2, FS_Surjection
<1>5. PICK n \in Nat : ends \subseteq 0 .. n
  BY <1>3, <1>4, Bounded
<1>6. ASSUME NEW e \in ends PROVE e <= n
  BY <1>5
<1> QED
  BY <1>3, <1>6

(* The temporary place begins at TEMP or where a region ends, and the       *)
(* overlap test finds nothing there.                                        *)
LEMMA TempPlaceIs ==
  ASSUME NEW rs \in SUBSET RegionType, IsFiniteSet(rs), \A r \in rs : 0 < r.n, NEW n \in Nat
  PROVE  LET b == TempPlace(rs, n)
         IN /\ b \in Nat
            /\ b = TEMP \/ \E r \in rs : b = r.va + r.n
            /\ \A r \in rs : ~Overlaps({r}, b, n)
<1> DEFINE inWay(a) == {r \in rs : Overlaps({r}, a, n)}
           pick(a) == CHOOSE x \in inWay(a) : TRUE
           go == {a \in Nat : inWay(a) # {}}
           nx == [a \in Nat |-> IF a \in go THEN pick(a).va + pick(a).n ELSE 0]
           F(f) == [a \in Nat |-> IF inWay(a) = {} THEN a
                                  ELSE LET r == CHOOSE x \in inWay(a) : TRUE IN f[r.va + r.n]]
           from == CHOOSE f : f = F(f)
<1>1. \A r \in rs : r.va \in Nat /\ r.n \in Nat /\ r.va + r.n \in Nat
  BY DEF RegionType
<1>2. PICK top \in Nat : \A r \in rs : r.va + r.n <= top
  BY EndsBounded
<1>3. \A a \in Nat, r \in rs : Overlaps({r}, a, n) => a < r.va + r.n
  BY <1>1 DEF Overlaps
<1>4. \A a \in go : pick(a) \in inWay(a)
  OBVIOUS
<1>5. \A a \in go : a \in Nat /\ pick(a) \in rs /\ Overlaps({pick(a)}, a, n)
  BY <1>4
<1> HIDE DEF inWay, pick
<1>6. \A a \in go : nx[a] = pick(a).va + pick(a).n
  OBVIOUS
<1>7. nx \in [Nat -> Nat]
  BY <1>1, <1>5
<1>8. go \in SUBSET Nat
  OBVIOUS
<1>9. \A f : F(f) = [a \in Nat |-> IF a \in go THEN f[nx[a]] ELSE a]
  BY <1>6 DEF pick
<1>10. TempPlace(rs, n) = from[TEMP]
  BY DEF TempPlace, inWay
<1>11. \A a \in Nat \ go : \A r \in rs : ~Overlaps({r}, a, n)
  BY DEF inWay
<1> HIDE DEF go, nx, F
<1>12. Walks(go, nx, top)
  BY <1>1, <1>2, <1>3, <1>5, <1>6, <1>7, <1>8 DEF Walks
<1>13. \A f : f = F(f) <=> Going(go, nx, f)
  BY <1>9 DEF Going
<1>14. TEMP \in Nat
  BY SizesAre
<1>15. \E f : f = F(f)
  BY <1>12, <1>13, <1>14, GoingEnds
<1>16. from = F(from)
  BY <1>15, Zenon
<1> HIDE DEF from
<1>17. /\ from[TEMP] \in Nat /\ from[TEMP] \notin go
       /\ from[TEMP] = TEMP \/ \E c \in go : from[TEMP] = nx[c]
  BY <1>12, <1>13, <1>14, <1>16, GoingEnds
<1>18. from[TEMP] = TEMP \/ \E r \in rs : from[TEMP] = r.va + r.n
  BY <1>5, <1>6, <1>17
<1> QED
  BY <1>10, <1>11, <1>17, <1>18

(* In the kernel's address space, what is mapped there meets nothing. *)
LEMMA TempPlaceApart ==
  ASSUME NEW rs \in SUBSET RegionType, IsFiniteSet(rs), \A r \in rs : Placed(r),
         \A r, s \in rs : r # s => Disjoint(r, s), NEW n \in Nat, NEW r \in rs
  PROVE  Run(TempPlace(rs, n), n) \cap Run(r.va, r.n) = {}
<1> DEFINE b == TempPlace(rs, n)
<1>1. \A s \in rs : /\ s.va \in Nat /\ s.n \in Nat \ {0} /\ 0 < s.n
                    /\ s.va + s.n <= TEMP \/ TEMP <= s.va
  BY PlacedIs
<1>2. /\ b \in Nat
      /\ b = TEMP \/ \E s \in rs : b = s.va + s.n
      /\ ~Overlaps({r}, b, n)
  BY <1>1, TempPlaceIs
<1> HIDE DEF b
<1>3. /\ ~(r.va >= b /\ r.va < b + n)
      /\ ~(r.va + r.n > b /\ r.va + r.n <= b + n)
  BY <1>2 DEF Overlaps
<1>4. ~(r.va < b /\ b < r.va + r.n)
  <2>1. CASE b = TEMP
    BY <1>1, <2>1, SizesAre
  <2>2. ASSUME NEW s \in rs, b = s.va + s.n, r.va < b, b < r.va + r.n PROVE FALSE
    <3>1. r # s
      BY <1>1, <2>2
    <3>2. Apart(r, s)
      BY <1>1, <3>1, DisjointIsApart
    <3> QED
      BY <1>1, <2>2, <3>2 DEF Apart
  <2> QED
    BY <1>2, <2>1, <2>2
<1>5. ASSUME NEW x \in Run(b, n), x \in Run(r.va, r.n) PROVE FALSE
  BY <1>1, <1>2, <1>3, <1>4, <1>5 DEF Run
<1> QED
  BY <1>5 DEF b

-----------------------------------------------------------------------------
(* Regions and page tables *)

(* The entries of regions S *)
PageEntries(S) == UNION {PagesOf(r) : r \in S}

LEMMA EntryIs ==
  ASSUME NEW r \in RegionType, NEW e \in PagesOf(r)
  PROVE  e[1] \in Run(r.va, r.n)
<1>1. r.va \in Nat /\ r.n \in Nat
  BY DEF RegionType
<1> QED
  BY <1>1 DEF PagesOf, Run

LEMMA PutMatches ==
  ASSUME NEW S \in SUBSET RegionType, NEW r, \A s \in S : Disjoint(s, r)
  PROVE  {e \in PageEntries(S) : e[1] \notin Run(r.va, r.n)} \cup PagesOf(r) = PageEntries(S \cup {r})
<1>1. ASSUME NEW s \in S, NEW e \in PagesOf(s) PROVE e[1] \notin Run(r.va, r.n)
  BY <1>1, EntryIs DEF Disjoint
<1>2. \A e \in PageEntries(S) : e[1] \notin Run(r.va, r.n)
  <2> HIDE DEF PagesOf
  <2> QED
    BY <1>1 DEF PageEntries
<1> HIDE DEF PagesOf
<1>3. PageEntries(S \cup {r}) = PageEntries(S) \cup PagesOf(r)
  BY DEF PageEntries
<1> QED
  BY <1>2, <1>3

(* What is dropped is all of some regions and nothing of the others. *)
LEMMA DropMatches ==
  ASSUME NEW S \in SUBSET RegionType, NEW S1 \in SUBSET S, NEW va, NEW n,
         \A s \in S1 : Run(va, n) \cap Run(s.va, s.n) = {},
         \A s \in S \ S1 : Run(s.va, s.n) \subseteq Run(va, n)
  PROVE  {e \in PageEntries(S) : e[1] \notin Run(va, n)} = PageEntries(S1)
<1>1. ASSUME NEW s \in S1, NEW e \in PagesOf(s) PROVE e[1] \notin Run(va, n)
  BY <1>1, EntryIs
<1>2. ASSUME NEW s \in S \ S1, NEW e \in PagesOf(s) PROVE e[1] \in Run(va, n)
  BY <1>2, EntryIs
<1> HIDE DEF PagesOf
<1>3. \A e : e \in PageEntries(S) <=> \E s \in S : e \in PagesOf(s)
  BY DEF PageEntries
<1>4. \A e : e \in PageEntries(S1) <=> \E s \in S1 : e \in PagesOf(s)
  BY DEF PageEntries
<1>5. ASSUME NEW e PROVE (e \in PageEntries(S) /\ e[1] \notin Run(va, n)) <=> e \in PageEntries(S1)
  BY <1>1, <1>2, <1>3, <1>4
<1> QED
  BY <1>5

(* A stack is placed as it should be and meets nothing. *)
LEMMA StackApart ==
  ASSUME NEW rs \in SUBSET RegionType, NEW b, StackRegion(rs, b) \in RegionType
  PROVE  /\ Placed(StackRegion(rs, b))
         /\ \A s \in rs : Disjoint(s, StackRegion(rs, b))
<1> DEFINE r == StackRegion(rs, b)
<1>1. r.va = StackPlace(rs) /\ r.n = STACK /\ r.use = "stack"
  BY DEF StackRegion
<1> HIDE DEF r
<1>2. r.va + STACK + 1 <= KBASE - 1 /\ \A s \in rs : r.va + STACK + 1 <= s.va
  BY <1>1, StackBelow
<1>3. r.va \in Nat /\ r \in RegionType /\ \A s \in rs : s.va \in Nat
  BY DEF r, RegionType
<1>4. Placed(r)
  BY <1>1, <1>2, <1>3, SizesAre DEF Placed
<1>5. \A s \in rs : Apart(s, r)
  BY <1>1, <1>2, <1>3, SizesAre DEF Apart
<1> QED
  BY <1>3, <1>4, <1>5, ApartIsDisjoint DEF r

(* Regions, pages and fillings of a process do not change. *)
LEMMA SpaceSame ==
  ASSUME NEW m, NEW J, NEW m1, NEW J1, NEW p, Space(m, J, p),
         m1.halt = "no" => m.halt = "no",
         m1.regs[p] = m.regs[p],
         m1.halt = "no" => /\ m1.pages[p] = m.pages[p] /\ LiveIn(m1, J1, p) = LiveIn(m, J, p)
                           /\ Fills(J1, p) = Fills(J, p)
                           /\ \A k \in Fills(J, p) : J1[k].r = J[k].r
  PROVE  Space(m1, J1, p)
<1>1. ApartIn(m1, p)
  BY DEF Space, ApartIn
<1>2. ASSUME m1.halt = "no" PROVE FilledIn(m1, J1, p)
  BY <1>2 DEF Space, FilledIn
<1>3. ASSUME m1.halt = "no" PROVE Mapped(m1, J1, p) = Mapped(m, J, p)
  <2> HIDE DEF LiveIn, Fills
  <2> QED
    BY <1>3 DEF Mapped
<1> QED
  BY <1>1, <1>2, <1>3 DEF Space

(* What Mapped means if nothing is being filled *)
LEMMA MappedIs ==
  ASSUME NEW m \in MemRec, NEW J \in Jobs, NEW p \in Procs
  PROVE  /\ Mapped(m, J, p) \in SUBSET RegionType /\ LiveIn(m, J, p) \subseteq m.regs[p]
         /\ Fills(J, p) = {} => Mapped(m, J, p) = LiveIn(m, J, p)
<1>1. m.regs[p] \in SUBSET RegionType
  BY MemFields
<1>2. LiveIn(m, J, p) \subseteq m.regs[p]
  BY DEF LiveIn
<1>3. \A k \in Fills(J, p) : J[k].r \in RegionType
  <2>1. \A k \in KThreads : J[k] \in {Idle} \cup JobRec
    BY DEF Jobs
  <2>2. \A k \in KThreads : J[k].pc = "count" => J[k] \in JobRec
    BY <2>1, JobCases
  <2> QED
    BY <2>2 DEF Fills, JobRec
<1> HIDE DEF LiveIn, Fills
<1> QED
  BY <1>1, <1>2, <1>3 DEF Mapped

(* A process gets a stack. *)
LEMMA StackSpace ==
  ASSUME NEW m \in MemRec, NEW J \in Jobs, UnlinkBuffers(J), NEW p \in Procs, NEW m1 \in MemRec,
         StackRefused(m, m1) \/ \E b : StackGiven(m, p, m1, b),
         NEW q \in Procs, Space(m, J, q), q = p => Fills(J, p) = {}
  PROVE  Space(m1, J, q)
<1>1. CASE StackRefused(m, m1)
  <2>1. m1.regs = m.regs /\ m1.halt # "no"
    BY <1>1 DEF StackRefused
  <2> QED
    BY <2>1, SpaceSame
<1>2. ASSUME NEW b, StackGiven(m, p, m1, b), q # p PROVE Space(m1, J, q)
  <2>1. m1.regs[q] = m.regs[q] /\ m1.pages[q] = m.pages[q] /\ m.halt = "no"
    BY <1>2, MemFields DEF StackGiven, PagesPut
  <2>2. LiveIn(m1, J, q) = LiveIn(m, J, q)
    BY <2>1 DEF LiveIn
  <2> QED
    BY <2>1, <2>2, SpaceSame
<1>3. ASSUME NEW b, StackGiven(m, p, m1, b), q = p PROVE Space(m1, J, p)
  <2> DEFINE r == StackRegion(m.regs[p], b)
  <2>1. m.regs[p] \in SUBSET RegionType /\ r \in RegionType /\ r.use = "stack"
    BY <1>3, MemFields DEF StackGiven, StackRegion
  <2>2. \A s \in m.regs[p] : Disjoint(s, r)
    BY <2>1, StackApart
  <2>3. /\ m1.regs[p] = m.regs[p] \cup {r} /\ m.halt = "no"
        /\ m1.pages[p] = {e \in m.pages[p] : e[1] \notin Run(r.va, r.n)} \cup PagesOf(r)
    BY <1>3, MemFields DEF StackGiven, PagesPut
  <2> HIDE DEF r
  <2>4. ApartIn(m1, p)
    BY <1>3, <2>2, <2>3, DisjointSwap DEF Space, ApartIn
  <2>5. FilledIn(m1, J, p)
    BY <1>3 DEF FilledIn
  <2>6. r \notin UnlinkingIn(J)
    BY <2>1 DEF UnlinkBuffers, Buffers, UnlinkingIn, Unlinks
  <2>7. LiveIn(m1, J, p) = LiveIn(m, J, p) \cup {r}
    BY <2>3, <2>6 DEF LiveIn
  <2>8. /\ Mapped(m, J, p) = LiveIn(m, J, p) /\ Mapped(m1, J, p) = LiveIn(m1, J, p)
        /\ LiveIn(m, J, p) \subseteq m.regs[p]
    BY <1>3, MappedIs
  <2>9. m.pages[p] = PageEntries(LiveIn(m, J, p))
    BY <1>3, <2>3, <2>8 DEF Space, PageEntries
  <2> HIDE DEF LiveIn
  <2>10. m1.pages[p] = PageEntries(LiveIn(m1, J, p))
    <3>1. LiveIn(m, J, p) \in SUBSET RegionType /\ \A s \in LiveIn(m, J, p) : Disjoint(s, r)
      BY <2>1, <2>2, <2>8
    <3> QED
      BY <2>3, <2>7, <2>9, <3>1, PutMatches
  <2> QED
    BY <2>4, <2>5, <2>8, <2>10 DEF Space, PageEntries
<1> QED
  BY <1>1, <1>2, <1>3

(* The temporary mapping leaves no trace. *)
LEMMA TempSpace ==
  ASSUME NEW m \in MemRec, NEW J \in Jobs, NEW n \in Nat, NEW m1, m1 = TempMap(m, n),
         IsFiniteSet(m.regs[KERNEL]), NEW q \in Procs, Space(m, J, q),
         q = KERNEL /\ m1.halt = "no" =>
           Fills(J, KERNEL) = {} /\ \A r \in m.regs[KERNEL] : Placed(r)
  PROVE  Space(m1, J, q)
<1> DEFINE b == TempPlace(m.regs[KERNEL], n)
<1>0. /\ m1 \in MemRec /\ m1.regs = m.regs /\ (m1.halt = "no" => m.halt = "no")
      /\ m1.halt = "no" => m1.pages = PagesDropped(m.pages, KERNEL, b, n)
  BY KernelIsProc, TempMapIs
<1>1. LiveIn(m1, J, q) = LiveIn(m, J, q)
  BY <1>0 DEF LiveIn
<1>2. CASE m1.halt # "no" \/ q # KERNEL
  <2>1. m1.halt = "no" => m1.pages[q] = m.pages[q]
    BY <1>0, <1>2, MemFields DEF PagesDropped
  <2> QED
    BY <1>0, <1>1, <2>1, SpaceSame
<1>3. CASE m1.halt = "no" /\ q = KERNEL
  <2>0. m.regs[q] \in SUBSET RegionType /\ \A r \in m.regs[q] : Placed(r)
    BY <1>3, MemFields
  <2>1. \A r, s \in m.regs[q] : r # s => Disjoint(r, s)
    BY DEF Space, ApartIn
  <2>2. \A r \in m.regs[q] : Run(b, n) \cap Run(r.va, r.n) = {}
    BY <1>3, <2>0, <2>1, TempPlaceApart
  <2>3. /\ Mapped(m, J, q) = LiveIn(m, J, q) /\ LiveIn(m, J, q) \subseteq m.regs[q]
        /\ Mapped(m1, J, q) = LiveIn(m, J, q)
    BY <1>0, <1>1, <1>3, MappedIs
  <2>4. m.pages[q] = PageEntries(LiveIn(m, J, q))
    BY <1>0, <1>3, <2>3 DEF Space, PageEntries
  <2>5. m1.pages[q] = {e \in m.pages[q] : e[1] \notin Run(b, n)}
    BY <1>0, <1>3, MemFields DEF PagesDropped
  <2> HIDE DEF b, LiveIn
  <2>6. m1.pages[q] = PageEntries(LiveIn(m, J, q))
    <3>1. LiveIn(m, J, q) \in SUBSET RegionType
          /\ \A r \in LiveIn(m, J, q) : Run(b, n) \cap Run(r.va, r.n) = {}
      BY <2>0, <2>2, <2>3
    <3> QED
      BY <2>4, <2>5, <3>1, DropMatches
  <2>7. ApartIn(m1, q) /\ FilledIn(m1, J, q)
    BY <1>0, <1>3 DEF Space, ApartIn, FilledIn
  <2> QED
    BY <2>3, <2>6, <2>7 DEF Space, PageEntries
<1> QED
  BY <1>2, <1>3

-----------------------------------------------------------------------------
(* The steps and the address spaces *)

LEMMA SpacesFrom ==
  ASSUME Spaces(mem, job, strayed), NEW k, strayed' = (strayed \/ Strays(job'[k])),
         \A p \in Procs : (p = KERNEL => ~strayed') /\ Space(mem, job, p) => Space(mem', job', p),
         mem'.halt = "no" /\ ~strayed' => Arranged(Objects(mem', job'))
  PROVE  Spaces(mem', job', strayed')
<1>1. ~strayed' => ~strayed
  OBVIOUS
<1>2. \A p \in Procs : (p = KERNEL => ~strayed') => Space(mem, job, p)
  BY <1>1, Zenon DEF Spaces
<1> HIDE DEF Space, Arranged, Objects, Strays
<1>3. \A p \in Procs : (p = KERNEL => ~strayed') => Space(mem', job', p)
  BY <1>2, Zenon
<1> QED
  BY <1>3, Zenon DEF Spaces

(* The machine stops. *)
LEMMA SpacesStop ==
  ASSUME Spaces(mem, job, strayed), NEW k, strayed' = (strayed \/ Strays(job'[k])),
         mem'.halt # "no", mem'.regs = mem.regs
  PROVE  Spaces(mem', job', strayed')
<1>1. \A p \in Procs : Space(mem, job, p) => Space(mem', job', p)
  BY SpaceSame
<1> QED
  BY <1>1, SpacesFrom

LEMMA StopSpaces ==
  ASSUME IInv, ~clash', Spaces(mem, job, strayed), NEW k, strayed' = (strayed \/ Strays(job'[k])),
         NEW why \in Halts \ {"no"}, mem' = Halt(mem, why)
  PROVE  Spaces(mem', job', strayed')
<1>1. mem'.halt = why /\ mem'.regs = mem.regs
  BY HaltIs DEF IInv, Types
<1> QED
  BY <1>1, SpacesStop

(* The job of a thread of the kernel before and after *)
Follows(j, X) ==
  X.pc # "idle" /\ X.p = KERNEL => j.pc # "idle" /\ j.p = KERNEL /\ Alike(X.r, j.r)

LEMMA ObjectsFollow ==
  ASSUME NEW m, NEW m1, NEW J \in Jobs, NEW k \in KThreads, NEW X, m1.regs = m.regs,
         Follows(J[k], X), Arranged(Objects(m, J))
  PROVE  Arranged(Objects(m1, Turned(J, k, X)))
<1> DEFINE J1 == Turned(J, k, X)
<1>1. J1[k] = X /\ \A q \in KThreads \ {k} : J1[q] = J[q]
  BY DEF Jobs, Turned
<1> HIDE DEF J1, Jobs
<1>2. ASSUME NEW o \in Objects(m1, J1) PROVE \E s \in Objects(m, J) : Alike(o, s)
  <2>1. CASE o \in m.regs[KERNEL]
    BY <2>1 DEF Objects, Alike
  <2>2. CASE o \in KernelJobs(J1)
    <3>1. PICK q \in KThreads : J1[q].pc # "idle" /\ J1[q].p = KERNEL /\ o = J1[q].r
      BY <2>2 DEF KernelJobs
    <3>2. J[q].pc # "idle" /\ J[q].p = KERNEL /\ Alike(o, J[q].r)
      BY <1>1, <3>1 DEF Follows, Alike
    <3>3. J[q].r \in Objects(m, J)
      BY <3>2 DEF Objects, KernelJobs
    <3> QED
      BY <3>2, <3>3
  <2> QED
    BY <2>1, <2>2 DEF Objects
<1> QED
  BY <1>2, ArrangedAlike DEF J1

(* A thread whose job is neither to count nor to unlink a region. *)
LEMMA FillsSame ==
  ASSUME NEW J \in Jobs, NEW k \in KThreads, NEW X, NEW J1, J1 = Turned(J, k, X),
         J[k].pc # "count", X.pc # "count", NEW p
  PROVE  Fills(J1, p) = Fills(J, p) /\ \A q \in Fills(J, p) : J1[q] = J[q]
<1>1. J1[k] = X /\ \A q \in KThreads \ {k} : J1[q] = J[q]
  BY DEF Jobs, Turned
<1> HIDE DEF Jobs
<1> QED
  BY <1>1 DEF Fills

(* It begins or ends no unlinking. *)
KeepsUnlinking(j, X) == (~Unlinks(j) /\ ~Unlinks(X)) \/ (Unlinks(j) /\ Unlinks(X) /\ X.r = j.r)

LEMMA QuietSpaces ==
  ASSUME NEW m, NEW m1, NEW J \in Jobs, NEW k \in KThreads, NEW X, NEW J1, J1 = Turned(J, k, X),
         J[k].pc # "count", X.pc # "count", KeepsUnlinking(J[k], X),
         m1.regs = m.regs, m1.pages = m.pages, m1.halt = m.halt, NEW p, Space(m, J, p)
  PROVE  Space(m1, J1, p)
<1>1. Fills(J1, p) = Fills(J, p) /\ \A q \in Fills(J, p) : J1[q] = J[q]
  BY FillsSame
<1>2. UnlinkingIn(J1) = UnlinkingIn(J)
  BY UnlinkingChange DEF KeepsUnlinking
<1>3. LiveIn(m1, J1, p) = LiveIn(m, J, p)
  BY <1>2 DEF LiveIn
<1> QED
  BY <1>1, <1>3, SpaceSame

LEMMA QuietStep ==
  ASSUME IInv, ~clash', Spaces(mem, job, strayed), NEW k \in KThreads,
         strayed' = (strayed \/ Strays(job'[k])), NEW X, job' = Turned(job, k, X),
         mem.halt = "no", job[k].pc # "count", X.pc # "count", KeepsUnlinking(job[k], X),
         mem'.regs = mem.regs, mem'.pages = mem.pages, mem'.halt = mem.halt, Follows(job[k], X)
  PROVE  Spaces(mem', job', strayed')
<1>1. job \in Jobs
  BY DEF IInv, Types
<1>2. \A p \in Procs : Space(mem, job, p) => Space(mem', job', p)
  BY <1>1, QuietSpaces
<1>3. mem'.halt = "no" /\ ~strayed' => Arranged(Objects(mem', job'))
  BY <1>1, ObjectsFollow DEF Spaces
<1> QED
  BY <1>2, <1>3, SpacesFrom

LEMMA FailsSpaces ==
  ASSUME IInv, ~clash', Spaces(mem, job, strayed), NEW k \in KThreads,
         strayed' = (strayed \/ Strays(job'[k])), NEW at, Running(k, at),
         at \notin {"idle", "count", "free", "unlink"}, NEW why \in Halts \ {"no"}, Fails(k, why)
  PROVE  Spaces(mem', job', strayed')
<1>1. CASE job[k].r.use = "image"
  BY <1>1, StopSpaces DEF Fails, Stop
<1>2. CASE job[k].r.use # "image"
  <2>1. mem' = mem /\ job' = Turned(job, k, Idle)
    BY <1>2 DEF Fails, Leave, Turned
  <2>2. job[k].pc = at /\ mem.halt = "no"
    BY DEF Running
  <2>3. Follows(job[k], Idle) /\ Idle.pc # "count" /\ KeepsUnlinking(job[k], Idle)
    BY <2>2, IdleIs DEF Follows, KeepsUnlinking, Unlinks
  <2> QED
    BY <2>1, <2>2, <2>3, QuietStep
<1> QED
  BY <1>1, <1>2

LEMMA AllocFindSpaces ==
  ASSUME IInv, ~clash', Spaces(mem, job, strayed), NEW k \in KThreads,
         strayed' = (strayed \/ Strays(job'[k])), alloc_find(k)
  PROVE  Spaces(mem', job', strayed')
<1> DEFINE j == job[k]
           b == kpmm_find_free_region(mem.used, j.r.n)
           X == JobFound(j, b)
<1>0. Running(k, "find")
  BY DEF alloc_find
<1>1. job \in Jobs /\ mem.halt = "no" /\ j \in JobRec /\ j.pc = "find"
  BY <1>0, RunningIs
<1> HIDE DEF b
<1>2. /\ b # NoBlock => job' = [job EXCEPT ![k].pc = "test", ![k].r.pa = b] /\ mem' = mem
      /\ b = NoBlock /\ j.r.use = "heap" => Stop("memory")
      /\ b = NoBlock /\ j.r.use # "heap" => Fails(k, "memory")
  BY DEF alloc_find, b
<1>3. "memory" \in Halts \ {"no"}
  BY DEF Halts
<1>4. CASE b = NoBlock /\ j.r.use = "heap"
  BY <1>2, <1>3, <1>4, StopSpaces DEF Stop
<1>5. CASE b = NoBlock /\ j.r.use # "heap"
  BY <1>0, <1>2, <1>3, <1>5, FailsSpaces
<1>6. CASE b # NoBlock
  <2>1. j.r.n \in Nat
    BY <1>1 DEF JobRec, RegionType
  <2>2. b \in Nat
    BY <1>6, <2>1, FindIs DEF b
  <2>3. job' = Turned(job, k, X) /\ mem' = mem
    BY <1>1, <1>2, <1>6 DEF Turned, JobFound, Jobs
  <2> HIDE DEF X
  <2>4. X.pc = "test" /\ X.p = j.p /\ X.r.va = j.r.va /\ X.r.n = j.r.n /\ X.r.use = j.r.use
    BY <1>1, <2>2, JobFoundIs DEF X, Becomes
  <2>5. Follows(j, X) /\ KeepsUnlinking(j, X)
    BY <1>1, <2>4 DEF Follows, Alike, KeepsUnlinking, Unlinks
  <2> QED
    BY <1>1, <2>3, <2>4, <2>5, QuietStep
<1> QED
  BY <1>4, <1>5, <1>6

LEMMA AllocTestSpaces ==
  ASSUME IInv, ~clash', Spaces(mem, job, strayed), NEW k \in KThreads,
         strayed' = (strayed \/ Strays(job'[k])), alloc_test(k)
  PROVE  Spaces(mem', job', strayed')
<1> DEFINE j == job[k]
           X == JobAt(j, "set")
<1>0. Running(k, "test")
  BY DEF alloc_test
<1>1. job \in Jobs /\ mem.halt = "no" /\ j \in JobRec /\ j.pc = "test"
  BY <1>0, RunningIs
<1>2. CASE ChunkTaken(j)
  <2>1. "lost race" \in Halts \ {"no"} /\ Fails(k, "lost race")
    BY <1>2 DEF Halts, alloc_test
  <2> QED
    BY <1>0, <2>1, FailsSpaces
<1>3. CASE ~ChunkTaken(j)
  <2>1. job' = Turned(job, k, X) /\ mem' = mem
    BY <1>1, <1>3 DEF alloc_test, Goto, Turned, JobAt, Jobs
  <2>2. X.pc = "set" /\ X.p = j.p /\ X.r = j.r
    BY <1>1 DEF JobAt, JobRec
  <2> HIDE DEF X
  <2>3. Follows(j, X) /\ KeepsUnlinking(j, X)
    BY <1>1, <2>2 DEF Follows, Alike, KeepsUnlinking, Unlinks
  <2> QED
    BY <1>1, <2>1, <2>2, <2>3, QuietStep
<1> QED
  BY <1>2, <1>3

LEMMA AllocSetSpaces ==
  ASSUME IInv, ~clash', Spaces(mem, job, strayed), NEW k \in KThreads,
         strayed' = (strayed \/ Strays(job'[k])), alloc_set(k)
  PROVE  Spaces(mem', job', strayed')
<1> DEFINE j == job[k]
           i == j.i + Cardinality(Chunk(j))
           at == IF i < j.r.n THEN "test" ELSE "map"
           X == JobMoved(j, i, at)
<1>0. Running(k, "set")
  BY DEF alloc_set
<1>1. job \in Jobs /\ mem \in MemRec /\ mem.halt = "no" /\ j \in JobRec /\ j.pc = "set"
  BY <1>0, RunningIs
<1>2. PICK used : mem' = [mem EXCEPT !.used = used]
  BY DEF alloc_set
<1>3. job' = Turned(job, k, X)
  BY <1>1 DEF alloc_set, Turned, JobMoved, Jobs
<1>4. mem'.regs = mem.regs /\ mem'.pages = mem.pages /\ mem'.halt = mem.halt
  BY <1>1, <1>2 DEF MemRec
<1> HIDE DEF i
<1>5. X.pc \in {"test", "map"} /\ X.p = j.p /\ X.r = j.r
  BY <1>1 DEF JobMoved, JobRec
<1> HIDE DEF X
<1>6. Follows(j, X) /\ KeepsUnlinking(j, X) /\ X.pc # "count"
  BY <1>1, <1>5 DEF Follows, Alike, KeepsUnlinking, Unlinks
<1> QED
  BY <1>1, <1>3, <1>4, <1>6, QuietStep

LEMMA AllocLimitSpaces ==
  ASSUME IInv, ~clash', Spaces(mem, job, strayed), NEW k \in KThreads,
         strayed' = (strayed \/ Strays(job'[k])), alloc_limit(k)
  PROVE  Spaces(mem', job', strayed')
<1> DEFINE j == job[k]
           X == JobMoved(j, 0, "undo")
<1>0. Running(k, "map") /\ mem' = mem
  BY DEF alloc_limit
<1>1. job \in Jobs /\ mem.halt = "no" /\ j \in JobRec /\ j.pc = "map"
  BY <1>0, RunningIs
<1>2. job' = Turned(job, k, X)
  BY <1>1 DEF alloc_limit, Turned, JobMoved, Jobs
<1>3. X.pc = "undo" /\ X.p = j.p /\ X.r = j.r
  BY <1>1 DEF JobMoved, JobRec
<1> HIDE DEF X
<1>4. Follows(j, X) /\ KeepsUnlinking(j, X) /\ X.pc # "count"
  BY <1>1, <1>3 DEF Follows, Alike, KeepsUnlinking, Unlinks
<1> QED
  BY <1>0, <1>1, <1>2, <1>4, QuietStep

LEMMA FreeBlockSpaces ==
  ASSUME IInv, ~clash', Spaces(mem, job, strayed), NEW k \in KThreads,
         strayed' = (strayed \/ Strays(job'[k])), free_block(k), UNCHANGED clash
  PROVE  Spaces(mem', job', strayed')
<1> DEFINE j == job[k]
           b == j.r.pa + j.i
<1>0. Running(k, j.pc) /\ j.pc \in {"free", "undo"}
  BY DEF free_block, Running
<1>1. mem \in MemRec /\ job \in Jobs /\ mem.halt = "no" /\ j \in JobRec
  BY <1>0, RunningIs
<1>2. ~UnmarkRefused(mem.used, b)
  <2> DEFINE c == [kind |-> "thread", of |-> k, r |-> j.r, n |-> j.r.n, from |-> j.i]
  <2>1. Proper(j) /\ Kept(Claims(mem, job), mem.used)
    BY <1>0, RunningIs
  <2>2. j.r.pa \in Nat /\ j.i \in Nat /\ j.r.n \in Nat /\ j.i < j.r.n /\ j.r.use \in {"fdc", "sb16"}
    BY <1>0, <1>1, <2>1 DEF Proper, JobRec, RegionType
  <2>3. c \in ThreadClaim(k, j) /\ c.r = j.r /\ c.n = j.r.n /\ c.from = j.i
    BY <1>0, <2>2 DEF ThreadClaim
  <2> HIDE DEF c
  <2>4. c \in Claims(mem, job)
    BY <2>3, ClaimIs
  <2>5. b \in Area(c)
    BY <2>2, <2>3 DEF Area, Run
  <2>6. b \in mem.used /\ ~(b < b)
    BY <2>1, <2>2, <2>4, <2>5 DEF Kept
  <2> QED
    BY <2>6 DEF UnmarkRefused
<1>3. mem' = [mem EXCEPT !.used = @ \ {b}]
  BY <1>2 DEF free_block, IInv
<1>4. mem'.regs = mem.regs /\ mem'.pages = mem.pages /\ mem'.halt = mem.halt
  BY <1>1, <1>3 DEF MemRec
<1>5. CASE ~Cleared(j)
  <2> DEFINE X == JobMoved(j, j.i + 1, j.pc)
  <2>1. job' = Turned(job, k, X)
    BY <1>1, <1>2, <1>5 DEF free_block, Turned, JobMoved, Jobs, JobRec
  <2>2. X.pc = j.pc /\ X.p = j.p /\ X.r = j.r
    BY <1>1 DEF JobMoved, JobRec
  <2> HIDE DEF X
  <2>3. Follows(j, X) /\ KeepsUnlinking(j, X) /\ X.pc # "count" /\ j.pc # "count"
    BY <1>0, <2>2 DEF Follows, Alike, KeepsUnlinking, Unlinks
  <2> QED
    BY <1>1, <1>4, <2>1, <2>3, QuietStep
<1>6. CASE Cleared(j) /\ j.pc = "free"
  <2> DEFINE X == JobAt(j, "unlink")
  <2>1. job' = Turned(job, k, X)
    BY <1>1, <1>2, <1>6 DEF free_block, Goto, Turned, JobAt, Jobs
  <2>2. X.pc = "unlink" /\ X.p = j.p /\ X.r = j.r
    BY <1>1 DEF JobAt, JobRec
  <2> HIDE DEF X
  <2>3. Follows(j, X) /\ KeepsUnlinking(j, X) /\ X.pc # "count" /\ j.pc # "count"
    BY <1>6, <2>2 DEF Follows, Alike, KeepsUnlinking, Unlinks
  <2> QED
    BY <1>1, <1>4, <2>1, <2>3, QuietStep
<1>7. CASE Cleared(j) /\ j.pc = "undo"
  <2>1. job' = Turned(job, k, Idle)
    BY <1>2, <1>7 DEF free_block, Leave, Turned
  <2>2. Follows(j, Idle) /\ KeepsUnlinking(j, Idle) /\ Idle.pc # "count" /\ j.pc # "count"
    BY <1>7, IdleIs DEF Follows, KeepsUnlinking, Unlinks
  <2> QED
    BY <1>1, <1>4, <2>1, <2>2, QuietStep
<1> QED
  BY <1>0, <1>5, <1>6, <1>7

LEMMA CreateHeapSpaces ==
  ASSUME IInv, ~clash', Spaces(mem, job, strayed), NEW k \in KThreads,
         strayed' = (strayed \/ Strays(job'[k])), vmm_create_heap(k)
  PROVE  Spaces(mem', job', strayed')
<1> DEFINE r == Region(HeapPlace(mem), HEAP, "heap")
           X == NewJob("find", KERNEL, r, <<>>)
<1>0. Running(k, "idle")
  BY DEF vmm_create_heap
<1>1. job \in Jobs /\ mem.halt = "no" /\ job[k].pc = "idle"
  BY <1>0, RunningIs
<1>2. mem' = mem /\ job' = Turned(job, k, X)
  BY DEF vmm_create_heap, Start, Turned, NewJob
<1>3. X.pc = "find" /\ X.p = KERNEL /\ X.r = r
  BY DEF NewJob
<1>3a. KeepsUnlinking(job[k], X)
  BY <1>1, <1>3 DEF KeepsUnlinking, Unlinks
<1>4. Placed(r) /\ r.use = "heap"
  BY DEF Placed, Region, HeapPlace
<1> HIDE DEF X, r
<1>5. \A p \in Procs : Space(mem, job, p) => Space(mem', job', p)
  BY <1>1, <1>2, <1>3, <1>3a, QuietSpaces
<1>6. ASSUME mem'.halt = "no", ~strayed' PROVE Arranged(Objects(mem', job'))
  <2>1. job'[k] = X /\ \A q \in KThreads \ {k} : job'[q] = job[q]
    BY <1>1, <1>2 DEF Turned, Jobs
  <2>2. Arranged(Objects(mem, job))
    BY <1>6, <1>1 DEF Spaces
  <2>3. Objects(mem', job') \subseteq Objects(mem, job) \cup {r}
    BY <1>2, <1>3, <2>1 DEF Objects, KernelJobs
  <2> QED
    BY <1>4, <2>2, <2>3 DEF Arranged
<1> QED
  BY <1>5, <1>6, SpacesFrom

(* The kernel or a segment that passes the overlap test lies apart from the *)
(* regions of its process.                                                  *)
LEMMA LoadsApart ==
  ASSUME NEW rs \in SUBSET RegionType, NEW j \in JobRec, Loads(rs, j), ~Overlaps(rs, j.r.va, j.r.n),
         j.r.use \in {"kernel", "image"}
  PROVE  \A s \in rs : Disjoint(j.r, s)
<1> SUFFICES ASSUME NEW s \in rs PROVE Disjoint(j.r, s)
  OBVIOUS
<1> DEFINE va == j.r.va
           n == j.r.n
<1>1. va \in Nat /\ n \in Nat /\ s.va \in Nat /\ s.n \in Nat /\ j.r \in RegionType /\ s \in RegionType
  BY DEF JobRec, RegionType
<1>2. /\ ~(s.va >= va /\ s.va < va + n)
      /\ ~(s.va + s.n > va /\ s.va + s.n <= va + n)
  BY DEF Overlaps
<1>3. CASE j.r.use = "kernel"
  <2>1. va = KBASE /\ s.va < KBASE /\ s.va + s.n <= KBASE
    BY <1>3, KernelRegionIs DEF Loads
  <2> QED
    BY <1>1, <2>1, ApartIsDisjoint DEF Apart
<1>4. CASE j.r.use = "image"
  <2>1. va + n <= UserTop /\ va \in Ahead(j)
    BY <1>4 DEF Loads, Ahead
  <2>2. UserTop \in Int
    BY MemoryAssumption DEF UserTop
  <2>3. \/ UserTop <= s.va /\ 0 < s.n
        \/ s.use = "image" /\ \A v \in Ahead(j) : Before(s, v)
    BY DEF Loads
  <2>4. CASE UserTop <= s.va /\ 0 < s.n
    <3>1. va + n <= s.va
      BY <1>1, <2>1, <2>2, <2>4
    <3> QED
      BY <1>1, <3>1, ApartIsDisjoint DEF Apart
  <2>5. CASE s.use = "image" /\ \A v \in Ahead(j) : Before(s, v)
    <3>1. s.va < va /\ s.va + s.n <= va + 1
      BY <2>1, <2>5 DEF Before
    <3>2. s.va + s.n <= va \/ n = 0
      BY <1>1, <1>2, <3>1
    <3>3. ASSUME n = 0 PROVE Run(va, n) = {}
      BY <1>1, <3>3 DEF Run
    <3> QED
      BY <1>1, <3>2, <3>3, ApartIsDisjoint DEF Apart, Disjoint
  <2> QED
    BY <2>3, <2>4, <2>5
<1> QED
  BY <1>3, <1>4

(* All that the kernel's address space holds or is to hold are regions. *)
LEMMA ObjectsAre ==
  ASSUME NEW m \in MemRec, NEW J \in Jobs
  PROVE  Objects(m, J) \in SUBSET RegionType
<1>1. m.regs[KERNEL] \in SUBSET RegionType
  BY KernelIsProc, MemFields
<1>2. \A k \in KThreads : J[k].pc # "idle" => J[k] \in JobRec
  <2>1. \A k \in KThreads : J[k] \in {Idle} \cup JobRec
    BY DEF Jobs
  <2> QED
    BY <2>1, JobCases
<1>3. \A k \in KThreads : J[k].pc # "idle" => J[k].r \in RegionType
  BY <1>2 DEF JobRec
<1> QED
  BY <1>1, <1>3 DEF Objects, KernelJobs

(* What a thread is about to fill meets nothing. *)
LEMMA FillsApart ==
  ASSUME IInv, ~clash', NEW k \in KThreads, Running(k, "fill"),
         ~Overlaps(mem.regs[job[k].p], job[k].r.va, job[k].r.n),
         job[k].p = KERNEL => Arranged(Objects(mem, job))
  PROVE  \A s \in mem.regs[job[k].p] : Disjoint(job[k].r, s)
<1> DEFINE j == job[k]
           rs == mem.regs[j.p]
<1>1. /\ mem \in MemRec /\ job \in Jobs /\ j \in JobRec /\ Proper(j) /\ j.pc = "fill"
      /\ j.pc # "idle" /\ ~Unlinks(j) /\ Sane(mem, job)
  BY RunningIs DEF Unlinks
<1>2. j.p \in Procs /\ rs \in SUBSET RegionType
  BY <1>1, MemFields DEF JobRec
<1>3. CASE j.r.use \in {"kernel", "image"}
  <2>1. j.p \in Users
    BY <1>1, <1>3 DEF Proper
  <2>2. Loads(rs, j)
    BY <1>1, <2>1 DEF Sane, Loading
  <2> QED
    BY <1>1, <1>2, <1>3, <2>2, LoadsApart
<1>4. CASE j.r.use \notin {"kernel", "image"}
  <2>1. j.p = KERNEL /\ j.r.use \in {"heap", "fdc", "sb16", "lfb"}
    BY <1>1, <1>4 DEF Proper
  <2>2. j.r \in Objects(mem, job) /\ rs \subseteq Objects(mem, job)
    BY <1>1, <2>1 DEF Objects, KernelJobs
  <2>3. Objects(mem, job) \in SUBSET RegionType
    BY <1>1, ObjectsAre
  <2>4. j.r.use # "heap" => j.r.use \in Buffers
    BY <2>1 DEF Buffers
  <2>5. j.r.use # "heap" => \A s \in rs : s.use # j.r.use
    BY <1>1, <2>1, <2>4 DEF Sane, BuffersOnce
  <2> QED
    BY <2>1, <2>2, <2>3, <2>5, TestedIsApart
<1> QED
  BY <1>3, <1>4

LEMMA MapTestSpaces ==
  ASSUME IInv, ~clash', Spaces(mem, job, strayed), NEW k \in KThreads,
         strayed' = (strayed \/ Strays(job'[k])), map_test(k)
  PROVE  Spaces(mem', job', strayed')
<1> DEFINE j == job[k]
           X == JobAt(j, "fill")
           r == j.r
<1>0. Running(k, "map")
  BY DEF map_test
<1>1. job \in Jobs /\ mem.halt = "no" /\ j \in JobRec /\ j.pc = "map"
  BY <1>0, RunningIs
<1>2. {"regions", "overlap"} \subseteq Halts \ {"no"}
  BY DEF Halts
<1>3. CASE Full(mem, j.p)
  BY <1>2, <1>3, StopSpaces DEF map_test, Stop
<1>4. CASE ~Full(mem, j.p) /\ Overlaps(mem.regs[j.p], r.va, r.n) /\ r.use = "kernel"
  BY <1>2, <1>4, StopSpaces DEF map_test, Stop
<1>5. CASE ~Full(mem, j.p) /\ Overlaps(mem.regs[j.p], r.va, r.n) /\ r.use # "kernel"
  <2>1. Fails(k, "overlap")
    BY <1>5 DEF map_test
  <2> QED
    BY <1>0, <1>2, <2>1, FailsSpaces
<1>6. CASE ~Full(mem, j.p) /\ ~Overlaps(mem.regs[j.p], r.va, r.n)
  <2>1. job' = Turned(job, k, X) /\ mem' = mem
    BY <1>1, <1>6 DEF map_test, Goto, Turned, JobAt, Jobs
  <2>2. X.pc = "fill" /\ X.p = j.p /\ X.r = j.r
    BY <1>1 DEF JobAt, JobRec
  <2> HIDE DEF X
  <2>3. Follows(j, X) /\ KeepsUnlinking(j, X) /\ X.pc # "count"
    BY <1>1, <2>2 DEF Follows, Alike, KeepsUnlinking, Unlinks
  <2> QED
    BY <1>1, <2>1, <2>3, QuietStep
<1> QED
  BY <1>3, <1>4, <1>5, <1>6

LEMMA MapFillSpaces ==
  ASSUME IInv, ~clash', Spaces(mem, job, strayed), NEW k \in KThreads,
         strayed' = (strayed \/ Strays(job'[k])), map_fill(k)
  PROVE  Spaces(mem', job', strayed')
<1> DEFINE j == job[k]
           X == JobAt(j, "count")
           r == j.r
<1>0. Running(k, "fill")
  BY DEF map_fill
<1>1. /\ mem \in MemRec /\ job \in Jobs /\ mem.halt = "no" /\ j \in JobRec /\ Proper(j)
      /\ j.pc = "fill" /\ j.pc # "idle"
  BY <1>0, RunningIs
<1>2. ~Overlaps(mem.regs[j.p], r.va, r.n) /\ ~Filling(k, j.p)
  BY DEF map_fill
<1>11. mem' = PutPages(mem, j.p, r) /\ job' = Turned(job, k, X)
  BY <1>1 DEF map_fill, Goto, Turned, JobAt, Jobs
<1>12. j.p \in Procs /\ r \in RegionType /\ r.pa \in Nat
  BY <1>1 DEF JobRec, Proper
<1>13. mem' \in MemRec /\ mem'.regs = mem.regs /\ mem'.halt = "no"
      /\ mem'.pages = PagesPut(mem.pages, j.p, r)
  BY <1>1, <1>11, <1>12, PutIs
<1>14. X.pc = "count" /\ X.p = j.p /\ X.r = r
  BY <1>1 DEF JobAt, JobRec
<1> HIDE DEF X
<1>15. job'[k] = X /\ \A q \in KThreads \ {k} : job'[q] = job[q]
  BY <1>1, <1>11 DEF Turned, Jobs
<1>16. UnlinkingIn(job') = UnlinkingIn(job)
  BY <1>1, <1>11, <1>14, UnlinkingChange DEF Unlinks
<1>17. \A p : LiveIn(mem', job', p) = LiveIn(mem, job, p)
  BY <1>13, <1>16 DEF LiveIn
<1>18. Fills(job, j.p) = {} /\ Fills(job', j.p) = {k}
  BY <1>1, <1>2, <1>14, <1>15 DEF Fills, Filling
<1>19. ASSUME NEW p \in Procs, p = KERNEL => ~strayed', Space(mem, job, p)
      PROVE  Space(mem', job', p)
  <2>1. CASE p # j.p
    <3>1. Fills(job', p) = Fills(job, p) /\ \A q \in Fills(job, p) : job'[q] = job[q]
      BY <1>1, <1>14, <1>15, <2>1 DEF Fills
    <3>2. mem'.pages[p] = mem.pages[p]
      BY <1>1, <1>13, <2>1, MemFields DEF PagesPut
    <3> QED
      BY <1>1, <1>13, <1>17, <1>19, <3>1, <3>2, SpaceSame
  <2>2. CASE p = j.p
    <3>1. j.p = KERNEL => Arranged(Objects(mem, job))
      BY <1>1, <1>19, <2>2 DEF Spaces
    <3>2. \A s \in mem.regs[p] : Disjoint(r, s)
      BY <1>0, <1>2, <2>2, <3>1, FillsApart
    <3>3. /\ Mapped(mem, job, p) = LiveIn(mem, job, p) /\ LiveIn(mem, job, p) \subseteq mem.regs[p]
          /\ mem.regs[p] \in SUBSET RegionType
      BY <1>1, <1>18, <2>2, MappedIs, MemFields
    <3>4. Mapped(mem', job', p) = LiveIn(mem, job, p) \cup {r}
      BY <1>14, <1>15, <1>17, <1>18, <2>2 DEF Mapped
    <3>5. mem.pages[p] = PageEntries(LiveIn(mem, job, p))
      BY <1>1, <1>19, <3>3 DEF Space, PageEntries
    <3>6. mem'.pages[p] = {e \in mem.pages[p] : e[1] \notin Run(r.va, r.n)} \cup PagesOf(r)
      BY <1>1, <1>12, <1>13, <2>2, MemFields DEF PagesPut
    <3>7. ApartIn(mem', p)
      BY <1>13, <1>19 DEF Space, ApartIn
    <3>8. FilledIn(mem', job', p)
      BY <1>13, <1>14, <1>15, <1>18, <2>2, <3>2 DEF FilledIn
    <3> HIDE DEF LiveIn
    <3>9. LiveIn(mem, job, p) \in SUBSET RegionType /\ \A s \in LiveIn(mem, job, p) : Disjoint(s, r)
      BY <3>2, <3>3, DisjointSwap
    <3>10. mem'.pages[p] = PageEntries(LiveIn(mem, job, p) \cup {r})
      BY <3>5, <3>6, <3>9, PutMatches
    <3> QED
      BY <3>4, <3>7, <3>8, <3>10 DEF Space, PageEntries
  <2> QED
    BY <2>1, <2>2
<1>20. Follows(j, X)
  BY <1>1, <1>14 DEF Follows, Alike
<1>21. mem'.halt = "no" /\ ~strayed' => Arranged(Objects(mem', job'))
  BY <1>1, <1>11, <1>13, <1>20, ObjectsFollow DEF Spaces
<1> QED
  BY <1>19, <1>21, SpacesFrom

(* A region that is being counted is not being unlinked. *)
LEMMA NotUnlinked ==
  ASSUME IInv, ~clash', NEW k \in KThreads, Running(k, "count")
  PROVE  job[k].r \notin UnlinkingIn(job)
<1>1. job[k].pc = "count" /\ job[k].pc # "idle" /\ ~Unlinks(job[k]) /\ Sane(mem, job)
  BY RunningIs DEF Unlinks
<1>2. ASSUME NEW q \in KThreads, Unlinks(job[q]), job[q].r = job[k].r PROVE FALSE
  <2>1. job[q].pc # "idle" /\ Proper(job[q]) /\ q # k
    BY <1>1, <1>2 DEF Sane, Unlinks
  <2>2. job[k].r.use \in Buffers
    BY <1>2, <2>1 DEF Proper
  <2> QED
    BY <1>1, <1>2, <2>1, <2>2 DEF Sane, BuffersOnce
<1> QED
  BY <1>2 DEF UnlinkingIn, Unlinks

(* What has been filled becomes a region. *)
LEMMA CountSpace ==
  ASSUME IInv, ~clash', NEW k \in KThreads, Running(k, "count"), NEW X, X.pc \notin {"count", "free", "unlink"},
         NEW m1, m1 = Counted(mem, job[k].p, job[k].r), NEW J1, J1 = Turned(job, k, X),
         NEW q \in Procs, Space(mem, job, q)
  PROVE  Space(m1, J1, q) /\ (q = job[k].p => Fills(J1, q) = {})
<1> DEFINE j == job[k]
           p == j.p
           r == j.r
<1>1. /\ mem \in MemRec /\ job \in Jobs /\ mem.halt = "no" /\ j \in JobRec /\ j.pc = "count"
      /\ p \in Procs /\ r \in RegionType
  BY RunningIs DEF JobRec
<1>2. /\ m1 \in MemRec /\ m1.halt = "no" /\ m1.pages = mem.pages
      /\ m1.regs = [mem.regs EXCEPT ![p] = @ \cup {r}]
  BY <1>1, CountedIs
<1>3. J1[k] = X /\ \A l \in KThreads \ {k} : J1[l] = job[l]
  BY <1>1 DEF Turned, Jobs
<1>4. UnlinkingIn(J1) = UnlinkingIn(job)
  BY <1>1, UnlinkingChange DEF Unlinks
<1>5. CASE q # p
  <2>1. m1.regs[q] = mem.regs[q]
    BY <1>1, <1>2, <1>5, MemFields
  <2>2. LiveIn(m1, J1, q) = LiveIn(mem, job, q)
    BY <1>4, <2>1 DEF LiveIn
  <2>3. Fills(J1, q) = Fills(job, q) /\ \A l \in Fills(job, q) : J1[l] = job[l]
    BY <1>3, <1>5 DEF Fills
  <2>4. mem.halt = "no" /\ m1.pages[q] = mem.pages[q] /\ \A l \in Fills(job, q) : J1[l].r = job[l].r
    BY <1>1, <1>2, <2>3
  <2>5. Space(m1, J1, q)
    BY <2>1, <2>2, <2>3, <2>4, SpaceSame
  <2> QED
    BY <1>5, <2>5
<1>6. CASE q = p
  <2>1. m1.regs[q] = mem.regs[q] \cup {r}
    BY <1>1, <1>2, <1>6, MemFields
  <2>2. k \in Fills(job, q)
    BY <1>1, <1>6 DEF Fills
  <2>3. Fills(job, q) = {k} /\ \A s \in mem.regs[q] : Disjoint(r, s)
    BY <1>1, <2>2 DEF Space, FilledIn
  <2>4. Fills(J1, q) = {}
    BY <1>3, <2>3 DEF Fills
  <2>5. ApartIn(m1, q)
    BY <2>1, <2>3, DisjointSwap DEF Space, ApartIn
  <2>6. r \notin UnlinkingIn(job)
    BY NotUnlinked
  <2>7. LiveIn(m1, J1, q) = LiveIn(mem, job, q) \cup {r}
    BY <1>4, <2>1, <2>6 DEF LiveIn
  <2> HIDE DEF LiveIn
  <2>8. Mapped(m1, J1, q) = Mapped(mem, job, q)
    BY <2>3, <2>4, <2>7 DEF Mapped
  <2>9. FilledIn(m1, J1, q)
    BY <2>4 DEF FilledIn
  <2> QED
    BY <1>1, <1>2, <2>4, <2>5, <2>8, <2>9 DEF Space
<1> QED
  BY <1>5, <1>6

LEMMA MapCountSpaces ==
  ASSUME IInv, ~clash', Spaces(mem, job, strayed), NEW k \in KThreads,
         strayed' = (strayed \/ Strays(job'[k])), map_count(k)
  PROVE  Spaces(mem', job', strayed')
<1> DEFINE j == job[k]
           p == j.p
           r == j.r
           N == NewJob("find", p, Region(Head(j.rest).va, SegmentPages(Head(j.rest)), "image"),
                       Tail(j.rest))
           X == IF j.rest = <<>> THEN Idle ELSE N
           m == Counted(mem, p, r)
<1>0. Running(k, "count")
      /\ mem' = (IF r.use = "image" THEN TempMap(m, r.n) ELSE m)
      /\ ~(r.use = "image" /\ Filling(k, KERNEL))
  <2>1. Entries(p, r) = {r}
    BY DEF Entries, IInv
  <2> QED
    BY <2>1 DEF map_count, Counted
<1>1. /\ mem \in MemRec /\ job \in Jobs /\ mem.halt = "no" /\ j \in JobRec /\ Proper(j)
      /\ j.pc = "count" /\ j.pc # "idle" /\ IsFiniteSet(mem.regs[KERNEL])
  BY <1>0, RunningIs
<1>2. p \in Procs /\ r \in RegionType /\ r.n \in Nat /\ KERNEL \in Procs
  BY <1>1, KernelIsProc DEF JobRec, RegionType
<1>3. job' = Turned(job, k, X)
  BY DEF map_count, Leave, Start, Turned, NewJob
<1>4. X.pc # "idle" => X.pc = "find" /\ X.p = p /\ p # KERNEL
  <2>1. j.rest # <<>> => p # KERNEL
    <3>1. j.r.use \in {"kernel", "image"} => p # KERNEL
      BY <1>1, KernelIsProc DEF Proper
    <3>2. j.r.use \notin {"kernel", "image"} => j.rest = <<>>
      BY <1>1 DEF Proper
    <3> QED
      BY <3>1, <3>2
  <2> QED
    BY <2>1, IdleIs DEF NewJob
<1>5. X.pc \notin {"count", "free", "unlink"}
  BY <1>4
<1> HIDE DEF X, N, m
<1>6. \A q \in Procs : Space(mem, job, q) => Space(m, job', q) /\ (q = p => Fills(job', q) = {})
  BY <1>0, <1>3, <1>5, CountSpace DEF m
<1>7. m \in MemRec /\ m.halt = "no" /\ m.regs = [mem.regs EXCEPT ![p] = @ \cup {r}]
  BY <1>1, <1>2, CountedIs DEF m
<1>8. m.regs[KERNEL] = mem.regs[KERNEL] \/ (p = KERNEL /\ m.regs[KERNEL] = mem.regs[KERNEL] \cup {r})
  BY <1>1, <1>2, <1>7, MemFields
<1>9. job'[k] = X /\ \A q \in KThreads \ {k} : job'[q] = job[q]
  BY <1>1, <1>3 DEF Turned, Jobs
<1>10. job' \in Jobs
  <2>1. IInv'
    BY MapCount
  <2> QED
    BY <2>1 DEF IInv, Types
<1>11. ASSUME ~strayed' PROVE Arranged(Objects(m, job'))
  <2>1. Arranged(Objects(mem, job))
    BY <1>1, <1>11 DEF Spaces
  <2>2. p = KERNEL => r \in Objects(mem, job)
    BY <1>1 DEF Objects, KernelJobs
  <2>3. KernelJobs(job') \subseteq KernelJobs(job)
    BY <1>4, <1>9 DEF KernelJobs
  <2>4. Objects(m, job') \subseteq Objects(mem, job)
    BY <1>8, <2>2, <2>3 DEF Objects
  <2> QED
    BY <2>1, <2>4 DEF Arranged
<1>12. CASE r.use # "image"
  <2>1. mem' = m
    BY <1>0, <1>12
  <2> QED
    BY <1>6, <1>11, <2>1, SpacesFrom
<1>13. CASE r.use = "image"
  <2>1. mem' = TempMap(m, r.n)
    BY <1>0, <1>13
  <2>2. p # KERNEL /\ m.regs[KERNEL] = mem.regs[KERNEL]
    BY <1>1, <1>8, <1>13, KernelIsProc DEF Proper
  <2>3. Fills(job', KERNEL) = {}
    BY <1>0, <1>5, <1>9, <1>13 DEF Fills, Filling
  <2>4. ASSUME NEW q \in Procs, q = KERNEL => ~strayed', Space(mem, job, q)
        PROVE  Space(mem', job', q)
    <3>1. Space(m, job', q)
      BY <1>6, <2>4
    <3>2. q = KERNEL => \A s \in m.regs[KERNEL] : Placed(s)
      BY <1>11, <2>4 DEF Arranged, Objects
    <3>3. IsFiniteSet(m.regs[KERNEL]) /\ m \in MemRec /\ r.n \in Nat
      BY <1>1, <1>2, <1>7, <2>2
    <3> QED
      BY <1>10, <2>1, <2>3, <3>1, <3>2, <3>3, TempSpace
  <2>5. mem'.regs = m.regs
    BY <1>2, <1>7, <2>1, TempMapIs
  <2>6. mem'.halt = "no" /\ ~strayed' => Arranged(Objects(mem', job'))
    BY <1>11, <2>5 DEF Objects
  <2> QED
    BY <2>4, <2>6, SpacesFrom
<1> QED
  BY <1>12, <1>13

LEMMA UnmapPagesSpaces ==
  ASSUME IInv, ~clash', Spaces(mem, job, strayed), NEW k \in KThreads,
         strayed' = (strayed \/ Strays(job'[k])), unmap_pages(k)
  PROVE  Spaces(mem', job', strayed')
<1>0. Running(k, "idle")
  BY DEF unmap_pages
<1>1. mem \in MemRec /\ job \in Jobs /\ mem.halt = "no" /\ job[k].pc = "idle"
  BY <1>0, RunningIs
<1>2. PICK r \in mem.regs[KERNEL] :
        /\ mem' = DropPages(mem, KERNEL, r.va, r.n)
        /\ Start(k, IF r.use \in AutoFree THEN "free" ELSE "unlink", KERNEL, r, <<>>)
  BY DEF unmap_pages
<1> DEFINE at == IF r.use \in AutoFree THEN "free" ELSE "unlink"
           X == NewJob(at, KERNEL, r, <<>>)
<1>3. KERNEL \in Procs /\ mem.regs[KERNEL] \in SUBSET RegionType
  BY <1>1, KernelIsProc, MemFields
<1>4. at \in {"free", "unlink"}
  OBVIOUS
<1>6. /\ mem'.regs = mem.regs /\ mem'.halt = "no"
      /\ mem'.pages = PagesDropped(mem.pages, KERNEL, r.va, r.n)
  BY <1>1, <1>2, <1>3, DropIs
<1>7. /\ job' = Turned(job, k, X) /\ X.p = KERNEL /\ X.r = r /\ Unlinks(X) /\ X.pc # "count"
      /\ ~Unlinks(job[k]) /\ job[k].pc # "count"
  BY <1>1, <1>2, <1>4 DEF Start, Turned, NewJob, Unlinks
<1> HIDE DEF X
<1>8. job'[k] = X /\ \A q \in KThreads \ {k} : job'[q] = job[q]
  BY <1>1, <1>7 DEF Turned, Jobs
<1>9. UnlinkingIn(job') = UnlinkingIn(job) \cup {r}
  BY <1>1, <1>7, UnlinkingChange
<1>10. \A p : Fills(job', p) = Fills(job, p) /\ \A q \in Fills(job, p) : job'[q] = job[q]
  BY <1>1, <1>7, FillsSame
<1>11. ASSUME NEW p \in Procs, Space(mem, job, p) PROVE Space(mem', job', p)
  <2>1. CASE p # KERNEL
    <3>1. mem'.pages[p] = mem.pages[p]
      BY <1>1, <1>6, <2>1, MemFields DEF PagesDropped
    <3>2. LiveIn(mem', job', p) = LiveIn(mem, job, p)
      BY <1>6, <2>1 DEF LiveIn
    <3> QED
      BY <1>1, <1>6, <1>10, <1>11, <3>1, <3>2, SpaceSame
  <2>2. CASE p = KERNEL
    <3> DEFINE S == Mapped(mem, job, p)
               S1 == Mapped(mem', job', p)
    <3>1. LiveIn(mem', job', p) = LiveIn(mem, job, p) \ {r}
      BY <1>6, <1>9, <2>2 DEF LiveIn
    <3>2. S \in SUBSET RegionType /\ LiveIn(mem, job, p) \subseteq mem.regs[p]
      BY <1>1, <1>3, <2>2, MappedIs
    <3>3. \A s \in LiveIn(mem, job, p) \ {r} : Disjoint(r, s)
      BY <1>11, <2>2, <3>2 DEF Space, ApartIn
    <3>4. \A q \in Fills(job, p) : Disjoint(r, job[q].r)
      BY <1>1, <1>11, <2>2, DisjointSwap DEF Space, FilledIn
    <3> HIDE DEF LiveIn, Fills
    <3>5. S1 = (LiveIn(mem, job, p) \ {r}) \cup {job[q].r : q \in Fills(job, p)}
      BY <1>10, <3>1 DEF Mapped
    <3>6. S = LiveIn(mem, job, p) \cup {job[q].r : q \in Fills(job, p)}
      BY DEF Mapped
    <3> HIDE DEF S, S1
    <3>7. /\ S1 \in SUBSET S /\ \A s \in S1 : Run(r.va, r.n) \cap Run(s.va, s.n) = {}
          /\ \A s \in S \ S1 : Run(s.va, s.n) \subseteq Run(r.va, r.n)
      BY <3>3, <3>4, <3>5, <3>6 DEF Disjoint
    <3>8. mem'.pages[p] = {e \in mem.pages[p] : e[1] \notin Run(r.va, r.n)}
      BY <1>1, <1>3, <1>6, <2>2, MemFields DEF PagesDropped
    <3>9. mem.pages[p] = PageEntries(S)
      BY <1>1, <1>11 DEF Space, PageEntries, S
    <3>10. mem'.pages[p] = PageEntries(S1)
      BY <3>2, <3>7, <3>8, <3>9, DropMatches
    <3>11. ApartIn(mem', p) /\ FilledIn(mem', job', p)
      BY <1>1, <1>6, <1>10, <1>11 DEF Space, ApartIn, FilledIn
    <3> QED
      BY <3>10, <3>11 DEF Space, PageEntries, S1
  <2> QED
    BY <2>1, <2>2
<1>12. ASSUME ~strayed' PROVE Arranged(Objects(mem', job'))
  <2>1. Arranged(Objects(mem, job))
    BY <1>1, <1>12 DEF Spaces
  <2>2. Objects(mem', job') \subseteq Objects(mem, job)
    BY <1>6, <1>7, <1>8 DEF Objects, KernelJobs
  <2> QED
    BY <2>1, <2>2 DEF Arranged
<1> QED
  BY <1>11, <1>12, SpacesFrom

LEMMA UnmapUnlinkSpaces ==
  ASSUME IInv, ~clash', Spaces(mem, job, strayed), NEW k \in KThreads,
         strayed' = (strayed \/ Strays(job'[k])), unmap_unlink(k)
  PROVE  Spaces(mem', job', strayed')
<1> DEFINE r == job[k].r
<1>0. Running(k, "unlink")
  BY DEF unmap_unlink
<1>1. mem \in MemRec /\ job \in Jobs /\ mem.halt = "no" /\ job[k].pc = "unlink"
  BY <1>0, RunningIs
<1>2. ~Filling(k, KERNEL) /\ \A q \in KThreads \ {k} : ~Unlinks(job[q])
  BY DEF unmap_unlink, Unlinks
<1>11. mem' = [mem EXCEPT !.regs[KERNEL] = @ \ {r}] /\ job' = Turned(job, k, Idle)
  <2>1. Entries(KERNEL, r) = {r}
    BY DEF Entries, IInv
  <2> QED
    BY <2>1 DEF unmap_unlink, Leave, Turned
<1>12. KERNEL \in Procs /\ mem.regs \in [Procs -> SUBSET RegionType]
  BY <1>1, KernelIsProc, MemFields
<1>13. /\ mem'.pages = mem.pages /\ mem'.halt = "no" /\ mem'.regs[KERNEL] = mem.regs[KERNEL] \ {r}
       /\ \A p \in Procs \ {KERNEL} : mem'.regs[p] = mem.regs[p]
  BY <1>1, <1>11, <1>12 DEF MemRec
<1>14. job'[k] = Idle /\ \A q \in KThreads \ {k} : job'[q] = job[q] /\ ~Unlinks(job[q])
  BY <1>1, <1>2, <1>11 DEF Turned, Jobs
<1>15. UnlinkingIn(job) = {r} /\ UnlinkingIn(job') = {}
  <2>1. \A x : x \in UnlinkingIn(job) <=> x = r
    BY <1>1, <1>14 DEF UnlinkingIn, Unlinks
  <2>2. \A x : x \notin UnlinkingIn(job')
    BY <1>14, IdleIs DEF UnlinkingIn, Unlinks
  <2> QED
    BY <2>1, <2>2
<1>16. \A p \in Procs : /\ LiveIn(mem', job', p) = LiveIn(mem, job, p)
                        /\ mem'.regs[p] \subseteq mem.regs[p]
  BY <1>13, <1>15 DEF LiveIn
<1>17. \A p : Fills(job', p) = Fills(job, p) /\ \A q \in Fills(job, p) : job'[q] = job[q]
  BY <1>1, <1>11, IdleIs, FillsSame
<1>18. ASSUME NEW p \in Procs, Space(mem, job, p) PROVE Space(mem', job', p)
  <2>1. ApartIn(mem', p) /\ FilledIn(mem', job', p)
    BY <1>1, <1>16, <1>17, <1>18 DEF Space, ApartIn, FilledIn
  <2> HIDE DEF LiveIn, Fills
  <2>2. Mapped(mem', job', p) = Mapped(mem, job, p)
    BY <1>16, <1>17 DEF Mapped
  <2> QED
    BY <1>1, <1>13, <1>18, <2>1, <2>2 DEF Space
<1>19. ASSUME ~strayed' PROVE Arranged(Objects(mem', job'))
  <2>1. Arranged(Objects(mem, job))
    BY <1>1, <1>19 DEF Spaces
  <2>2. KernelJobs(job') \subseteq KernelJobs(job)
    BY <1>14, IdleIs DEF KernelJobs
  <2>3. Objects(mem', job') \subseteq Objects(mem, job)
    BY <1>13, <2>2 DEF Objects
  <2> QED
    BY <2>1, <2>3 DEF Arranged
<1> QED
  BY <1>18, <1>19, SpacesFrom


LEMMA StackArranged ==
  ASSUME NEW m \in MemRec, NEW J, NEW m1, NEW b, StackGiven(m, KERNEL, m1, b), Arranged(Objects(m, J))
  PROVE  Arranged(Objects(m1, J))
<1> DEFINE r == StackRegion(m.regs[KERNEL], b)
<1>1. /\ m.regs[KERNEL] \in SUBSET RegionType /\ r \in RegionType /\ r.use = "stack"
      /\ m1.regs[KERNEL] = m.regs[KERNEL] \cup {r}
  BY KernelIsProc, MemFields DEF StackGiven, StackRegion
<1>2. Placed(r)
  BY <1>1, StackApart
<1> HIDE DEF r
<1>3. Objects(m1, J) = Objects(m, J) \cup {r}
  BY <1>1 DEF Objects
<1> QED
  BY <1>1, <1>2, <1>3 DEF Arranged

LEMMA CreateThreadSpaces ==
  ASSUME IInv, ~clash', Spaces(mem, job, strayed), NEW k \in KThreads,
         strayed' = (strayed \/ Strays(job'[k])), sched_create_thread(k)
  PROVE  Spaces(mem', job', strayed')
<1>0. Running(k, "idle") /\ job' = job
      /\ mem' = TempMap(AddStack(mem, KERNEL), STACK)
  BY DEF sched_create_thread
<1>1. /\ mem \in MemRec /\ job \in Jobs /\ mem.halt = "no" /\ job[k].pc = "idle"
      /\ IsFiniteSet(mem.regs[KERNEL]) /\ Sane(mem, job)
  BY <1>0, RunningIs
<1>3. ~Filling(k, KERNEL)
  BY DEF sched_create_thread, Interferes
<1> DEFINE a == AddStack(mem, KERNEL)
<1>100. mem' = TempMap(a, STACK) /\ KERNEL \in Procs /\ STACK \in Nat
  BY <1>0, KernelIsProc, SizesAre
<1>101. a \in MemRec /\ (StackRefused(mem, a) \/ \E b : StackGiven(mem, KERNEL, a, b))
  BY <1>1, <1>100, AddStackIs
<1> HIDE DEF a
<1>102. UnlinkBuffers(job)
  BY <1>1, UnlinkingBuffers
<1>103. Fills(job, KERNEL) = {}
  BY <1>1, <1>3 DEF Fills, Filling
<1>104. IsFiniteSet(a.regs[KERNEL])
  BY <1>1, <1>100, <1>101, FiniteStack
<1>105. mem'.regs = a.regs /\ (mem'.halt = "no" => a.halt = "no")
  BY <1>100, <1>101, TempMapIs
<1>106. ASSUME ~strayed', mem'.halt = "no" PROVE Arranged(Objects(a, job))
  <2>1. PICK b : StackGiven(mem, KERNEL, a, b)
    BY <1>101, <1>105, <1>106 DEF StackRefused
  <2>2. Arranged(Objects(mem, job))
    BY <1>1, <1>106 DEF Spaces
  <2> QED
    BY <1>1, <2>1, <2>2, StackArranged
<1>107. ASSUME NEW q \in Procs, q = KERNEL => ~strayed', Space(mem, job, q)
       PROVE  Space(mem', job', q)
  <2>1. Space(a, job, q)
    BY <1>1, <1>100, <1>101, <1>102, <1>103, <1>107, StackSpace
  <2>2. q = KERNEL /\ mem'.halt = "no" => \A r \in a.regs[KERNEL] : Placed(r)
    BY <1>106, <1>107 DEF Arranged, Objects
  <2>3. Space(mem', job, q)
    BY <1>1, <1>100, <1>101, <1>103, <1>104, <2>1, <2>2, TempSpace
  <2> QED
    BY <1>0, <2>3
<1>108. mem'.halt = "no" /\ ~strayed' => Arranged(Objects(mem', job'))
  BY <1>0, <1>105, <1>106 DEF Objects
<1> QED
  BY <1>107, <1>108, SpacesFrom

LEMMA ElfLoadSpaces ==
  ASSUME IInv, ~clash', Spaces(mem, job, strayed), NEW k \in KThreads,
         strayed' = (strayed \/ Strays(job'[k])), elf_load_from_memory(k)
  PROVE  Spaces(mem', job', strayed')
<1>0. Running(k, "idle")
  BY DEF elf_load_from_memory
<1>1. /\ mem \in MemRec /\ job \in Jobs /\ mem.halt = "no" /\ job[k].pc = "idle"
      /\ IsFiniteSet(mem.regs[KERNEL]) /\ Sane(mem, job)
  BY <1>0, RunningIs
<1>3. ~Filling(k, KERNEL)
  BY DEF elf_load_from_memory, Interferes
<1>101. PICK p \in Users, image \in Images :
         /\ mem.regs[p] = {}
         /\ mem' = TempMap(AddStack(AddStack(mem, p), p), STACK)
         /\ Start(k, "map", p, KernelRegion, image)
  BY DEF elf_load_from_memory
<1> DEFINE a == AddStack(mem, p)
           c == AddStack(a, p)
           X == NewJob("map", p, KernelRegion, image)
<1>102. p \in Procs /\ KERNEL \in Procs /\ p # KERNEL /\ mem' = TempMap(c, STACK) /\ STACK \in Nat
  BY <1>101, KernelIsProc, SizesAre
<1>103. job' = Turned(job, k, X)
  BY <1>101 DEF Start, Turned, NewJob
<1>104. X.pc = "map" /\ X.p = p /\ ~Unlinks(X) /\ KeepsUnlinking(job[k], X)
  BY <1>1 DEF NewJob, KeepsUnlinking, Unlinks
<1> HIDE DEF X, c
<1>105. a \in MemRec /\ (StackRefused(mem, a) \/ \E b : StackGiven(mem, p, a, b))
  BY <1>1, <1>102, AddStackIs
<1> HIDE DEF a
<1>106. c \in MemRec /\ (StackRefused(a, c) \/ \E b : StackGiven(a, p, c, b))
  BY <1>102, <1>105, AddStackIs DEF c
<1>107. job'[k] = X /\ \A q \in KThreads \ {k} : job'[q] = job[q]
  BY <1>1, <1>103 DEF Turned, Jobs
<1>108. job' \in Jobs /\ UnlinkBuffers(job')
  <2>1. IInv'
    BY ElfLoad
  <2>2. UnlinkBuffers(job)
    BY <1>1, UnlinkingBuffers
  <2> QED
    BY <1>104, <1>107, <2>1, <2>2 DEF IInv, Types, UnlinkBuffers
<1>109. Fills(job', p) = {} /\ Fills(job', KERNEL) = {}
  <2>1. ASSUME NEW q \in KThreads, job[q].pc = "count", job[q].p = p PROVE FALSE
    <3>1. Loads(mem.regs[p], job[q])
      BY <1>1, <1>101, <2>1 DEF Sane, Loading
    <3> QED
      BY <1>101, <3>1 DEF Loads
  <2> QED
    BY <1>3, <1>104, <1>107, <2>1 DEF Fills, Filling
<1>110. IsFiniteSet(c.regs[KERNEL])
  <2>1. IsFiniteSet(a.regs[KERNEL])
    BY <1>1, <1>102, <1>105, FiniteStack
  <2> QED
    BY <1>102, <1>105, <1>106, <2>1, FiniteStack
<1>111. /\ mem'.regs = c.regs /\ c.regs[KERNEL] = mem.regs[KERNEL]
        /\ mem'.halt = "no" => mem.halt = "no"
  <2>1. mem'.regs = c.regs
    BY <1>102, <1>106, TempMapIs
  <2>2. a.regs[KERNEL] = mem.regs[KERNEL]
    BY <1>1, <1>102, <1>105, MemFields DEF StackRefused, StackGiven
  <2>3. c.regs[KERNEL] = a.regs[KERNEL]
    BY <1>102, <1>105, <1>106, MemFields DEF StackRefused, StackGiven
  <2> QED
    BY <1>1, <2>1, <2>2, <2>3
<1>112. ASSUME ~strayed' PROVE Arranged(Objects(mem', job'))
  <2>1. Arranged(Objects(mem, job))
    BY <1>1, <1>112 DEF Spaces
  <2>2. KernelJobs(job') \subseteq KernelJobs(job)
    BY <1>102, <1>104, <1>107 DEF KernelJobs
  <2>3. Objects(mem', job') \subseteq Objects(mem, job)
    BY <1>111, <2>2 DEF Objects
  <2> QED
    BY <2>1, <2>3 DEF Arranged
<1>113. ASSUME NEW q \in Procs, q = KERNEL => ~strayed', Space(mem, job, q)
        PROVE  Space(mem', job', q)
  <2>1. Space(mem, job', q)
    BY <1>1, <1>103, <1>104, <1>113, QuietSpaces
  <2>2. Space(a, job', q)
    BY <1>1, <1>102, <1>105, <1>108, <1>109, <2>1, StackSpace
  <2>3. Space(c, job', q)
    BY <1>102, <1>105, <1>106, <1>108, <1>109, <2>2, StackSpace
  <2>4. q = KERNEL => \A r \in c.regs[KERNEL] : Placed(r)
    BY <1>111, <1>112, <1>113 DEF Arranged, Objects
  <2> QED
    BY <1>102, <1>106, <1>108, <1>109, <1>110, <2>3, <2>4, TempSpace
<1> QED
  BY <1>112, <1>113, SpacesFrom

(* Behind the kernel's last region there is a slot. *)
LEMMA BehindLast ==
  ASSUME IInv, mem.halt = "no", Arranged(Objects(mem, job)), ApartIn(mem, KERNEL), HeapExists,
         NEW u \in {"fdc", "lfb"}, ~HasRegion(u), NEW r \in RegionType, r.use = u,
         r.n = IF u = "fdc" THEN DMA ELSE LFB, r.va = vmm_get_address_space_end(mem),
         Run(r.va, r.n) \cap Run(TEMP - DMA, DMA) = {}
  PROVE  /\ Placed(r)
         /\ \A o \in Objects(mem, job) : o.use \in {"fdc", "lfb"} => Off(r, o) /\ Off(o, r)
<1> DEFINE n == IF u = "fdc" THEN DMA ELSE LFB
           other == IF u = "fdc" THEN LFB ELSE DMA
<1>a. /\ r.n = n
      /\ \/ u = "fdc" /\ n = DMA /\ other = LFB
         \/ u = "lfb" /\ n = LFB /\ other = DMA
  <2>1. CASE u = "fdc"
    <3>1. n = DMA /\ other = LFB
      BY <2>1
    <3>2. r.n = n
      OBVIOUS
    <3> HIDE DEF n, other
    <3> QED
      BY <2>1, <3>1, <3>2
  <2>2. CASE u = "lfb"
    <3>1. n = LFB /\ other = DMA
      BY <2>2
    <3>2. r.n = n
      OBVIOUS
    <3> HIDE DEF n, other
    <3> QED
      BY <2>2, <3>1, <3>2
  <2> QED
    BY <2>1, <2>2
<1> HIDE DEF n, other
<1> USE <1>a
<1> DEFINE rs == mem.regs[KERNEL]
           va == r.va
<1>0. /\ mem \in MemRec /\ job \in Jobs /\ Sane(mem, job) /\ IsFiniteSet(rs) /\ rs # {}
      /\ rs \in SUBSET RegionType /\ n \in Nat \ {0} /\ other \in Nat \ {0} /\ va \in Nat
  BY KernelIsProc, MemFields, SizesAre DEF IInv, Types, HeapExists, RegionType
<1>1. PICK t \in rs : va = t.va + t.n /\ \A s \in rs : s.va <= t.va
  BY <1>0, EndIs
<1>2. rs \subseteq Objects(mem, job) /\ \A o \in Objects(mem, job) : o \in RegionType /\ Placed(o)
  BY <1>0, ObjectsAre DEF Arranged, Objects
<1>3. \A o \in Objects(mem, job) : o.use # u
  BY DEF HasRegion, Objects, KernelJobs
<1>4. t.va \in Nat /\ t.n \in Nat \ {0} /\ KBASE + KSIZE <= t.va
  <2>1. PICK h \in rs : h.use = "heap"
    BY DEF HeapExists
  <2>2. h.va = KBASE + KSIZE
    BY <1>2, <2>1 DEF Placed
  <2> QED
    BY <1>1, <1>2, <2>2, PlacedIs
<1>5. va + n <= TEMP - DMA \/ TEMP <= va
  <2> SUFFICES ASSUME ~(va + n <= TEMP - DMA), va < TEMP PROVE FALSE
    BY <1>0, SizesAre
  <2>1. \/ va \in Run(va, n) /\ va \in Run(TEMP - DMA, DMA)
        \/ TEMP - DMA \in Run(va, n) /\ TEMP - DMA \in Run(TEMP - DMA, DMA)
    BY <1>0, SizesAre DEF Run
  <2> QED
    BY <2>1
<1>6. \A o \in Objects(mem, job) : o.use \in {"fdc", "lfb"} =>
        o.n = other /\ Slot(o, other, n) /\ o.va \in Nat
  BY <1>2, <1>3, PlacedIs DEF Placed, Slot
<1>7. \/ t.use = "heap" /\ va = HeapEnd
      \/ t.use = "sb16" /\ va = TEMP
      \/ t.use \in {"fdc", "lfb"} /\ va = t.va + other
  <2>1. t.use \in {"heap", "sb16", "fdc", "lfb"}
    BY <1>1, <1>2, <1>4, PlacedIs, SizesAre
  <2>2. t.use = "heap" => va = HeapEnd
    BY <1>1, <1>2, SizesAre DEF Placed
  <2>3. t.use = "sb16" => va = TEMP
    BY <1>1, <1>2, SizesAre DEF Placed
  <2>4. t.use \in {"fdc", "lfb"} => va = t.va + other
    BY <1>1, <1>2, <1>6
  <2> QED
    BY <2>1, <2>2, <2>3, <2>4
<1>8. Slot(r, n, other)
  <2>1. CASE va \in {HeapEnd, TEMP}
    BY <1>5, <2>1, SizesAre DEF Slot
  <2>2. CASE t.use \in {"fdc", "lfb"} /\ va = t.va + other
    <3>1. HeapEnd <= t.va /\ (t.va + other <= TEMP - DMA \/ TEMP <= t.va)
      BY <1>1, <1>2, <1>6, <2>2 DEF Slot
    <3>2. HeapEnd + other <= va /\ (va < TEMP \/ TEMP + other <= va)
      BY <1>0, <1>4, <2>2, <3>1, SizesAre
    <3> QED
      BY <1>0, <1>5, <3>2, SizesAre DEF Slot
  <2> QED
    BY <1>7, <2>1, <2>2
<1>9. ASSUME NEW o \in Objects(mem, job), o.use \in {"fdc", "lfb"} PROVE Off(r, o) /\ Off(o, r)
  <2>0. o.va \in Nat /\ o.n = other /\ Slot(o, other, n) /\ o \in RegionType
    BY <1>2, <1>6, <1>9
  <2>1. CASE o \in rs
    <3>1. o.va + o.n <= va
      <4>1. o = t \/ Apart(o, t)
        BY <1>0, <1>1, <1>4, <2>0, <2>1, DisjointIsApart DEF ApartIn
      <4> QED
        BY <1>0, <1>1, <1>4, <2>0, <2>1, <4>1 DEF Apart
    <3> QED
      BY <3>1 DEF Off, Apart
  <2>2. CASE o \notin rs
    <3>1. PICK q \in KThreads : job[q].pc # "idle" /\ job[q].p = KERNEL /\ o = job[q].r
      BY <2>2 DEF Objects, KernelJobs
    <3>2. ~Unlinks(job[q]) /\ \A s \in rs : s.use # o.use
      BY <1>0, <1>9, <2>2, <3>1 DEF Sane, BuffersOnce, Buffers
    <3>3. t.use \notin {"fdc", "lfb"}
      <4>1. t.use # u /\ o.use # u /\ t.use # o.use
        BY <1>1, <1>2, <1>3, <3>2
      <4> QED
        BY <1>9, <4>1
    <3>4. va = HeapEnd \/ va = TEMP
      BY <1>7, <3>3
    <3> QED
      BY <1>0, <1>5, <2>0, <3>4, SizesAre DEF Slot, Off, Apart
  <2> QED
    BY <2>1, <2>2
<1>10. Placed(r)
  BY <1>8 DEF Placed
<1> QED
  BY <1>9, <1>10

(* A driver begins to make its buffer. *)
LEMMA BufferSpaces ==
  ASSUME IInv, ~clash', Spaces(mem, job, strayed), NEW k \in KThreads,
         strayed' = (strayed \/ Strays(job'[k])), Running(k, "idle"), mem' = mem,
         NEW at \in {"find", "map"}, NEW r \in RegionType, Start(k, at, KERNEL, r, <<>>), HeapExists,
         NEW u, r.use = u, ~HasRegion(u),
         \/ u = "sb16" /\ r.n = DMA /\ r.va = TEMP - DMA
         \/ u = "fdc" /\ r.n = DMA /\ r.va = vmm_get_address_space_end(mem)
         \/ u = "lfb" /\ r.n = LFB /\ r.va = vmm_get_address_space_end(mem)
  PROVE  Spaces(mem', job', strayed')
<1> DEFINE X == NewJob(at, KERNEL, r, <<>>)
<1>1. job \in Jobs /\ mem.halt = "no" /\ job[k].pc = "idle"
  BY RunningIs
<1>2. job' = Turned(job, k, X)
  BY DEF Start, Turned, NewJob
<1>3. X.pc = at /\ X.p = KERNEL /\ X.r = r /\ X.pc \notin {"idle", "count"}
      /\ KeepsUnlinking(job[k], X)
  BY <1>1 DEF NewJob, KeepsUnlinking, Unlinks
<1> HIDE DEF X
<1>4. \A p \in Procs : Space(mem, job, p) => Space(mem', job', p)
  BY <1>1, <1>2, <1>3, QuietSpaces
<1>5. job'[k] = X /\ \A q \in KThreads \ {k} : job'[q] = job[q]
  BY <1>1, <1>2 DEF Turned, Jobs
<1>6. ASSUME ~strayed' PROVE Arranged(Objects(mem', job'))
  <2>1. Arranged(Objects(mem, job)) /\ ApartIn(mem, KERNEL)
    BY <1>1, <1>6, KernelIsProc DEF Spaces, Space
  <2>2. Objects(mem', job') \subseteq Objects(mem, job) \cup {r}
    BY <1>3, <1>5 DEF Objects, KernelJobs
  <2>3. \A o \in Objects(mem, job) : o.use # u
    BY DEF HasRegion, Objects, KernelJobs
  <2>4. CASE u = "sb16"
    <3>1. Placed(r)
      BY <2>4 DEF Placed
    <3> QED
      BY <2>1, <2>2, <2>4, <3>1 DEF Arranged
  <2>5. CASE u \in {"fdc", "lfb"}
    <3>1. Run(r.va, r.n) \cap Run(TEMP - DMA, DMA) = {}
      BY <1>3, <1>5, <1>6, <2>5 DEF Strays
    <3>2. r.n = IF u = "fdc" THEN DMA ELSE LFB
      BY <2>5
    <3>3. /\ Placed(r)
          /\ \A o \in Objects(mem, job) : o.use \in {"fdc", "lfb"} => Off(r, o) /\ Off(o, r)
      BY <1>1, <2>1, <2>5, <3>1, <3>2, BehindLast
    <3>4. \A o \in Objects(mem, job) \cup {r} : Placed(o)
      BY <2>1, <3>3 DEF Arranged
    <3>5. \A f, l \in Objects(mem, job) \cup {r} : f.use = "fdc" /\ l.use = "lfb" => Off(f, l)
      BY <2>1, <3>3 DEF Arranged
    <3> QED
      BY <2>2, <3>4, <3>5 DEF Arranged
  <2> QED
    BY <2>4, <2>5
<1> QED
  BY <1>4, <1>6, SpacesFrom

LEMMA DriverDmaSpaces ==
  ASSUME IInv, ~clash', Spaces(mem, job, strayed), NEW k \in KThreads,
         strayed' = (strayed \/ Strays(job'[k])), driver_dma(k)
  PROVE  Spaces(mem', job', strayed')
<1>1. Running(k, "idle") /\ mem' = mem /\ HeapExists
  BY DEF driver_dma
<1>2. PICK u \in {"sb16", "fdc"} :
        /\ ~HasRegion(u)
        /\ Start(k, "find", KERNEL,
                 Region(IF u = "sb16" THEN TEMP - DMA ELSE vmm_get_address_space_end(mem), DMA, u),
                 <<>>)
  BY DEF driver_dma
<1> DEFINE va == IF u = "sb16" THEN TEMP - DMA ELSE vmm_get_address_space_end(mem)
           r == Region(va, DMA, u)
<1>3. vmm_get_address_space_end(mem) \in Nat
  <2>1. mem.regs[KERNEL] # {}
    BY <1>1, RunningIs DEF Sane
  <2> QED
    BY <1>1, <2>1, RunningIs, EndIs
<1>4. va \in Nat /\ DMA \in Nat /\ NoBlock \in Nat \cup {NoBlock}
  BY <1>3, MemoryAssumption
<1>5. u \in Uses
  BY DEF Uses, AutoFree
<1>6. va = IF u = "sb16" THEN TEMP - DMA ELSE vmm_get_address_space_end(mem)
  OBVIOUS
<1> HIDE DEF va
<1>7. r \in RegionType /\ r.use = u /\ r.n = DMA /\ r.va = va
  BY <1>4, <1>5, RegionIs DEF Region
<1>8. Start(k, "find", KERNEL, r, <<>>)
  BY <1>2 DEF va
<1> HIDE DEF r
<1> QED
  BY <1>1, <1>2, <1>6, <1>7, <1>8, BufferSpaces

LEMMA DriverLfbSpaces ==
  ASSUME IInv, ~clash', Spaces(mem, job, strayed), NEW k \in KThreads,
         strayed' = (strayed \/ Strays(job'[k])), driver_lfb(k)
  PROVE  Spaces(mem', job', strayed')
<1> DEFINE va == vmm_get_address_space_end(mem)
           r == [Region(va, LFB, "lfb") EXCEPT !.pa = W * Words]
<1>1. /\ Running(k, "idle") /\ mem' = mem /\ HeapExists /\ ~HasRegion("lfb")
      /\ Start(k, "map", KERNEL, r, <<>>)
  BY DEF driver_lfb
<1>2. va \in Nat
  <2>1. mem.regs[KERNEL] # {}
    BY <1>1, RunningIs DEF Sane
  <2> QED
    BY <1>1, <2>1, RunningIs, EndIs
<1> HIDE DEF va
<1>3. LFB \in Nat /\ W * Words \in Nat /\ "lfb" \in Uses
  BY MemoryAssumption, PhysAssumption DEF Uses
<1>4. r = [va |-> va, pa |-> W * Words, n |-> LFB, use |-> "lfb"]
  BY DEF Region
<1> HIDE DEF r
<1>5. r \in RegionType /\ r.use = "lfb" /\ r.n = LFB /\ r.va = va
  BY <1>2, <1>3, <1>4, RegionIs
<1> QED
  BY <1>1, <1>5, BufferSpaces DEF va

(* The first stacks of the kernel *)
LEMMA FirstStack ==
  ASSUME NEW m \in MemRec, NEW J \in Jobs, \A k \in KThreads : J[k].pc = "idle", NEW m1,
         m1 \in MemRec, StackRefused(m, m1) \/ \E b : StackGiven(m, KERNEL, m1, b), Spaces(m, J, FALSE)
  PROVE  Spaces(m1, J, FALSE)
<1>1. UnlinkBuffers(J) /\ Fills(J, KERNEL) = {}
  BY DEF UnlinkBuffers, Fills, Unlinks
<1>2. \A q \in Procs : Space(m, J, q)
  BY DEF Spaces
<1>3. \A q \in Procs : Space(m1, J, q)
  BY <1>1, <1>2, KernelIsProc, StackSpace
<1>4. ASSUME m1.halt = "no" PROVE Arranged(Objects(m1, J))
  <2>1. PICK b : StackGiven(m, KERNEL, m1, b)
    BY <1>4 DEF StackRefused
  <2>2. Arranged(Objects(m, J))
    BY <2>1 DEF StackGiven, Spaces
  <2> QED
    BY <2>1, <2>2, StackArranged
<1> QED
  BY <1>3, <1>4 DEF Spaces

LEMMA InitSpaces == Init => Spaces(mem, job, strayed)
<1> SUFFICES ASSUME Init PROVE Spaces(mem, job, strayed)
  OBVIOUS
<1> DEFINE m0 == MapRegion(Empty, KERNEL, KernelRegion)
           m1 == AddStack(m0, KERNEL)
           m2 == AddStack(m1, KERNEL)
<1>0. KERNEL \in Procs /\ job = [k \in KThreads |-> Idle] /\ mem = m2 /\ strayed = FALSE
  BY KernelIsProc DEF Init
<1>1. job \in Jobs /\ \A k \in KThreads : job[k].pc = "idle"
  BY <1>0, IdleIs DEF Jobs
<1>2. KernelRegion \in RegionType /\ Placed(KernelRegion) /\ KernelRegion.use = "kernel"
  BY KernelRegionIs DEF Placed
<1>3. /\ m0 \in MemRec /\ Empty.regs = [p \in Procs |-> {}]
      /\ \/ m0.halt = "regions" /\ m0.regs = Empty.regs
         \/ /\ m0.halt = "no" /\ m0.regs = [Empty.regs EXCEPT ![KERNEL] = @ \cup {KernelRegion}]
            /\ m0.pages = PagesPut([p \in Procs |-> {}], KERNEL, KernelRegion)
  BY FirstRegion
<1> HIDE DEF m0
<1>4. \A p \in Procs : Fills(job, p) = {} /\ LiveIn(m0, job, p) = m0.regs[p]
  BY <1>1 DEF Fills, LiveIn, UnlinkingIn
<1>5. \A p \in Procs : Mapped(m0, job, p) = m0.regs[p]
  BY <1>1, <1>3, <1>4, MappedIs
<1>6. /\ \A p \in Procs \ {KERNEL} : m0.regs[p] = {}
      /\ m0.regs[KERNEL] \subseteq {KernelRegion}
      /\ m0.halt = "no" => m0.regs[KERNEL] = {KernelRegion}
  BY <1>0, <1>3
<1>7. \A p \in Procs : ApartIn(m0, p) /\ FilledIn(m0, job, p)
  BY <1>4, <1>6 DEF ApartIn, FilledIn
<1>8. ASSUME m0.halt = "no" PROVE \A p \in Procs : m0.pages[p] = PageEntries(m0.regs[p])
  <2>1. \A p \in Procs \ {KERNEL} : m0.pages[p] = {}
    BY <1>3, <1>8 DEF PagesPut
  <2>2. m0.pages[KERNEL] = PagesOf(KernelRegion)
    BY <1>0, <1>3, <1>8 DEF PagesPut
  <2> HIDE DEF PagesOf
  <2> QED
    BY <1>6, <1>8, <2>1, <2>2 DEF PageEntries
<1>9. \A p \in Procs : Space(m0, job, p)
  BY <1>5, <1>7, <1>8 DEF Space, PageEntries
<1>10. Arranged(Objects(m0, job))
  <2>1. Objects(m0, job) \subseteq {KernelRegion}
    BY <1>1, <1>6 DEF Objects, KernelJobs
  <2> QED
    BY <1>2, <2>1 DEF Arranged
<1>11. Spaces(m0, job, FALSE)
  BY <1>9, <1>10 DEF Spaces
<1> HIDE DEF m1
<1>12. m1 \in MemRec /\ (StackRefused(m0, m1) \/ \E b : StackGiven(m0, KERNEL, m1, b))
  BY <1>0, <1>3, AddStackIs DEF m1
<1>13. Spaces(m1, job, FALSE)
  BY <1>1, <1>3, <1>11, <1>12, FirstStack
<1> HIDE DEF m2
<1>14. m2 \in MemRec /\ (StackRefused(m1, m2) \/ \E b : StackGiven(m1, KERNEL, m2, b))
  BY <1>0, <1>12, AddStackIs DEF m2
<1>15. Spaces(m2, job, FALSE)
  BY <1>1, <1>12, <1>13, <1>14, FirstStack
<1> QED
  BY <1>0, <1>15

LEMMA StepSpaces ==
  ASSUME SInv, ~clash', [Next]_vars
  PROVE  SInv'
<1> USE DEF SInv
<1>0. IInv' /\ Spaces(mem, job, strayed)' = Spaces(mem', job', strayed')
  BY StepInv
<1>1. ASSUME UNCHANGED vars PROVE Spaces(mem', job', strayed')
  <2>1. mem' = mem /\ job' = job /\ strayed' = strayed
    BY <1>1 DEF vars
  <2> QED
    BY <2>1
<1>2. ASSUME NEW k \in KThreads, Step(k), strayed' = (strayed \/ Strays(job'[k]))
      PROVE  Spaces(mem', job', strayed')
  <2>1. CASE sched_create_thread(k)
    BY <1>2, <2>1, CreateThreadSpaces
  <2>2. CASE vmm_create_heap(k)
    BY <1>2, <2>2, CreateHeapSpaces
  <2>3. CASE driver_dma(k)
    BY <1>2, <2>3, DriverDmaSpaces
  <2>4. CASE driver_lfb(k)
    BY <1>2, <2>4, DriverLfbSpaces
  <2>5. CASE elf_load_from_memory(k)
    BY <1>2, <2>5, ElfLoadSpaces
  <2>6. CASE alloc_find(k)
    BY <1>2, <2>6, AllocFindSpaces
  <2>7. CASE alloc_test(k)
    BY <1>2, <2>7, AllocTestSpaces
  <2>8. CASE alloc_set(k)
    BY <1>2, <2>8, AllocSetSpaces
  <2>9. CASE alloc_limit(k)
    BY <1>2, <2>9, AllocLimitSpaces
  <2>10. CASE free_block(k) /\ UNCHANGED clash
    BY <1>2, <2>10, FreeBlockSpaces
  <2>11. CASE map_test(k)
    BY <1>2, <2>11, MapTestSpaces
  <2>12. CASE map_fill(k)
    BY <1>2, <2>12, MapFillSpaces
  <2>13. CASE map_count(k)
    BY <1>2, <2>13, MapCountSpaces
  <2>14. CASE unmap_pages(k)
    BY <1>2, <2>14, UnmapPagesSpaces
  <2>15. CASE unmap_unlink(k)
    BY <1>2, <2>15, UnmapUnlinkSpaces
  <2> QED
    BY <1>2, <2>1, <2>2, <2>3, <2>4, <2>5, <2>6, <2>7, <2>8, <2>9, <2>10, <2>11, <2>12, <2>13, <2>14, <2>15 DEF Step, Alone
<1>3. Spaces(mem', job', strayed')
  BY <1>1, <1>2 DEF Next
<1> QED
  BY <1>0, <1>3

(* What the invariant says of the address spaces *)
LEMMA SpacesMean ==
  ASSUME SInv
  PROVE  RegionsDisjoint /\ PagesMatchRegions
<1>1. \A p \in Procs : Settled(p) => Space(mem, job, p)
  BY DEF SInv, Spaces, Settled
<1>2. RegionsDisjoint
  BY <1>1 DEF RegionsDisjoint, Space, ApartIn, Disjoint
<1>3. ASSUME NEW p \in Procs
      PROVE  /\ Live(p) = LiveIn(mem, job, p)
             /\ {job[k].r : k \in {q \in KThreads : job[q].pc = "count" /\ job[q].p = p}}
                  = {job[k].r : k \in Fills(job, p)}
  BY DEF Live, LiveIn, Unlinking, UnlinkingIn, Fills
<1>4. ASSUME mem.halt = "no", NEW p \in Procs, Settled(p)
      PROVE  mem.pages[p] = UNION {PagesOf(r) : r \in Live(p) \cup
               {job[k].r : k \in {q \in KThreads : job[q].pc = "count" /\ job[q].p = p}}}
  <2>1. mem.pages[p] = UNION {PagesOf(r) : r \in Mapped(mem, job, p)}
    BY <1>1, <1>4 DEF Space
  <2> QED
    BY <1>3, <2>1 DEF Mapped
<1>5. PagesMatchRegions
  BY <1>4 DEF PagesMatchRegions
<1> QED
  BY <1>2, <1>5

-----------------------------------------------------------------------------
(* What every step keeps, even after two threads have met in a table *)

(* What the next step of a job needs of its blocks *)
Ready(j) ==
  /\ j.pc \in {"find", "test", "set"} => j.i < j.r.n
  /\ j.pc \in {"test", "set"} => j.r.pa \in Nat /\ j.r.pa + j.r.n <= W * Words
  /\ j.pc \in {"map", "fill", "count"} => j.r.pa \in Nat

Weak(m, J) == Types(m, J) /\ \A k \in KThreads : J[k].pc # "idle" => Ready(J[k])

WInv == Weak(mem, job) /\ strayed \in BOOLEAN /\ clash \in BOOLEAN

LEMMA AtIs ==
  ASSUME WInv, NEW k \in KThreads
  PROVE  /\ mem \in MemRec /\ job \in Jobs /\ IsFiniteSet(mem.regs[KERNEL])
         /\ job[k].pc # "idle" => /\ job[k] \in JobRec /\ job[k].p \in Procs
                                  /\ job[k].r \in RegionType /\ Ready(job[k])
<1>1. mem \in MemRec /\ job \in Jobs /\ IsFiniteSet(mem.regs[KERNEL])
  BY DEF WInv, Weak, Types
<1>2. job[k] \in {Idle} \cup JobRec
  BY <1>1 DEF Jobs
<1>3. job[k].pc # "idle" => job[k] \in JobRec
  BY <1>2, JobCases
<1>4. job[k] \in JobRec => job[k].p \in Procs /\ job[k].r \in RegionType
  BY DEF JobRec
<1> QED
  BY <1>1, <1>3, <1>4 DEF WInv, Weak

LEMMA WeakTurn ==
  ASSUME WInv, NEW k \in KThreads, NEW m \in MemRec, IsFiniteSet(m.regs[KERNEL]), mem' = m,
         NEW X, job' = Turned(job, k, X), X = Idle \/ (X \in JobRec /\ Ready(X))
  PROVE  Weak(mem', job')
<1>1. job \in Jobs
  BY AtIs
<1>2. X \in {Idle} \cup JobRec
  OBVIOUS
<1>3. job' \in Jobs
  BY <1>1, <1>2, JobsIs
<1>4. job'[k] = X /\ \A q \in KThreads \ {k} : job'[q] = job[q]
  BY <1>1 DEF Turned, Jobs
<1>5. ASSUME NEW q \in KThreads, job'[q].pc # "idle" PROVE Ready(job'[q])
  <2>1. CASE q = k
    BY <1>4, <1>5, <2>1, IdleIs
  <2>2. CASE q # k
    BY <1>4, <1>5, <2>2 DEF WInv, Weak
  <2> QED
    BY <2>1, <2>2
<1> QED
  BY <1>3, <1>5 DEF Weak, Types

LEMMA WeakStay ==
  ASSUME WInv, NEW m \in MemRec, IsFiniteSet(m.regs[KERNEL]), mem' = m, job' = job
  PROVE  Weak(mem', job')
  BY DEF WInv, Weak, Types

LEMMA WeakLeave ==
  ASSUME WInv, NEW k \in KThreads, Leave(k), mem' = mem
  PROVE  Weak(mem', job')
<1>1. job' = Turned(job, k, Idle)
  BY DEF Leave, Turned
<1> QED
  BY <1>1, AtIs, WeakTurn

LEMMA WeakStop ==
  ASSUME WInv, NEW why \in Halts, Stop(why)
  PROVE  Weak(mem', job')
<1>1. mem \in MemRec /\ IsFiniteSet(mem.regs[KERNEL]) /\ mem' = Halt(mem, why) /\ job' = job
  BY DEF Stop, WInv, Weak, Types
<1>2. Halt(mem, why) \in MemRec /\ Halt(mem, why).regs = mem.regs
  BY <1>1, HaltIs
<1> QED
  BY <1>1, <1>2, WeakStay

LEMMA WeakFails ==
  ASSUME WInv, NEW k \in KThreads, NEW why \in Halts, Fails(k, why)
  PROVE  Weak(mem', job')
  BY WeakStop, WeakLeave DEF Fails

LEMMA WeakStart ==
  ASSUME WInv, NEW k \in KThreads, NEW at \in Steps, NEW p \in Procs, NEW r \in RegionType,
         NEW rest \in Seq(Segment), Start(k, at, p, r, rest),
         at = "find" => 0 < r.n, at \notin {"test", "set", "fill", "count"}, at = "map" => r.pa \in Nat,
         mem' \in MemRec, IsFiniteSet(mem'.regs[KERNEL])
  PROVE  Weak(mem', job')
<1> DEFINE X == NewJob(at, p, r, rest)
<1> HIDE DEF X
<1>1. Started(X, at, p, r, rest) /\ job' = Turned(job, k, X)
  BY StartIs DEF X
<1>2. X \in JobRec /\ Ready(X)
  BY <1>1 DEF Started, Ready
<1> QED
  BY <1>1, <1>2, WeakTurn

LEMMA WeakAt ==
  ASSUME WInv, NEW k \in KThreads, job[k].pc # "idle", NEW at \in Steps, Goto(k, at),
         Ready(JobAt(job[k], at)), NEW m \in MemRec, IsFiniteSet(m.regs[KERNEL]), mem' = m
  PROVE  Weak(mem', job')
<1> DEFINE X == JobAt(job[k], at)
<1>1. job \in Jobs /\ job[k] \in JobRec
  BY AtIs
<1>2. job' = Turned(job, k, X)
  BY <1>1 DEF Goto, Turned, JobAt, Jobs
<1>3. X \in JobRec
  BY <1>1, JobAtIs DEF Becomes
<1> HIDE DEF X
<1>4. Ready(X)
  BY DEF X
<1> QED
  BY <1>2, <1>3, <1>4, WeakTurn

LEMMA WeakStack ==
  ASSUME NEW m \in MemRec, IsFiniteSet(m.regs[KERNEL]), NEW p \in Procs
  PROVE  /\ AddStack(m, p) \in MemRec /\ IsFiniteSet(AddStack(m, p).regs[KERNEL])
<1> DEFINE a == AddStack(m, p)
<1> HIDE DEF a
<1>1. a \in MemRec /\ (StackRefused(m, a) \/ \E b : StackGiven(m, p, a, b))
  BY AddStackIs DEF a
<1>2. IsFiniteSet(a.regs[KERNEL])
  BY <1>1, FiniteStack
<1> QED
  BY <1>1, <1>2 DEF a

LEMMA WeakTemp ==
  ASSUME NEW m \in MemRec, IsFiniteSet(m.regs[KERNEL]), NEW n
  PROVE  TempMap(m, n) \in MemRec /\ IsFiniteSet(TempMap(m, n).regs[KERNEL])
<1>1. TempMap(m, n) \in MemRec /\ TempMap(m, n).regs = m.regs
  BY TempMapIs, KernelIsProc
<1> QED
  BY <1>1

LEMMA WeakCreateThread ==
  ASSUME WInv, NEW k \in KThreads, sched_create_thread(k)
  PROVE  Weak(mem', job')
<1> DEFINE a == AddStack(mem, KERNEL)
<1>1. mem' = TempMap(a, STACK) /\ job' = job
  BY DEF sched_create_thread
<1>2. a \in MemRec /\ IsFiniteSet(a.regs[KERNEL])
  BY AtIs, KernelIsProc, WeakStack
<1> HIDE DEF a
<1>3. TempMap(a, STACK) \in MemRec /\ IsFiniteSet(TempMap(a, STACK).regs[KERNEL])
  BY <1>2, WeakTemp
<1> QED
  BY <1>1, <1>3, WeakStay

LEMMA WeakElfLoad ==
  ASSUME WInv, NEW k \in KThreads, elf_load_from_memory(k)
  PROVE  Weak(mem', job')
<1>1. PICK p \in Users, image \in Images :
        /\ mem' = TempMap(AddStack(AddStack(mem, p), p), STACK)
        /\ Start(k, "map", p, KernelRegion, image)
  BY DEF elf_load_from_memory
<1> DEFINE a == AddStack(mem, p)
           c == AddStack(a, p)
<1>2. p \in Procs
  BY KernelIsProc
<1>3. a \in MemRec /\ IsFiniteSet(a.regs[KERNEL])
  BY <1>2, AtIs, WeakStack
<1> HIDE DEF a
<1>4. c \in MemRec /\ IsFiniteSet(c.regs[KERNEL])
  BY <1>2, <1>3, WeakStack
<1>5. mem' = TempMap(c, STACK)
  BY <1>1 DEF a
<1> HIDE DEF c
<1>6. mem' \in MemRec /\ IsFiniteSet(mem'.regs[KERNEL])
  BY <1>4, <1>5, WeakTemp
<1>7. KernelRegion \in RegionType /\ KernelRegion.pa \in Nat /\ image \in Seq(Segment) /\ "map" \in Steps
  BY KernelRegionIs, ImageIs DEF Steps
<1> QED
  BY <1>1, <1>2, <1>6, <1>7, WeakStart

LEMMA WeakBegins ==
  ASSUME WInv, NEW k \in KThreads, vmm_create_heap(k) \/ driver_dma(k) \/ driver_lfb(k)
  PROVE  Weak(mem', job')
<1>0. /\ mem \in MemRec /\ IsFiniteSet(mem.regs[KERNEL]) /\ KERNEL \in Procs
      /\ <<>> \in Seq(Segment) /\ "find" \in Steps /\ "map" \in Steps
  BY AtIs, KernelIsProc DEF Steps
<1>1. /\ HEAP \in Nat \ {0} /\ DMA \in Nat \ {0} /\ LFB \in Nat \ {0} /\ HeapPlace(mem) \in Nat
      /\ TEMP - DMA \in Nat /\ W * Words \in Nat
  BY MemoryAssumption, PhysAssumption DEF HeapPlace
<1>2. HeapExists => vmm_get_address_space_end(mem) \in Nat
  <2>1. HeapExists => mem.regs[KERNEL] # {}
    BY DEF HeapExists
  <2> QED
    BY <1>0, <2>1, EndIs
<1>3. CASE vmm_create_heap(k)
  <2> DEFINE r == Region(HeapPlace(mem), HEAP, "heap")
  <2>1. r \in RegionType /\ r.n = HEAP
    BY <1>1, RegionIs DEF Region, Uses
  <2>2. mem' = mem /\ Start(k, "find", KERNEL, r, <<>>)
    BY <1>3 DEF vmm_create_heap
  <2> HIDE DEF r
  <2>3. 0 < r.n /\ mem' \in MemRec /\ IsFiniteSet(mem'.regs[KERNEL])
    BY <1>0, <1>1, <2>1, <2>2
  <2> QED
    BY <1>0, <2>1, <2>2, <2>3, WeakStart
<1>4. CASE driver_dma(k)
  <2>1. PICK u \in {"sb16", "fdc"} :
          Start(k, "find", KERNEL,
                Region(IF u = "sb16" THEN TEMP - DMA ELSE vmm_get_address_space_end(mem), DMA, u), <<>>)
    BY <1>4 DEF driver_dma
  <2> DEFINE va == IF u = "sb16" THEN TEMP - DMA ELSE vmm_get_address_space_end(mem)
             r == Region(va, DMA, u)
  <2>2. va \in Nat
    BY <1>1, <1>2, <1>4 DEF driver_dma
  <2> HIDE DEF va
  <2>3. r \in RegionType /\ r.n = DMA
    BY <1>1, <2>2, RegionIs DEF Region, Uses, AutoFree
  <2>4. mem' = mem /\ Start(k, "find", KERNEL, r, <<>>)
    BY <1>4, <2>1 DEF driver_dma, va
  <2> HIDE DEF r
  <2>5. 0 < r.n /\ mem' \in MemRec /\ IsFiniteSet(mem'.regs[KERNEL])
    BY <1>0, <1>1, <2>3, <2>4
  <2> QED
    BY <1>0, <2>3, <2>4, <2>5, WeakStart
<1>5. CASE driver_lfb(k)
  <2> DEFINE va == vmm_get_address_space_end(mem)
             r == [Region(va, LFB, "lfb") EXCEPT !.pa = W * Words]
  <2>1. /\ mem' = mem /\ HeapExists /\ Start(k, "map", KERNEL, r, <<>>)
    BY <1>5 DEF driver_lfb
  <2>2. va \in Nat
    BY <1>2, <2>1
  <2> HIDE DEF va
  <2>3. r = [va |-> va, pa |-> W * Words, n |-> LFB, use |-> "lfb"]
    BY DEF Region
  <2> HIDE DEF r
  <2>4. r \in RegionType /\ r.pa \in Nat
    BY <1>1, <2>2, <2>3, RegionIs DEF Uses
  <2> QED
    BY <1>0, <2>1, <2>4, WeakStart
<1> QED
  BY <1>3, <1>4, <1>5

LEMMA WeakAllocFind ==
  ASSUME WInv, NEW k \in KThreads, alloc_find(k)
  PROVE  Weak(mem', job')
<1> DEFINE j == job[k]
           b == kpmm_find_free_region(mem.used, j.r.n)
           X == JobFound(j, b)
<1>0. j.pc = "find" /\ j.pc # "idle" /\ "memory" \in Halts
  BY DEF alloc_find, Running, Halts
<1>1. /\ mem \in MemRec /\ IsFiniteSet(mem.regs[KERNEL]) /\ job \in Jobs /\ j \in JobRec
      /\ Ready(j) /\ j.r.n \in Nat
  BY <1>0, AtIs DEF RegionType
<1> HIDE DEF b
<1>2. /\ b # NoBlock => job' = [job EXCEPT ![k].pc = "test", ![k].r.pa = b] /\ mem' = mem
      /\ b = NoBlock => Stop("memory") \/ Fails(k, "memory")
  BY DEF alloc_find, b
<1>3. CASE b = NoBlock
  BY <1>0, <1>2, <1>3, WeakStop, WeakFails
<1>4. CASE b # NoBlock
  <2>1. b \in Nat /\ b + j.r.n <= W * Words
    BY <1>1, <1>4, FindIs DEF b
  <2>2. job' = Turned(job, k, X) /\ mem' = mem
    BY <1>1, <1>2, <1>4 DEF Turned, Jobs, JobFound
  <2> HIDE DEF X
  <2>3. X \in JobRec /\ X.pc = "test" /\ X.i = j.i /\ X.r.pa = b /\ X.r.n = j.r.n
    <3>1. PICK r \in RegionType : r.pa = b /\ r.n = j.r.n /\ Becomes(j, X, "test", r, j.i)
      BY <1>1, <2>1, JobFoundIs DEF X
    <3> QED
      BY <3>1 DEF Becomes
  <2>4. Ready(X)
    BY <1>0, <1>1, <2>1, <2>3 DEF Ready
  <2> QED
    BY <1>1, <2>2, <2>3, <2>4, WeakTurn
<1> QED
  BY <1>3, <1>4

LEMMA WeakAllocTest ==
  ASSUME WInv, NEW k \in KThreads, alloc_test(k)
  PROVE  Weak(mem', job')
<1> DEFINE j == job[k]
<1>0. j.pc = "test" /\ j.pc # "idle" /\ "lost race" \in Halts /\ "set" \in Steps
  BY DEF alloc_test, Running, Halts, Steps
<1>1. mem \in MemRec /\ IsFiniteSet(mem.regs[KERNEL]) /\ j \in JobRec /\ Ready(j)
  BY <1>0, AtIs
<1>2. CASE ChunkTaken(j)
  BY <1>0, <1>2, WeakFails DEF alloc_test
<1>3. CASE ~ChunkTaken(j)
  <2>1. Ready(JobAt(j, "set"))
    BY <1>0, <1>1, JobAtIs DEF Becomes, Ready
  <2>2. Goto(k, "set") /\ mem' = mem
    BY <1>3 DEF alloc_test
  <2> QED
    BY <1>0, <1>1, <2>1, <2>2, WeakAt
<1> QED
  BY <1>2, <1>3

LEMMA WeakAllocSet ==
  ASSUME WInv, NEW k \in KThreads, alloc_set(k)
  PROVE  Weak(mem', job')
<1> DEFINE j == job[k]
           s == Cardinality(Chunk(j))
           i == j.i + s
           at == IF i < j.r.n THEN "test" ELSE "map"
           X == JobMoved(j, i, at)
           x == j.r.pa + j.i
<1>0. j.pc = "set" /\ j.pc # "idle"
  BY DEF alloc_set, Running
<1>1. /\ mem \in MemRec /\ IsFiniteSet(mem.regs[KERNEL]) /\ job \in Jobs /\ j \in JobRec /\ Ready(j)
  BY <1>0, AtIs
<1>2. /\ j.i \in Nat /\ j.r.n \in Nat /\ j.r.pa \in Nat /\ j.i < j.r.n /\ j.r.pa + j.r.n <= W * Words
      /\ W * Words \in Nat
  BY <1>0, <1>1, PhysAssumption DEF JobRec, RegionType, Ready
<1>3. s \in Nat \ {0} /\ Chunk(j) = Run(j.r.pa + j.i, s) /\ j.i + s <= j.r.n
  BY <1>1, <1>2, ChunkIs
<1>4. PICK used \in Outcomes(k) : mem' = [mem EXCEPT !.used = used]
  BY DEF alloc_set
<1>5. job' = Turned(job, k, X)
  BY <1>1 DEF alloc_set, Turned, JobMoved, Jobs
<1> HIDE DEF X, s
<1> DEFINE top == W * Words
<1> HIDE DEF top
<1>6. Chunk(j) \subseteq Blocks /\ x \in Nat /\ x < W * Words
  <2>1. /\ j.i \in Nat /\ j.r.n \in Nat /\ j.r.pa \in Nat /\ j.i < j.r.n
        /\ j.r.pa + j.r.n <= top /\ top \in Nat /\ Blocks = 0 .. top - 1
    BY <1>2 DEF top, Blocks
  <2>2. x \in Nat /\ x < top
    BY <2>1
  <2>3. Run(j.r.pa + j.i, s) \subseteq 0 .. top - 1
    <3>1. x \in Nat /\ s \in Nat /\ x + s <= top
      BY <1>3, <2>1
    <3> HIDE DEF x
    <3>2. Run(x, s) \subseteq 0 .. top - 1
      BY <2>1, <3>1 DEF Run
    <3> QED
      BY <3>2 DEF x
  <2> QED
    BY <1>3, <2>1, <2>2, <2>3 DEF top
<1>7. Word(x \div W) \subseteq Blocks
  <2> DEFINE q == x \div W
  <2>1. q \in Nat /\ q * W <= x /\ x < (q + 1) * W
    <3> DEFINE d == x % W
    <3>1. q \in Nat /\ d \in 0 .. W - 1 /\ x = W * q + d /\ W \in Nat
      <4> HIDE DEF x
      <4> QED
        BY <1>6, PhysAssumption, DivMod
    <3> HIDE DEF d, q, x
    <3>2. W * q = q * W /\ q * W \in Nat /\ (q + 1) * W = q * W + W
      BY <3>1
    <3> DEFINE e == q * W
    <3> HIDE DEF e
    <3>3. x = e + d /\ e \in Nat /\ (q + 1) * W = e + W
      BY <3>1, <3>2 DEF e
    <3> QED
      BY <3>1, <3>3 DEF e
  <2> HIDE DEF q
  <2>2. q + 1 <= Words
    <3>1. ~(Words <= q)
      <4>1. Words <= q => Words * W <= q * W
        BY <2>1, PhysAssumption, TimesMonotone
      <4>2. Words * W = W * Words
        BY PhysAssumption
      <4>3. q * W \in Nat
        BY <2>1, PhysAssumption
      <4> HIDE DEF x
      <4> QED
        BY <1>2, <1>6, <2>1, <4>1, <4>2, <4>3
    <3> QED
      BY <2>1, <3>1, PhysAssumption
  <2>3. (q + 1) * W <= W * Words
    <3>1. (q + 1) * W <= Words * W
      BY <2>1, <2>2, PhysAssumption, TimesMonotone
    <3> QED
      BY <3>1, PhysAssumption
  <2>4. (q + 1) * W = q * W + W /\ q * W \in Nat
    BY <2>1, PhysAssumption
  <2>5. Run(q * W, W) \subseteq Blocks
    BY <1>2, <2>3, <2>4, PhysAssumption DEF Run, Blocks
  <2> QED
    BY <2>5 DEF Word, q
<1>8. Outcomes(k) \subseteq SUBSET Blocks
  BY <1>1, <1>6, <1>7, MemFields DEF Outcomes, Marked
<1>9. mem' \in MemRec /\ mem'.regs = mem.regs
  <2>1. used \in SUBSET Blocks
    BY <1>4, <1>8
  <2>2. mem' \in MemRec
    BY <1>1, <1>4, <2>1, MemIs, MemFields
  <2> QED
    BY <1>1, <1>4, <2>2 DEF MemRec
<1>10. i \in Nat /\ (at = "test" => i < j.r.n) /\ at \in {"test", "map"} /\ at \in Steps
  BY <1>2, <1>3 DEF Steps
<1> HIDE DEF i, at
<1>11. Becomes(j, X, at, j.r, i)
  BY <1>1, <1>10, JobMovedIs DEF X
<1>12. X \in JobRec /\ Ready(X)
  BY <1>2, <1>10, <1>11 DEF Becomes, Ready
<1> QED
  BY <1>1, <1>5, <1>9, <1>12, WeakTurn

LEMMA WeakAllocLimit ==
  ASSUME WInv, NEW k \in KThreads, alloc_limit(k)
  PROVE  Weak(mem', job')
<1> DEFINE j == job[k]
           X == JobMoved(j, 0, "undo")
<1>0. j.pc = "map" /\ j.pc # "idle" /\ "undo" \in Steps
  BY DEF alloc_limit, Running, Steps
<1>1. mem \in MemRec /\ IsFiniteSet(mem.regs[KERNEL]) /\ job \in Jobs /\ j \in JobRec
  BY <1>0, AtIs
<1>2. job' = Turned(job, k, X) /\ mem' = mem
  BY <1>1 DEF alloc_limit, Turned, JobMoved, Jobs
<1> HIDE DEF X
<1>3. Becomes(j, X, "undo", j.r, 0)
  BY <1>0, <1>1, JobMovedIs DEF X
<1>4. X \in JobRec /\ Ready(X)
  BY <1>3 DEF Becomes, Ready
<1> QED
  BY <1>1, <1>2, <1>4, WeakTurn

LEMMA WeakFree ==
  ASSUME WInv, NEW k \in KThreads, free_block(k)
  PROVE  Weak(mem', job')
<1> DEFINE j == job[k]
           b == j.r.pa + j.i
<1>0. j.pc \in {"free", "undo"} /\ j.pc # "idle" /\ "unlink" \in Steps /\ j.pc \in Steps
  BY DEF free_block, Steps
<1>1. mem \in MemRec /\ IsFiniteSet(mem.regs[KERNEL]) /\ job \in Jobs /\ j \in JobRec /\ j.i \in Nat
  BY <1>0, AtIs DEF JobRec
<1>2. CASE Leave(k) /\ mem' = mem
  BY <1>2, WeakLeave
<1>3. CASE ~(Leave(k) /\ mem' = mem)
  <2>1. PICK S : mem' = [mem EXCEPT !.used = @ \ S]
    <3>1. \E undone \in IF clash THEN {{}, {y \in Word(b \div W) : y < b}} ELSE {{}} :
             mem' = [mem EXCEPT !.used = @ \ ({b} \cup undone)]
      BY <1>3 DEF free_block
    <3> QED
      BY <3>1
  <2>2. mem' \in MemRec /\ mem'.regs = mem.regs
    <3>1. mem.used \ S \in SUBSET Blocks
      BY <1>1, MemFields
    <3>2. mem' \in MemRec
      BY <1>1, <2>1, <3>1, MemIs, MemFields
    <3> QED
      BY <1>1, <2>1, <3>2 DEF MemRec
  <2>3. IsFiniteSet(mem'.regs[KERNEL])
    BY <1>1, <2>2
  <2>4. \/ job' = [job EXCEPT ![k].i = j.i + 1] \/ Goto(k, "unlink") \/ Leave(k)
    BY <1>3 DEF free_block
  <2>5. CASE job' = [job EXCEPT ![k].i = j.i + 1]
    <3> DEFINE X == JobMoved(j, j.i + 1, j.pc)
    <3>1. job' = Turned(job, k, X)
      BY <1>1, <2>5 DEF Turned, JobMoved, Jobs, JobRec
    <3> HIDE DEF X
    <3>2. Becomes(j, X, j.pc, j.r, j.i + 1)
      BY <1>0, <1>1, JobMovedIs DEF X
    <3>3. X \in JobRec /\ Ready(X)
      BY <1>0, <3>2 DEF Becomes, Ready
    <3> QED
      BY <2>2, <2>3, <3>1, <3>3, WeakTurn
  <2>6. CASE Goto(k, "unlink")
    <3>1. Ready(JobAt(j, "unlink"))
      BY <1>0, <1>1, JobAtIs DEF Becomes, Ready
    <3> QED
      BY <1>0, <2>2, <2>3, <2>6, <3>1, WeakAt
  <2>7. CASE Leave(k)
    <3>1. job' = Turned(job, k, Idle)
      BY <2>7 DEF Leave, Turned
    <3> QED
      BY <2>2, <2>3, <3>1, WeakTurn
  <2> QED
    BY <2>4, <2>5, <2>6, <2>7
<1> QED
  BY <1>2, <1>3

LEMMA WeakMapTest ==
  ASSUME WInv, NEW k \in KThreads, map_test(k)
  PROVE  Weak(mem', job')
<1> DEFINE j == job[k]
<1>0. j.pc = "map" /\ j.pc # "idle" /\ "overlap" \in Halts /\ "regions" \in Halts /\ "fill" \in Steps
  BY DEF map_test, Running, Halts, Steps
<1>1. mem \in MemRec /\ IsFiniteSet(mem.regs[KERNEL]) /\ j \in JobRec /\ Ready(j)
  BY <1>0, AtIs
<1>2. \/ Stop("regions") \/ Stop("overlap") \/ Fails(k, "overlap")
      \/ Goto(k, "fill") /\ mem' = mem
  BY DEF map_test
<1>3. CASE Goto(k, "fill") /\ mem' = mem
  <2>1. Ready(JobAt(j, "fill"))
    BY <1>0, <1>1, JobAtIs DEF Becomes, Ready
  <2> QED
    BY <1>0, <1>1, <1>3, <2>1, WeakAt
<1> QED
  BY <1>0, <1>2, <1>3, WeakStop, WeakFails

LEMMA WeakMapFill ==
  ASSUME WInv, NEW k \in KThreads, map_fill(k)
  PROVE  Weak(mem', job')
<1> DEFINE j == job[k]
<1>0. j.pc = "fill" /\ j.pc # "idle" /\ "count" \in Steps
  BY DEF map_fill, Running, Steps
<1>1. /\ mem \in MemRec /\ IsFiniteSet(mem.regs[KERNEL]) /\ j \in JobRec /\ Ready(j)
      /\ j.p \in Procs /\ j.r \in RegionType
  BY <1>0, AtIs
<1>2. j.r.pa \in Nat
  BY <1>0, <1>1 DEF Ready
<1>3. mem' = PutPages(mem, j.p, j.r) /\ Goto(k, "count")
  BY DEF map_fill
<1>4. mem' \in MemRec /\ mem'.regs = mem.regs
  BY <1>1, <1>2, <1>3, PutIs
<1>5. Ready(JobAt(j, "count"))
  BY <1>0, <1>1, <1>2, JobAtIs DEF Becomes, Ready
<1> QED
  BY <1>0, <1>1, <1>3, <1>4, <1>5, WeakAt

LEMMA BlankIs == Blank \in RegionType
<1>1. "none" \in Uses
  BY DEF Uses
<1> QED
  BY <1>1, RegionIs DEF Blank

LEMMA EntriesAre ==
  ASSUME WInv, NEW p \in Procs, NEW r \in RegionType
  PROVE  Entries(p, r) \subseteq RegionType
<1>1. mem.regs[p] \subseteq RegionType
  BY AtIs, MemFields DEF WInv, Weak, Types
<1>2. {job[q].r : q \in {q \in KThreads : job[q].pc = "count"}} \subseteq RegionType
  <2>1. \A q \in KThreads : job[q].pc = "count" => job[q].r \in RegionType
    BY AtIs
  <2> QED
    BY <2>1
<1> QED
  BY <1>1, <1>2, BlankIs DEF Entries

LEMMA WeakMapCount ==
  ASSUME WInv, NEW k \in KThreads, map_count(k)
  PROVE  Weak(mem', job')
<1> DEFINE j == job[k]
<1>0. j.pc = "count" /\ j.pc # "idle" /\ "find" \in Steps
  BY DEF map_count, Running, Steps
<1>1. /\ mem \in MemRec /\ IsFiniteSet(mem.regs[KERNEL]) /\ j \in JobRec
      /\ j.p \in Procs /\ j.r \in RegionType /\ j.rest \in Seq(Segment)
  BY <1>0, AtIs DEF JobRec
<1>2. PICK r \in Entries(j.p, j.r) :
        mem' = IF j.r.use = "image" THEN TempMap(Counted(mem, j.p, r), j.r.n) ELSE Counted(mem, j.p, r)
  BY DEF map_count, Counted
<1> DEFINE m == Counted(mem, j.p, r)
<1>3. r \in RegionType
  BY <1>1, EntriesAre
<1>4. m \in MemRec /\ m.regs = [mem.regs EXCEPT ![j.p] = @ \cup {r}]
  BY <1>1, <1>3, CountedIs
<1>5. IsFiniteSet(m.regs[KERNEL])
  <2>1. mem.regs \in [Procs -> SUBSET RegionType]
    BY <1>1, MemFields
  <2>2. m.regs[KERNEL] = mem.regs[KERNEL] \/ m.regs[KERNEL] = mem.regs[KERNEL] \cup {r}
    BY <1>1, <1>4, <2>1, KernelIsProc
  <2> QED
    BY <1>1, <2>2, FS_AddElement
<1> HIDE DEF m
<1>6. mem' \in MemRec /\ IsFiniteSet(mem'.regs[KERNEL])
  <2>1. mem' = TempMap(m, j.r.n) \/ mem' = m
    BY <1>2 DEF m
  <2>2. TempMap(m, j.r.n) \in MemRec /\ IsFiniteSet(TempMap(m, j.r.n).regs[KERNEL])
    BY <1>4, <1>5, WeakTemp
  <2> QED
    BY <1>4, <1>5, <2>1, <2>2
<1>7. CASE j.rest = <<>>
  <2>1. job' = Turned(job, k, Idle)
    BY <1>7 DEF map_count, Leave, Turned
  <2> QED
    BY <1>6, <2>1, WeakTurn
<1>8. CASE j.rest # <<>>
  <2> DEFINE n == SegmentPages(Head(j.rest))
             x == Region(Head(j.rest).va, n, "image")
  <2>1. Head(j.rest) \in Segment /\ Tail(j.rest) \in Seq(Segment)
    BY <1>1, <1>8
  <2>2. n \in Nat \ {0} /\ Head(j.rest).va \in Nat
    BY <2>1, PagesIs DEF Segment
  <2> HIDE DEF n
  <2>3. x \in RegionType /\ x.n = n
    BY <2>2, RegionIs DEF Region, Uses, AutoFree
  <2>4. Start(k, "find", j.p, x, Tail(j.rest))
    BY <1>8 DEF map_count, n
  <2> HIDE DEF x
  <2>5. 0 < x.n
    BY <2>2, <2>3
  <2> QED
    BY <1>0, <1>1, <1>6, <2>1, <2>5, <2>3, <2>4, WeakStart
<1> QED
  BY <1>7, <1>8

LEMMA WeakUnmaps ==
  ASSUME WInv, NEW k \in KThreads, unmap_pages(k)
  PROVE  Weak(mem', job')
<1>1. mem \in MemRec /\ IsFiniteSet(mem.regs[KERNEL]) /\ KERNEL \in Procs
  BY AtIs, KernelIsProc
<1>2. PICK r \in mem.regs[KERNEL] :
        /\ mem' = DropPages(mem, KERNEL, r.va, r.n)
        /\ Start(k, IF r.use \in AutoFree THEN "free" ELSE "unlink", KERNEL, r, <<>>)
  BY DEF unmap_pages
<1> DEFINE at == IF r.use \in AutoFree THEN "free" ELSE "unlink"
<1>3. r \in RegionType /\ <<>> \in Seq(Segment)
  BY <1>1, MemFields
<1>4. at \in Steps /\ at \in {"free", "unlink"}
  BY DEF Steps
<1>5. mem' \in MemRec /\ mem'.regs = mem.regs
  BY <1>1, <1>2, DropIs
<1>6. Start(k, at, KERNEL, r, <<>>)
  BY <1>2
<1> HIDE DEF at
<1> QED
  BY <1>1, <1>3, <1>4, <1>5, <1>6, WeakStart

LEMMA WeakUnlink ==
  ASSUME WInv, NEW k \in KThreads, unmap_unlink(k)
  PROVE  Weak(mem', job')
<1>1. mem \in MemRec /\ IsFiniteSet(mem.regs[KERNEL]) /\ KERNEL \in Procs
  BY AtIs, KernelIsProc
<1>2. PICK r : mem' = [mem EXCEPT !.regs[KERNEL] = @ \ {r}]
  BY DEF unmap_unlink
<1> DEFINE rs == [mem.regs EXCEPT ![KERNEL] = @ \ {r}]
<1>3. mem' = [mem EXCEPT !.regs = rs]
  BY <1>1, <1>2 DEF MemRec
<1>4. rs \in [Procs -> SUBSET RegionType] /\ rs[KERNEL] = mem.regs[KERNEL] \ {r}
  BY <1>1, MemFields
<1> HIDE DEF rs
<1>5. mem' \in MemRec
  BY <1>1, <1>3, <1>4, MemIs, MemFields
<1>6. mem'.regs = rs
  BY <1>1, <1>3, <1>5 DEF MemRec
<1>7. IsFiniteSet(mem'.regs[KERNEL])
  BY <1>1, <1>4, <1>6, FS_RemoveElement
<1>8. job' = Turned(job, k, Idle)
  BY DEF unmap_unlink, Leave, Turned
<1> QED
  BY <1>5, <1>7, <1>8, WeakTurn

LEMMA WeakStep ==
  ASSUME WInv, [Next]_vars
  PROVE  WInv'
<1>1. ASSUME UNCHANGED vars PROVE WInv'
  BY <1>1 DEF vars, WInv, Weak, Types
<1>2. ASSUME NEW k \in KThreads, Step(k), strayed' = (strayed \/ Strays(job'[k])) PROVE WInv'
  <2>1. Weak(mem', job')
    <3>1. CASE Alone(k)
      BY <3>1, WeakBegins, WeakAllocFind, WeakAllocTest, WeakAllocLimit, WeakFree, WeakMapTest,
         WeakUnmaps DEF Alone
    <3> QED
      BY <1>2, <3>1, WeakCreateThread, WeakElfLoad, WeakAllocSet, WeakMapFill, WeakMapCount,
         WeakUnlink DEF Step
  <2>2. clash' \in BOOLEAN
    BY <1>2 DEF WInv, Step, sched_create_thread, elf_load_from_memory, alloc_set, map_fill, map_count,
       unmap_unlink
  <2>3. strayed' \in BOOLEAN
    BY <1>2 DEF WInv
  <2> QED
    BY <2>1, <2>2, <2>3 DEF WInv
<1> QED
  BY <1>1, <1>2 DEF Next

LEMMA InitWeak == Init => WInv
<1> SUFFICES ASSUME Init PROVE WInv
  OBVIOUS
<1>1. Types(mem, job)
  BY InitInv DEF IInv
<1>2. \A k \in KThreads : job[k].pc = "idle"
  BY IdleIs DEF Init
<1>3. strayed \in BOOLEAN /\ clash \in BOOLEAN
  BY DEF Init
<1> QED
  BY <1>1, <1>2, <1>3 DEF WInv, Weak

-----------------------------------------------------------------------------
(* The theorems *)

(* TypeOK: the bitmap, the regions and the page tables of every process     *)
(* keep their types, and so does what each thread of the kernel is doing    *)
(* in mm_virt.c.                                                            *)
THEOREM MemoryTypeCorrect == Spec => []TypeOK
<1>1. WInv => TypeOK
  <2> SUFFICES ASSUME WInv PROVE TypeOK
    OBVIOUS
  <2>1. mem \in MemRec /\ job \in Jobs /\ strayed \in BOOLEAN /\ clash \in BOOLEAN
    BY DEF WInv, Weak, Types
  <2>2. mem.used \in SUBSET Blocks /\ mem.halt \in Halts
        /\ mem.regs \in [Procs -> SUBSET RegionType]
        /\ mem.pages \in [Procs -> SUBSET (Nat \X Nat)]
    BY <2>1, MemFields
  <2>3. \A p \in Procs : \A r \in mem.regs[p] : r \in RegionType
    BY <2>2
  <2>4. \A p \in Procs : \A e \in mem.pages[p] : e \in Nat \X Nat
    BY <2>2
  <2>5. JobType = {Idle} \cup JobRec
    BY DEF JobType, JobRec, Segment, Steps
  <2> HIDE DEF RegionType, JobType, JobRec, Idle
  <2>6. \A k \in KThreads : job[k] \in JobType
    BY <2>1, <2>5 DEF Jobs
  <2> QED
    BY <2>1, <2>2, <2>3, <2>4, <2>6 DEF TypeOK, Halts
<1> QED
  BY <1>1, InitWeak, WeakStep, PTL DEF Spec

(* AddressSpaces: vmm_map_region, whose overlap test does not see a region  *)
(* inside another, the temporary mappings and the drivers that unmap their  *)
(* buffers keep the regions of a process apart, and its page table says     *)
(* what they say: until two threads clash, and of the kernel's until a      *)
(* driver strays into the place of the sound buffer.                        *)
THEOREM AddressSpacesAgree == Spec => []AddressSpaces
<1>1. Init => clash \/ SInv
  BY InitInv, InitSpaces DEF SInv
<1>2. (clash \/ SInv) /\ [Next]_vars => (clash \/ SInv)'
  <2>1. clash /\ [Next]_vars => clash'
    BY ClashStays
  <2>2. SInv /\ ~clash' /\ [Next]_vars => SInv'
    BY StepSpaces
  <2> QED
    BY <2>1, <2>2
<1>3. clash \/ SInv => RegionsDisjoint /\ PagesMatchRegions
  <2>1. clash => RegionsDisjoint /\ PagesMatchRegions
    BY DEF RegionsDisjoint, PagesMatchRegions, Settled
  <2> QED
    BY <2>1, SpacesMean
<1>4. TypeOK /\ RegionsDisjoint /\ PagesMatchRegions => AddressSpaces
  BY DEF AddressSpaces
<1> QED
  BY <1>1, <1>2, <1>3, <1>4, MemoryTypeCorrect, PTL DEF Spec

(* FindIsFirstFit: kpmm_find_free_region jumps over what it has seen and    *)
(* still finds the first place that fits, in every bitmap and for any       *)
(* number of blocks.                                                        *)
THEOREM FindsFirstFit == Spec => []FindIsFirstFit
<1>1. W \in Nat
  BY PhysAssumption
<1>2. \A n \in 1 .. 2 * W + 1 : n \in Nat
  BY <1>1
<1>3. FindIsFirstFit
  BY <1>2, ScanIsFirstFit DEF FindIsFirstFit
<1> QED
  BY <1>3, PTL

(* FramesKept: until two threads clash, blocks that are mapped or allocated *)
(* are marked and no word of the bitmap has two owners, whatever            *)
(* kpmm_mark_blocks, kpmm_unmark_blocks and vmm_map_region meet: stale      *)
(* results of the search and of the tests alone break nothing.              *)
THEOREM FramesStayKept == Spec => []FramesKept
<1>1. clash \/ IInv => FramesKept
  <2>1. clash => FramesKept
    BY DEF FramesKept
  <2> QED
    BY <2>1, KeptMeansFrames
<1> QED
  BY <1>1, Invariance, PTL

(* OverlapPanicCause: without a clash the kernel panics because of an       *)
(* overlap only when a segment follows one which fills its last page;       *)
(* neither the kernel nor a stack is ever refused its place.                *)
THEOREM PanicsForOneCause == Spec => []OverlapPanicCause
<1>1. clash \/ IInv => OverlapPanicCause
  BY DEF IInv, OverlapPanicCause
<1> QED
  BY <1>1, Invariance, PTL

(* LeakCause: until two threads clash, a step loses blocks only if an       *)
(* allocation of a heap or a buffer meets another one while kpmm_alloc      *)
(* marks its blocks, or if vmm_map_region refuses their place; never        *)
(* kpmm_unmark_blocks for a region given back or above the DMA limit.       *)
THEOREM BlocksAreLostForOneCause == Spec => LeakCause
<1> DEFINE L == Lost = LostNow
           Cause ==
             mem'.halt = "no" /\ ~clash' /\ ~(Lost' \subseteq Lost) =>
               \E k \in KThreads :
                 /\ job[k].pc \in {"test", "map"} /\ job'[k] = Idle
                 /\ job[k].r.use \in {"heap", "fdc", "sb16"}
                 /\ job[k].pc = "map" => Overlaps(mem.regs[KERNEL], job[k].r.va, job[k].r.n)
<1>1. L
  BY LostIs
<1>2. (clash \/ IInv) /\ L /\ L' /\ [Next]_vars => Cause
  <2>1. IInv /\ ~clash' /\ L /\ L' /\ [Next]_vars => Cause
    BY StepInv DEF LeakStep, Excused
  <2>2. clash /\ [Next]_vars => Cause
    BY ClashStays
  <2>3. clash' => Cause
    OBVIOUS
  <2> HIDE DEF Cause, L
  <2> QED
    BY <2>1, <2>2, <2>3
<1>3. LeakCause <=> [][Cause]_vars
  BY DEF LeakCause
<1> HIDE DEF L, Cause
<1>4. Spec => [][Cause]_vars
  BY <1>1, <1>2, Invariance, PTL DEF Spec
<1> QED
  BY <1>3, <1>4
=============================================================================
