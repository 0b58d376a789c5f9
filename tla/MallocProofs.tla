---------------------------- MODULE MallocProofs ----------------------------
(***************************************************************************)
(* Proofs about Malloc, for any number and size of heaps, any size of a    *)
(* control block above 0, any requests and any contents.                   *)
(***************************************************************************)
EXTENDS Malloc, WellFoundedInduction, TLAPS

-----------------------------------------------------------------------------
(* The natural numbers are well ordered. *)
LEMMA LeastExists ==
  ASSUME NEW T \in SUBSET Nat, T # {}
  PROVE  \E x \in T : \A y \in T : x <= y
<1> DEFINE R == OpToRel(<, Nat)
<1>1. IsWellFoundedOn(R, Nat)
  BY NatLessThanWellFounded
<1>2. \A x, y \in Nat : y < x => <<y, x>> \in R
  BY DEF OpToRel
<1> HIDE DEF R
<1>3. PICK x \in T : \A y \in T : ~(<<y, x>> \in R)
  BY <1>1, WFMin
<1>4. ASSUME NEW y \in T PROVE x <= y
  <2>1. x \in Nat /\ y \in Nat
    OBVIOUS
  <2>2. ~(<<y, x>> \in R)
    BY <1>3
  <2>3. ~(y < x)
    BY <1>2, <2>1, <2>2, Zenon
  <2> QED
    BY <2>1, <2>3
<1> QED
  BY <1>4

(* A bounded set of numbers has a greatest element. *)
LEMMA GreatestExists ==
  ASSUME NEW n \in Nat, NEW T \in SUBSET (0 .. n), T # {}
  PROVE  \E x \in T : \A y \in T : x >= y
<1> DEFINE U == {n - x : x \in T}
<1>1. U \in SUBSET Nat /\ U # {}
  <2>1. \A x \in T : n - x \in Nat
    OBVIOUS
  <2> QED
    BY <2>1, Zenon
<1>2. PICK u \in U : \A v \in U : u <= v
  BY <1>1, LeastExists
<1>3. PICK x \in T : u = n - x
  BY <1>2
<1>4. ASSUME NEW y \in T PROVE x >= y
  <2>1. n - y \in U
    OBVIOUS
  <2>2. n - x <= n - y
    BY <1>2, <1>3, <2>1
  <2> QED
    BY <2>2
<1> QED
  BY <1>4

-----------------------------------------------------------------------------
(* A heap as malloc and free rely on it: it begins with a control block,    *)
(* and behind each block comes the next one, or the end of the heap.        *)
Tiled(hp) ==
  /\ 0 \in DOMAIN hp
  /\ DOMAIN hp \subseteq 0 .. HeapBytes - 1
  /\ \A a \in DOMAIN hp : hp[a].size \in Nat /\ hp[a].free \in BOOLEAN
  /\ \A a \in DOMAIN hp : Behind(hp, a) \in DOMAIN hp \cup {HeapBytes}
  /\ \A a, b \in DOMAIN hp : a < b => Behind(hp, a) <= b

(* Numbers about a heap *)
LEMMA HeapNumbers ==
  ASSUME NEW hp, Tiled(hp)
  PROVE  /\ HeapBytes \in Nat /\ HDR \in Nat /\ HDR > 0
         /\ HeapBytes \notin DOMAIN hp
         /\ 0 \in DOMAIN hp /\ DOMAIN hp \subseteq 0 .. 2 * HeapBytes
         /\ HeapBytes \in 0 .. 2 * HeapBytes
         /\ \A a \in DOMAIN hp :
              /\ a \in Nat /\ a < HeapBytes /\ hp[a].size \in Nat
              /\ Behind(hp, a) = a + HDR + hp[a].size
              /\ Behind(hp, a) \in Nat /\ Behind(hp, a) > a /\ Behind(hp, a) <= HeapBytes
              /\ Behind(hp, a) \in DOMAIN hp \/ Behind(hp, a) = HeapBytes
              /\ Behind(hp, a) \in 0 .. 2 * HeapBytes
              /\ \A b \in DOMAIN hp : b > a => b >= Behind(hp, a)
<1>1. HeapBytes \in Nat /\ HDR \in Nat /\ HDR > 0
  BY MallocAssumption
<1>2. 0 \in DOMAIN hp /\ DOMAIN hp \subseteq 0 .. HeapBytes - 1
  BY DEF Tiled
<1>3. ASSUME NEW a \in DOMAIN hp
      PROVE  /\ a \in Nat /\ a < HeapBytes /\ hp[a].size \in Nat
             /\ Behind(hp, a) = a + HDR + hp[a].size
             /\ Behind(hp, a) \in Nat /\ Behind(hp, a) > a /\ Behind(hp, a) <= HeapBytes
             /\ Behind(hp, a) \in DOMAIN hp \/ Behind(hp, a) = HeapBytes
             /\ \A b \in DOMAIN hp : b > a => b >= Behind(hp, a)
  <2>1. a \in Nat /\ a < HeapBytes
    BY <1>1, <1>2
  <2>2. hp[a].size \in Nat
    BY DEF Tiled
  <2>3. Behind(hp, a) \in DOMAIN hp \cup {HeapBytes}
    BY DEF Tiled
  <2>4. Behind(hp, a) = a + HDR + hp[a].size
    BY DEF Behind
  <2>5. Behind(hp, a) <= HeapBytes
    BY <1>1, <1>2, <2>3
  <2>6. ASSUME NEW b \in DOMAIN hp, b > a PROVE b >= Behind(hp, a)
    <3>1. a < b /\ b \in Nat
      BY <1>1, <1>2, <2>1, <2>6
    <3>2. Behind(hp, a) <= b
      BY <3>1 DEF Tiled
    <3> QED
      BY <1>1, <2>1, <2>2, <2>4, <3>1, <3>2
  <2> QED
    BY <1>1, <2>1, <2>2, <2>3, <2>4, <2>5, <2>6
<1> QED
  BY <1>1, <1>2, <1>3

(* What a recursive function is defined by: if some function satisfies the  *)
(* equation, so does the one that is chosen.  Below, each walk over a heap  *)
(* has its meaning as a witness, and the block highest up at which it would *)
(* depart from it leads to a higher one.                                    *)

(* The walk that looks for a block sees all of them. *)
LEMMA FindBlockIs ==
  ASSUME NEW hp, Tiled(hp), NEW n
  PROVE  \/ FindBlock(hp, n) = NULL /\ \A a \in DOMAIN hp : ~Fits(hp[a], n)
         \/ FindBlock(hp, n) \in DOMAIN hp /\ Fits(hp[FindBlock(hp, n)], n)
<1> DEFINE D == 0 .. 2 * HeapBytes
           Body(w, a) == IF a = HeapBytes \/ a \notin DOMAIN hp THEN NULL
                         ELSE IF Fits(hp[a], n) THEN a ELSE w[Behind(hp, a)]
           F(w) == [a \in D |-> Body(w, a)]
           From(a) == {x \in DOMAIN hp : x >= a /\ Fits(hp[x], n)}
           First(a) == CHOOSE x \in From(a) : \A y \in From(a) : x <= y
           g == [a \in D |-> IF a \notin DOMAIN hp \/ From(a) = {} THEN NULL ELSE First(a)]
           walk == CHOOSE w : w = F(w)
<1>0. /\ HeapBytes \in Nat /\ HeapBytes \notin DOMAIN hp /\ HeapBytes \in D
      /\ 0 \in DOMAIN hp /\ DOMAIN hp \subseteq D
      /\ \A a \in DOMAIN hp :
           /\ a \in Nat /\ a < HeapBytes
           /\ Behind(hp, a) \in Nat /\ Behind(hp, a) > a
           /\ Behind(hp, a) \in DOMAIN hp \/ Behind(hp, a) = HeapBytes
           /\ Behind(hp, a) \in D
           /\ \A b \in DOMAIN hp : b > a => b >= Behind(hp, a)
  BY HeapNumbers
<1>1. ASSUME NEW a \in D PROVE g[a] = Body(g, a)
  <2>1. CASE a \notin DOMAIN hp
    BY <2>1
  <2>2. CASE a \in DOMAIN hp /\ Fits(hp[a], n)
    <3>1. a \in From(a) /\ \A y \in From(a) : a <= y
      BY <1>0, <2>2
    <3>2. First(a) = a
      <4>1. \A x \in From(a) : x <= a => x = a
        BY <1>0, <3>1
      <4> HIDE DEF From
      <4> QED
        BY <3>1, <4>1
    <3> HIDE DEF From, First
    <3> QED
      BY <1>0, <2>2, <3>1, <3>2
  <2>3. CASE a \in DOMAIN hp /\ ~Fits(hp[a], n)
    <3> DEFINE e == Behind(hp, a)
    <3>1. From(a) = From(e)
      BY <1>0, <2>3
    <3>2. e \notin DOMAIN hp => From(e) = {}
      BY <1>0, <2>3
    <3>3. e \in D /\ a # HeapBytes
      BY <1>0, <2>3
    <3>4. First(a) = First(e)
      <4> HIDE DEF From
      <4> QED
        BY <3>1
    <3> HIDE DEF From, First, e
    <3>5. g[e] = IF e \notin DOMAIN hp \/ From(e) = {} THEN NULL ELSE First(e)
      BY <3>3
    <3>6. g[a] = IF From(a) = {} THEN NULL ELSE First(a)
      BY <2>3
    <3>7. Body(g, a) = g[e]
      BY <2>3, <3>3 DEF e
    <3> HIDE DEF g, Body
    <3> QED
      BY <3>1, <3>2, <3>4, <3>5, <3>6, <3>7
  <2> HIDE DEF g, Body
  <2> QED
    BY <2>1, <2>2, <2>3
<1>2. walk = F(walk)
  <2>1. g = F(g)
    <3> HIDE DEF Body
    <3> QED
      BY <1>1
  <2> HIDE DEF F, g
  <2> QED
    BY <2>1, Zenon
<1> HIDE DEF walk, g
<1> DEFINE Good(a) == \/ walk[a] = NULL /\ From(a) = {}
                      \/ walk[a] \in From(0)
           Bad == {a \in DOMAIN hp : ~Good(a)}
<1>3. Bad = {}
  <2> SUFFICES ASSUME Bad # {} PROVE FALSE
    OBVIOUS
  <2>1. PICK a \in Bad : \A b \in Bad : a >= b
    <3>1. Bad \in SUBSET (0 .. HeapBytes)
      BY <1>0
    <3> HIDE DEF Bad
    <3> QED
      BY <1>0, <3>1, GreatestExists
  <2> DEFINE e == Behind(hp, a)
  <2>2. a \in DOMAIN hp /\ ~Good(a)
    OBVIOUS
  <2>3. walk[a] = Body(walk, a)
    <3> HIDE DEF Body
    <3> QED
      BY <1>0, <1>2, <2>2
  <2>4. ~Fits(hp[a], n)
    <3> SUFFICES ASSUME Fits(hp[a], n) PROVE FALSE
      OBVIOUS
    <3>1. walk[a] = a /\ a \in From(0)
      BY <1>0, <2>2, <2>3
    <3> QED
      BY <2>2, <3>1
  <2>5. walk[a] = walk[e]
    BY <1>0, <2>2, <2>3, <2>4
  <2>6. From(a) = From(e)
    BY <1>0, <2>2, <2>4
  <2>7. e \in DOMAIN hp
    <3> SUFFICES ASSUME e \notin DOMAIN hp PROVE FALSE
      OBVIOUS
    <3>1. e = HeapBytes /\ walk[e] = Body(walk, e)
      <4> HIDE DEF Body
      <4> QED
        BY <1>0, <1>2, <2>2
    <3>2. walk[e] = NULL
      BY <3>1
    <3>3. From(e) = {}
      BY <1>0, <3>1
    <3> HIDE DEF From
    <3> QED
      BY <2>2, <2>5, <2>6, <3>2, <3>3
  <2>8. Good(e)
    <3>1. e > a
      BY <1>0, <2>2
    <3>2. e \notin Bad
      BY <1>0, <2>1, <2>2, <2>7, <3>1
    <3> QED
      BY <2>7, <3>2
  <2> HIDE DEF From, e
  <2> QED
    BY <2>2, <2>5, <2>6, <2>8
<1>4. Good(0)
  BY <1>0, <1>3
<1>5. FindBlock(hp, n) = walk[0]
  BY DEF FindBlock, walk, F
<1>6. From(0) = {x \in DOMAIN hp : Fits(hp[x], n)}
  BY <1>0
<1> HIDE DEF walk
<1> QED
  BY <1>4, <1>5, <1>6

(* The search for the end of a merge stops at a control block or at the end *)
(* of the heap, and passes free blocks only.                                *)
LEMMA MergeEndIs ==
  ASSUME NEW hp, Tiled(hp), NEW c \in DOMAIN hp
  PROVE  LET e == MergeEnd(hp, c) IN
         /\ e \in DOMAIN hp \cup {HeapBytes} /\ e >= Behind(hp, c)
         /\ \A x \in DOMAIN hp : c < x /\ x < e => hp[x].free
<1> DEFINE D == 0 .. 2 * HeapBytes
           Body(w, a) == IF a = HeapBytes \/ a \notin DOMAIN hp THEN a
                         ELSE IF hp[a].free THEN w[Behind(hp, a)] ELSE a
           F(w) == [a \in D |-> Body(w, a)]
           From(a) == {x \in DOMAIN hp : x >= a /\ ~hp[x].free}
           First(a) == CHOOSE x \in From(a) : \A y \in From(a) : x <= y
           g == [a \in D |-> IF a \notin DOMAIN hp THEN a
                             ELSE IF From(a) = {} THEN HeapBytes ELSE First(a)]
           walk == CHOOSE w : w = F(w)
<1>0. /\ HeapBytes \in Nat /\ HeapBytes \notin DOMAIN hp /\ HeapBytes \in D
      /\ 0 \in DOMAIN hp /\ DOMAIN hp \subseteq D
      /\ \A a \in DOMAIN hp :
           /\ a \in Nat /\ a < HeapBytes
           /\ Behind(hp, a) \in Nat /\ Behind(hp, a) > a /\ Behind(hp, a) <= HeapBytes
           /\ Behind(hp, a) \in DOMAIN hp \/ Behind(hp, a) = HeapBytes
           /\ Behind(hp, a) \in D
           /\ \A b \in DOMAIN hp : b > a => b >= Behind(hp, a)
  BY HeapNumbers
<1>1. ASSUME NEW a \in D PROVE g[a] = Body(g, a)
  <2>1. CASE a \notin DOMAIN hp
    BY <2>1
  <2>2. CASE a \in DOMAIN hp /\ ~hp[a].free
    <3>1. a \in From(a) /\ \A y \in From(a) : a <= y
      BY <1>0, <2>2
    <3>2. First(a) = a
      <4>1. \A x \in From(a) : x <= a => x = a
        BY <1>0, <3>1
      <4> HIDE DEF From
      <4> QED
        BY <3>1, <4>1
    <3> HIDE DEF From, First
    <3> QED
      BY <1>0, <2>2, <3>1, <3>2
  <2>3. CASE a \in DOMAIN hp /\ hp[a].free
    <3> DEFINE e == Behind(hp, a)
    <3>1. From(a) = From(e)
      BY <1>0, <2>3
    <3>2. e \notin DOMAIN hp => From(e) = {} /\ e = HeapBytes
      <4>1. e \in DOMAIN hp \/ e = HeapBytes
        BY <1>0, <2>3
      <4>2. \A x \in DOMAIN hp : ~(x >= HeapBytes)
        BY <1>0
      <4> HIDE DEF e
      <4> QED
        BY <4>1, <4>2
    <3>3. e \in D /\ a # HeapBytes
      BY <1>0, <2>3
    <3>4. First(a) = First(e)
      <4> HIDE DEF From
      <4> QED
        BY <3>1
    <3> HIDE DEF From, First, e
    <3>5. g[e] = IF e \notin DOMAIN hp THEN e
                 ELSE IF From(e) = {} THEN HeapBytes ELSE First(e)
      BY <3>3
    <3>6. g[a] = IF From(a) = {} THEN HeapBytes ELSE First(a)
      BY <2>3
    <3>7. Body(g, a) = g[e]
      BY <2>3, <3>3 DEF e
    <3> HIDE DEF g, Body
    <3> QED
      BY <3>1, <3>2, <3>4, <3>5, <3>6, <3>7
  <2> HIDE DEF g, Body
  <2> QED
    BY <2>1, <2>2, <2>3
<1>2. walk = F(walk)
  <2>1. g = F(g)
    <3>1. g = [a \in D |-> g[a]]
      OBVIOUS
    <3> HIDE DEF Body, g
    <3> QED
      BY <1>1, <3>1
  <2> HIDE DEF F, g
  <2> QED
    BY <2>1, Zenon
<1> HIDE DEF walk, g
<1> DEFINE Good(a) == /\ walk[a] \in DOMAIN hp \cup {HeapBytes} /\ walk[a] >= a
                      /\ \A x \in DOMAIN hp : a <= x /\ x < walk[a] => hp[x].free
           Bad == {a \in DOMAIN hp : ~Good(a)}
<1>3. Good(HeapBytes)
  <2>1. walk[HeapBytes] = Body(walk, HeapBytes)
    <3> HIDE DEF Body
    <3> QED
      BY <1>0, <1>2
  <2>2. walk[HeapBytes] = HeapBytes
    BY <2>1
  <2> QED
    BY <1>0, <2>2
<1>4. Bad = {}
  <2> SUFFICES ASSUME Bad # {} PROVE FALSE
    OBVIOUS
  <2>1. PICK a \in Bad : \A b \in Bad : a >= b
    <3>1. Bad \in SUBSET (0 .. HeapBytes)
      <4> HIDE DEF Good
      <4> QED
        BY <1>0
    <3> HIDE DEF Bad
    <3> QED
      BY <1>0, <3>1, GreatestExists
  <2> DEFINE e == Behind(hp, a)
  <2>2. a \in DOMAIN hp /\ ~Good(a)
    BY <2>1
  <2>3. walk[a] = Body(walk, a)
    <3> HIDE DEF Body
    <3> QED
      BY <1>0, <1>2, <2>2
  <2>4. hp[a].free
    <3> SUFFICES ASSUME ~hp[a].free PROVE FALSE
      OBVIOUS
    <3>1. walk[a] = a
      BY <1>0, <2>2, <2>3
    <3> QED
      BY <1>0, <2>2, <3>1
  <2>5. walk[a] = walk[e]
    BY <1>0, <2>2, <2>3, <2>4
  <2>6. Good(e)
    <3>1. CASE e \in DOMAIN hp
      <4>1. e > a
        BY <1>0, <2>2
      <4> HIDE DEF Good, e
      <4> QED
        BY <1>0, <2>1, <2>2, <3>1, <4>1
    <3>2. CASE e = HeapBytes
      BY <1>3, <3>2
    <3> QED
      BY <1>0, <2>2, <3>1, <3>2
  <2>7. Good(a)
    <3>1. e \in Nat /\ e > a /\ a \in Nat /\ \A x \in DOMAIN hp : x > a => x >= e
      BY <1>0, <2>2
    <3>2. \A x \in DOMAIN hp : x \in Nat
      BY <1>0
    <3> HIDE DEF e
    <3>3. walk[e] \in Nat
      BY <1>0, <2>6, <3>2
    <3>4. walk[e] >= a
      BY <2>6, <3>1, <3>3
    <3>5. ASSUME NEW x \in DOMAIN hp, a <= x, x < walk[e] PROVE hp[x].free
      <4>1. CASE x = a
        BY <2>4, <4>1
      <4>2. CASE x # a
        <5>1. x > a
          BY <3>1, <3>2, <3>5, <4>2
        <5>2. e <= x
          BY <3>1, <3>2, <5>1
        <5> QED
          BY <2>6, <3>5, <5>2
      <4> QED
        BY <4>1, <4>2
    <3> QED
      BY <2>5, <2>6, <3>4, <3>5
  <2> QED
    BY <2>2, <2>7
<1>5. Good(Behind(hp, c))
  <2> HIDE DEF Good
  <2>1. CASE Behind(hp, c) \in DOMAIN hp
    BY <1>4, <2>1
  <2>2. CASE Behind(hp, c) = HeapBytes
    BY <1>3, <2>2
  <2> QED
    BY <1>0, <2>1, <2>2
<1>6. MergeEnd(hp, c) = walk[Behind(hp, c)]
  BY DEF MergeEnd, walk, F
<1> HIDE DEF walk
<1>7. \A x \in DOMAIN hp : c < x => Behind(hp, c) <= x
  BY <1>0
<1> QED
  BY <1>5, <1>6, <1>7

(* HeapsTiled says of one heap what Tiled says.                             *)
LEMMA WalkIsTiled ==
  ASSUME NEW hp, Tiled(hp)
  PROVE  LET walk[a \in 0 .. 2 * HeapBytes] ==
               IF a = HeapBytes THEN {} ELSE IF a \notin DOMAIN hp THEN {NULL}
               ELSE {a} \cup walk[Behind(hp, a)]
         IN walk[0] = DOMAIN hp
<1> DEFINE D == 0 .. 2 * HeapBytes
           Body(w, a) == IF a = HeapBytes THEN {} ELSE IF a \notin DOMAIN hp THEN {NULL}
                         ELSE {a} \cup w[Behind(hp, a)]
           F(w) == [a \in D |-> Body(w, a)]
           From(a) == {x \in DOMAIN hp : x >= a}
           g == [a \in D |-> IF a = HeapBytes THEN {} ELSE IF a \notin DOMAIN hp THEN {NULL}
                             ELSE From(a)]
           walk == CHOOSE w : w = F(w)
<1>0. /\ HeapBytes \in Nat /\ HeapBytes \notin DOMAIN hp /\ HeapBytes \in D
      /\ 0 \in DOMAIN hp /\ DOMAIN hp \subseteq D
      /\ \A a \in DOMAIN hp :
           /\ a \in Nat /\ a < HeapBytes
           /\ Behind(hp, a) \in Nat /\ Behind(hp, a) > a
           /\ Behind(hp, a) \in DOMAIN hp \/ Behind(hp, a) = HeapBytes
           /\ Behind(hp, a) \in D
           /\ \A b \in DOMAIN hp : b > a => b >= Behind(hp, a)
  BY HeapNumbers
<1>1. ASSUME NEW a \in DOMAIN hp
      PROVE  From(a) = {a} \cup From(Behind(hp, a)) /\ (Behind(hp, a) = HeapBytes => From(HeapBytes) = {})
  BY <1>0
<1>2. ASSUME NEW a \in D PROVE g[a] = Body(g, a)
  <2>1. CASE a \in DOMAIN hp
    <3> DEFINE e == Behind(hp, a)
    <3>1. a # HeapBytes /\ e \in D /\ (e \in DOMAIN hp \/ e = HeapBytes)
      BY <1>0, <2>1
    <3>2. From(a) = {a} \cup From(e) /\ (e = HeapBytes => From(e) = {})
      BY <1>1, <2>1
    <3>3. g[a] = From(a)
      BY <2>1, <3>1
    <3> HIDE DEF From, e
    <3>4. g[e] = IF e = HeapBytes THEN {} ELSE From(e)
      BY <1>0, <3>1
    <3>5. Body(g, a) = {a} \cup g[e]
      BY <2>1, <3>1 DEF e
    <3> HIDE DEF g, Body
    <3> QED
      BY <3>2, <3>3, <3>4, <3>5
  <2>2. CASE a \notin DOMAIN hp
    BY <2>2
  <2> QED
    BY <2>1, <2>2
<1>3. walk = F(walk)
  <2>1. g = F(g)
    <3> HIDE DEF Body
    <3> QED
      BY <1>2
  <2> HIDE DEF F, g
  <2> QED
    BY <2>1, Zenon
<1> HIDE DEF walk, g
<1> DEFINE Bad == {a \in DOMAIN hp : walk[a] # From(a)}
<1>4. Bad = {}
  <2> SUFFICES ASSUME Bad # {} PROVE FALSE
    OBVIOUS
  <2>1. PICK a \in Bad : \A b \in Bad : a >= b
    <3>1. Bad \in SUBSET (0 .. HeapBytes)
      BY <1>0
    <3> HIDE DEF Bad
    <3> QED
      BY <1>0, <3>1, GreatestExists
  <2> DEFINE e == Behind(hp, a)
  <2>2. a \in DOMAIN hp /\ walk[a] # From(a)
    OBVIOUS
  <2>3. walk[a] = {a} \cup walk[e]
    <3>1. walk[a] = Body(walk, a)
      <4> HIDE DEF Body
      <4> QED
        BY <1>0, <1>3, <2>2
    <3> QED
      BY <1>0, <2>2, <3>1
  <2>4. walk[e] = From(e)
    <3>1. CASE e \in DOMAIN hp
      <4>1. e > a
        BY <1>0, <2>2
      <4>2. e \notin Bad
        BY <1>0, <2>1, <2>2, <3>1, <4>1
      <4> QED
        BY <3>1, <4>2
    <3>2. CASE e = HeapBytes
      <4>1. walk[e] = Body(walk, e)
        <5> HIDE DEF Body
        <5> QED
          BY <1>0, <1>3, <3>2
      <4>2. walk[e] = {} /\ From(e) = {}
        BY <1>1, <2>2, <3>2, <4>1
      <4> QED
        BY <4>2
    <3> QED
      BY <1>0, <2>2, <3>1, <3>2
  <2>5. From(a) = {a} \cup From(e)
    BY <1>1, <2>2
  <2> HIDE DEF From, e
  <2> QED
    BY <2>2, <2>3, <2>4, <2>5
<1>5. walk[0] = From(0)
  BY <1>0, <1>4
<1>6. From(0) = DOMAIN hp
  <2>1. \A x \in DOMAIN hp : x >= 0
    BY <1>0
  <2> QED
    BY <2>1
<1> HIDE DEF From
<1> QED
  BY <1>5, <1>6 DEF walk, F

-----------------------------------------------------------------------------
(* What the operations make of a heap *)

(* mm_create_heap makes one free block. *)
LEMMA FreshIsTiled == Tiled(Fresh) /\ DOMAIN Fresh = {0} /\ Fresh[0].free
<1>1. HeapBytes \in Nat /\ HDR \in Nat /\ HDR > 0 /\ HeapBytes > HDR
  BY MallocAssumption
<1>2. DOMAIN Fresh = {0} /\ Fresh[0].size = HeapBytes - HDR /\ Fresh[0].free = TRUE
  BY DEF Fresh
<1>3. Behind(Fresh, 0) = HeapBytes
  BY <1>1, <1>2 DEF Behind
<1>4. Fresh[0].free \in BOOLEAN /\ Fresh[0].free
  BY <1>2
<1>5. Fresh[0].size \in Nat
  BY <1>1, <1>2
<1>6. DOMAIN Fresh \subseteq 0 .. HeapBytes - 1
  BY <1>1, <1>2
<1>7. \A a, b \in DOMAIN Fresh : ~(a < b)
  BY <1>2
<1> QED
  BY <1>2, <1>3, <1>4, <1>5, <1>6, <1>7, Zenon DEF Tiled

(* A block is split: its first part is in use, the rest is free, and the    *)
(* other blocks are what they were.                                         *)
LEMMA SplitIs ==
  ASSUME NEW hp, Tiled(hp), NEW n \in Nat, NEW a \in DOMAIN hp, Fits(hp[a], n),
         NEW q, q = Split(hp, a, n)
  PROVE  /\ Tiled(q)
         /\ a \in DOMAIN q /\ q[a].size = n /\ ~q[a].free
         /\ \A x \in DOMAIN hp : x # a => x \in DOMAIN q /\ q[x] = hp[x]
         /\ \A x \in DOMAIN q : x # a /\ ~q[x].free => x \in DOMAIN hp /\ q[x] = hp[x]
<1> DEFINE c == a + HDR + n
           s == hp[a].size
<1>1. /\ HeapBytes \in Nat /\ HDR \in Nat /\ HDR > 0
      /\ 0 \in DOMAIN hp
      /\ \A x \in DOMAIN hp :
           /\ x \in Nat /\ x < HeapBytes /\ hp[x].size \in Nat
           /\ Behind(hp, x) = x + HDR + hp[x].size
           /\ Behind(hp, x) \in DOMAIN hp \/ Behind(hp, x) = HeapBytes
           /\ Behind(hp, x) <= HeapBytes
           /\ \A y \in DOMAIN hp : y > x => y >= Behind(hp, x)
  BY HeapNumbers
<1>2. s \in Nat /\ s >= n + HDR
  BY <1>1 DEF Fits
<1>3. c \in Nat /\ c > a /\ c + HDR <= Behind(hp, a) /\ c \notin DOMAIN hp
  BY <1>1, <1>2
<1>4. /\ DOMAIN q = DOMAIN hp \cup {c}
      /\ q[a] = [size |-> n, free |-> FALSE]
      /\ q[c] = [size |-> s - n - HDR, free |-> TRUE]
      /\ \A x \in DOMAIN hp : x # a => q[x] = hp[x]
  BY <1>3 DEF Split
<1>5. Behind(q, a) = c
  BY <1>4 DEF Behind
<1>6. Behind(q, c) = Behind(hp, a)
  BY <1>1, <1>2, <1>3, <1>4 DEF Behind
<1>7. \A x \in DOMAIN hp : x # a => Behind(q, x) = Behind(hp, x)
  BY <1>4 DEF Behind
<1> HIDE DEF c, s
<1>8. Tiled(q)
  <2>1. DOMAIN q \subseteq 0 .. HeapBytes - 1
    <3>1. c < HeapBytes
      BY <1>1, <1>3
    <3> QED
      BY <1>1, <1>3, <1>4, <3>1
  <2>2. ASSUME NEW x \in DOMAIN q PROVE q[x].size \in Nat /\ q[x].free \in BOOLEAN
    <3>1. CASE x = a
      <4>1. q[a].size = n /\ q[a].free = FALSE
        BY <1>4
      <4> QED
        BY <3>1, <4>1, Zenon
    <3>2. CASE x = c
      <4>1. q[c].size = s - n - HDR /\ q[c].free = TRUE
        BY <1>4
      <4>2. s - n - HDR \in Nat
        BY <1>1, <1>2
      <4> QED
        BY <3>2, <4>1, <4>2, Zenon
    <3>3. CASE x \in DOMAIN hp /\ x # a
      BY <1>4, <3>3 DEF Tiled
    <3> QED
      BY <1>4, <3>1, <3>2, <3>3
  <2>3. ASSUME NEW x \in DOMAIN q PROVE Behind(q, x) \in DOMAIN q \cup {HeapBytes}
    BY <1>1, <1>4, <1>5, <1>6, <1>7
  <2>4. ASSUME NEW x \in DOMAIN q, NEW y \in DOMAIN q, x < y PROVE Behind(q, x) <= y
    <3>0. c \in Nat /\ c > a /\ c < Behind(hp, a)
      BY <1>1, <1>3
    <3>1. CASE x = a
      <4>1. y = c \/ y >= Behind(hp, a)
        BY <1>1, <1>4, <2>4, <3>1
      <4>2. y \in Nat
        BY <1>1, <1>3, <1>4
      <4> QED
        BY <1>5, <3>0, <3>1, <4>1, <4>2, <1>1
    <3>2. CASE x = c
      <4>1. y \in DOMAIN hp /\ y > a
        BY <1>1, <1>4, <2>4, <3>0, <3>2
      <4> QED
        BY <1>1, <1>6, <3>2, <4>1
    <3>3. CASE x \in DOMAIN hp /\ x # a
      <4>1. CASE y \in DOMAIN hp
        BY <1>1, <1>7, <2>4, <3>3, <4>1
      <4>2. CASE y = c
        <5>1. x < a
          <6>0. x < c /\ x \in Nat /\ a \in Nat
            BY <1>1, <2>4, <3>3, <4>2
          <6>1. x > a => x >= Behind(hp, a)
            BY <1>1, <3>3
          <6>2. Behind(hp, a) \in Nat
            BY <1>1
          <6> QED
            BY <3>0, <3>3, <6>0, <6>1, <6>2
        <5>2. Behind(hp, x) <= a
          BY <1>1, <3>3, <5>1
        <5> QED
          BY <1>1, <1>7, <3>0, <3>3, <4>2, <5>2
      <4> QED
        BY <1>4, <4>1, <4>2
    <3> QED
      BY <1>4, <3>1, <3>2, <3>3
  <2> QED
    BY <1>1, <1>4, <2>1, <2>2, <2>3, <2>4 DEF Tiled
<1> QED
  BY <1>3, <1>4, <1>8

(* A block is released: what it swallows is free, and the other blocks are  *)
(* what they were.                                                          *)
LEMMA ReleaseIs ==
  ASSUME NEW hp, Tiled(hp), NEW a \in DOMAIN hp, NEW q, q = Release(hp, a)
  PROVE  /\ Tiled(q)
         /\ a \in DOMAIN q /\ q[a].free
         /\ \A x \in DOMAIN hp : x # a /\ ~hp[x].free => x \in DOMAIN q
         /\ \A x \in DOMAIN q : x # a => x \in DOMAIN hp /\ q[x] = hp[x]
<1> DEFINE e == MergeEnd(hp, a)
<1>1. /\ HeapBytes \in Nat /\ HDR \in Nat /\ HDR > 0
      /\ 0 \in DOMAIN hp /\ HeapBytes \notin DOMAIN hp
      /\ \A x \in DOMAIN hp :
           /\ x \in Nat /\ x < HeapBytes /\ hp[x].size \in Nat
           /\ Behind(hp, x) = x + HDR + hp[x].size
           /\ Behind(hp, x) \in DOMAIN hp \/ Behind(hp, x) = HeapBytes
           /\ Behind(hp, x) <= HeapBytes
           /\ \A y \in DOMAIN hp : y > x => y >= Behind(hp, x)
  BY HeapNumbers
<1>2. /\ e \in DOMAIN hp \cup {HeapBytes} /\ e >= Behind(hp, a)
      /\ \A x \in DOMAIN hp : a < x /\ x < e => hp[x].free
  BY MergeEndIs
<1> DEFINE R == {y \in DOMAIN hp : y <= a \/ y >= e}
           qq == [x \in R |-> IF x = a THEN [size |-> e - a - HDR, free |-> TRUE] ELSE hp[x]]
<1>3. q = qq
  BY <1>2 DEF Release
<1> HIDE DEF e
<1>4. e \in Nat /\ e >= a + HDR /\ a < e /\ e <= HeapBytes /\ a \in Nat
  <2>1. e \in Nat /\ e <= HeapBytes
    <3>1. CASE e \in DOMAIN hp
      BY <1>1, <3>1
    <3>2. CASE e = HeapBytes
      BY <1>1, <3>2
    <3> QED
      BY <1>2, <3>1, <3>2
  <2>2. a \in Nat /\ hp[a].size \in Nat /\ Behind(hp, a) = a + HDR + hp[a].size
    BY <1>1
  <2> QED
    BY <1>1, <1>2, <2>1, <2>2
<1>5. a \in R
  BY <1>1
<1>6. DOMAIN q = R
  BY <1>3
<1>7. q[a].size = e - a - HDR /\ q[a].free = TRUE
  BY <1>3, <1>5
<1>8. \A x \in R : x # a => q[x] = hp[x]
  BY <1>3
<1>9. Behind(q, a) = e
  BY <1>1, <1>4, <1>7 DEF Behind
<1>10. \A x \in R : x # a => Behind(q, x) = Behind(hp, x)
  BY <1>8 DEF Behind
<1>11. R \subseteq DOMAIN hp /\ \A x \in R : x <= a \/ x >= e
  OBVIOUS
<1>12. \A x \in DOMAIN hp : x <= a \/ x >= e => x \in R
  OBVIOUS
<1> HIDE DEF R, qq
<1>13. Tiled(q)
  <2>1. 0 \in R
    BY <1>1, <1>12
  <2>2. DOMAIN q \subseteq 0 .. HeapBytes - 1
    <3>1. \A x \in DOMAIN hp : x \in 0 .. HeapBytes - 1
      BY <1>1
    <3> QED
      BY <1>6, <1>11, <3>1
  <2>3. ASSUME NEW x \in R PROVE q[x].size \in Nat /\ q[x].free \in BOOLEAN
    <3>1. CASE x = a
      <4>1. e - a - HDR \in Nat
        BY <1>1, <1>4
      <4> QED
        BY <1>7, <3>1, <4>1, Zenon
    <3>2. CASE x # a
      BY <1>8, <1>11, <3>2 DEF Tiled
    <3> QED
      BY <3>1, <3>2
  <2>4. ASSUME NEW x \in R PROVE Behind(q, x) \in R \cup {HeapBytes}
    <3>1. CASE x = a
      <4>1. e \in R \/ e = HeapBytes
        BY <1>2, <1>4, <1>12
      <4> QED
        BY <1>9, <3>1, <4>1
    <3>2. CASE x # a
      <4> DEFINE z == Behind(hp, x)
      <4>1. Behind(q, x) = z /\ x \in DOMAIN hp
        BY <1>10, <1>11, <3>2
      <4>2. CASE x <= a
        <5>0. x \in Nat /\ a \in Nat
          BY <1>1, <4>1
        <5>1. x < a
          BY <3>2, <4>2, <5>0
        <5>2. z <= a
          BY <1>1, <4>1, <5>1
        <5> QED
          BY <1>1, <1>12, <4>1, <5>2
      <4>3. CASE x >= e
        <5>1. z > x
          BY <1>1, <4>1
        <5>2. z \in DOMAIN hp => z >= e
          BY <1>1, <1>4, <4>1, <4>3, <5>1
        <5> QED
          BY <1>1, <1>12, <4>1, <5>2
      <4> QED
        BY <1>11, <4>2, <4>3
    <3> QED
      BY <3>1, <3>2
  <2>5. ASSUME NEW x \in R, NEW y \in R, x < y PROVE Behind(q, x) <= y
    <3>1. x \in DOMAIN hp /\ y \in DOMAIN hp /\ x \in Nat /\ y \in Nat
      BY <1>1, <1>11
    <3>2. CASE x = a
      <4>1. y >= e
        BY <1>1, <1>4, <1>11, <2>5, <3>1, <3>2
      <4> QED
        BY <1>4, <1>9, <3>1, <3>2, <4>1
    <3>3. CASE x # a
      BY <1>1, <1>10, <2>5, <3>1, <3>3
    <3> QED
      BY <3>2, <3>3
  <2> QED
    BY <1>6, <2>1, <2>2, <2>3, <2>4, <2>5 DEF Tiled
<1>14. ASSUME NEW x \in DOMAIN hp, x # a, ~hp[x].free PROVE x \in R
  <2>1. ~(a < x /\ x < e)
    BY <1>2, <1>14
  <2>2. x \in Nat /\ a \in Nat
    BY <1>1
  <2>3. x <= a \/ x >= e
    BY <1>4, <2>1, <2>2
  <2> QED
    BY <1>12, <2>3
<1> QED
  BY <1>5, <1>6, <1>7, <1>8, <1>11, <1>13, <1>14

-----------------------------------------------------------------------------
(* Heaps and owners.  The heaps in use are tiled and the others have        *)
(* nothing in them; the callers own the blocks in use and no two own the    *)
(* same one.                                                                *)
Shaped(hs, k) ==
  /\ k \in 0 .. MAX_HEAPS - 1
  /\ DOMAIN hs = HeapIds
  /\ \A h \in HeapIds : IF h < k THEN Tiled(hs[h]) ELSE DOMAIN hs[h] = {}

InUseAt(hs, b) ==
  /\ b.at - HDR \in DOMAIN hs[b.heap]
  /\ ~hs[b.heap][b.at - HDR].free
  /\ hs[b.heap][b.at - HDR].size = b.size

SamePlace(b, c) == b.heap = c.heap /\ b.at = c.at

Owners(hs, bs) ==
  /\ bs \subseteq A!Block
  /\ \A b \in bs : InUseAt(hs, b)
  /\ \A h \in HeapIds : \A a \in DOMAIN hs[h] :
       ~hs[h][a].free => \E b \in bs : b.heap = h /\ b.at = a + HDR
  /\ \A b, c \in bs : SamePlace(b, c) => b = c

(* Numbers about a block that is owned *)
LEMMA BlockNumbers ==
  ASSUME NEW hs, NEW k, NEW bs, Shaped(hs, k), Owners(hs, bs), NEW b \in bs
  PROVE  /\ b.heap \in HeapIds /\ b.heap < k /\ b.heap \in Nat /\ k \in Nat
         /\ Tiled(hs[b.heap])
         /\ b.at \in Nat /\ b.at - HDR \in Nat /\ (b.at - HDR) + HDR = b.at
         /\ b.size \in Nat /\ b.size > 0 /\ b.data \in Data
<1>1. b \in A!Block
  BY DEF Owners
<1>2. b.heap \in HeapIds /\ b.at \in 0 .. HeapBytes /\ b.size \in 1 .. HeapBytes /\ b.data \in Data
  BY <1>1 DEF A!Block
<1>3. b.at - HDR \in DOMAIN hs[b.heap]
  BY DEF Owners, InUseAt
<1>4. b.heap < k /\ Tiled(hs[b.heap])
  BY <1>2, <1>3 DEF Shaped
<1>5. b.at - HDR \in Nat
  BY <1>3, <1>4, HeapNumbers
<1>6. HDR \in Nat /\ HeapBytes \in Nat /\ MAX_HEAPS \in Nat
  BY MallocAssumption
<1>7. (b.at - HDR) + HDR = b.at
  BY <1>2, <1>6
<1>8. k \in Nat /\ b.heap \in Nat
  BY <1>2, <1>6 DEF Shaped, HeapIds
<1> QED
  BY <1>2, <1>4, <1>5, <1>6, <1>7, <1>8

(* Two control blocks of one heap: one ends before the other begins. *)
LEMMA OneBeforeOther ==
  ASSUME NEW hp, Tiled(hp), NEW x \in DOMAIN hp, NEW y \in DOMAIN hp, x # y
  PROVE  x + HDR + hp[x].size <= y \/ y + HDR + hp[y].size <= x
<1>1. x \in Nat /\ y \in Nat
  BY HeapNumbers
<1>2. CASE x < y
  <2>1. Behind(hp, x) <= y
    BY <1>2 DEF Tiled
  <2> QED
    BY <2>1 DEF Behind
<1>3. CASE y < x
  <2>1. Behind(hp, y) <= x
    BY <1>3 DEF Tiled
  <2> QED
    BY <2>1 DEF Behind
<1> QED
  BY <1>1, <1>2, <1>3

(* A block that is cut out of a free one is a caller's own. *)
LEMMA GrantKeeps ==
  ASSUME NEW hs, NEW k, NEW bs, Shaped(hs, k), Owners(hs, bs),
         NEW h \in 0 .. k - 1, NEW n \in Nat, n > 0, NEW a \in DOMAIN hs[h], Fits(hs[h][a], n),
         NEW d \in Data,
         NEW hs2, hs2 = [hs EXCEPT ![h] = Split(@, a, n)],
         NEW c, c = [heap |-> h, at |-> a + HDR, size |-> n, data |-> d]
  PROVE  /\ Shaped(hs2, k) /\ Owners(hs2, bs \cup {c})
         /\ c \in A!Block /\ A!Inside(c) /\ A!Apart(c, bs)
<1> DEFINE hp == hs[h]
           q == Split(hp, a, n)
<1>1. h \in HeapIds /\ h \in Nat /\ k \in Nat /\ h < k
  BY MallocAssumption DEF Shaped, HeapIds
<1>2. Tiled(hp)
  BY <1>1 DEF Shaped
<1>3. HeapBytes \in Nat /\ HDR \in Nat /\ HDR > 0
  BY MallocAssumption
<1>4. /\ a \in Nat /\ hp[a].size \in Nat
      /\ a + HDR + hp[a].size <= HeapBytes
      /\ hp[a].free /\ hp[a].size >= n + HDR
  <2>1. a \in Nat /\ hp[a].size \in Nat /\ Behind(hp, a) = a + HDR + hp[a].size /\ Behind(hp, a) <= HeapBytes
    BY <1>2, HeapNumbers
  <2> QED
    BY <2>1 DEF Fits
<1>5. /\ Tiled(q)
      /\ a \in DOMAIN q /\ q[a].size = n /\ ~q[a].free
      /\ \A x \in DOMAIN hp : x # a => x \in DOMAIN q /\ q[x] = hp[x]
      /\ \A x \in DOMAIN q : x # a /\ ~q[x].free => x \in DOMAIN hp /\ q[x] = hp[x]
  <2> HIDE DEF q
  <2>1. q = Split(hp, a, n)
    BY DEF q
  <2> QED
    BY <1>2, <2>1, SplitIs
<1>6. DOMAIN hs2 = HeapIds /\ hs2[h] = q /\ \A g \in HeapIds : g # h => hs2[g] = hs[g]
  BY <1>1 DEF Shaped
<1> HIDE DEF q, hp
<1>7. Shaped(hs2, k)
  <2>1. \A g \in HeapIds : IF g < k THEN Tiled(hs2[g]) ELSE DOMAIN hs2[g] = {}
    <3> SUFFICES ASSUME NEW g \in HeapIds PROVE IF g < k THEN Tiled(hs2[g]) ELSE DOMAIN hs2[g] = {}
      OBVIOUS
    <3>1. CASE g = h
      BY <1>1, <1>5, <1>6, <3>1
    <3>2. CASE g # h
      BY <1>6, <3>2 DEF Shaped
    <3> QED
      BY <3>1, <3>2
  <2> QED
    BY <1>6, <2>1 DEF Shaped
<1>8. c.heap = h /\ c.at = a + HDR /\ c.size = n /\ c.data = d
  OBVIOUS
<1>9. c.at - HDR = a /\ c.at \in 0 .. HeapBytes /\ c.size \in 1 .. HeapBytes /\ c.at + c.size <= HeapBytes
  BY <1>3, <1>4, <1>8
<1>10. c \in A!Block
  BY <1>1, <1>9 DEF A!Block
<1>11. A!Inside(c)
  BY <1>9 DEF A!Inside
<1>12. ASSUME NEW b \in bs, b.heap = h
       PROVE  /\ b.at - HDR \in DOMAIN hp /\ b.at - HDR # a /\ b.at # c.at
              /\ hp[b.at - HDR].size = b.size /\ ~hp[b.at - HDR].free
  <2>1. InUseAt(hs, b)
    BY DEF Owners
  <2>2. b.at - HDR \in DOMAIN hp /\ hp[b.at - HDR].size = b.size /\ ~hp[b.at - HDR].free
    BY <1>12, <2>1 DEF InUseAt, hp
  <2>3. b.at - HDR # a
    BY <1>4, <2>2
  <2>4. b.at \in Nat
    BY BlockNumbers
  <2> QED
    BY <1>3, <1>8, <1>9, <2>2, <2>3, <2>4
<1>13. A!Apart(c, bs)
  <2> SUFFICES ASSUME NEW b \in bs, b.heap = h
               PROVE  c.at + c.size <= b.at \/ b.at + b.size <= c.at
    BY <1>8 DEF A!Apart
  <2> DEFINE x == b.at - HDR
  <2>1. b.at \in Nat /\ x \in Nat /\ x + HDR = b.at /\ b.size \in Nat
    BY BlockNumbers
  <2>2. x \in DOMAIN hp /\ x # a /\ hp[x].size = b.size
    BY <1>12
  <2> HIDE DEF x
  <2>3. a + HDR + hp[a].size <= x \/ x + HDR + hp[x].size <= a
    BY <1>2, <2>2, OneBeforeOther DEF hp
  <2> QED
    BY <1>3, <1>4, <1>8, <2>1, <2>2, <2>3
<1>14. Owners(hs2, bs \cup {c})
  <2>1. bs \cup {c} \subseteq A!Block
    BY <1>10 DEF Owners
  <2>2. ASSUME NEW b \in bs \cup {c} PROVE InUseAt(hs2, b)
    <3>1. CASE b = c
      BY <1>5, <1>6, <1>8, <1>9, <3>1 DEF InUseAt
    <3>2. CASE b \in bs /\ b.heap = h
      <4>1. b.at - HDR \in DOMAIN q /\ q[b.at - HDR] = hp[b.at - HDR]
        BY <1>5, <1>12, <3>2
      <4> QED
        BY <1>6, <1>12, <3>2, <4>1 DEF InUseAt
    <3>3. CASE b \in bs /\ b.heap # h
      <4>1. InUseAt(hs, b)
        BY <3>3 DEF Owners
      <4>2. hs2[b.heap] = hs[b.heap]
        BY <1>6, <3>3, BlockNumbers
      <4> QED
        BY <4>1, <4>2 DEF InUseAt
    <3> QED
      BY <3>1, <3>2, <3>3
  <2>3. ASSUME NEW g \in HeapIds, NEW y \in DOMAIN hs2[g], ~hs2[g][y].free
        PROVE  \E b \in bs \cup {c} : b.heap = g /\ b.at = y + HDR
    <3>1. CASE g = h /\ y = a
      BY <1>8, <3>1
    <3>2. CASE g = h /\ y # a
      <4>1. y \in DOMAIN hp /\ ~hp[y].free
        BY <1>5, <1>6, <2>3, <3>2
      <4> QED
        BY <3>2, <4>1 DEF Owners, hp
    <3>3. CASE g # h
      BY <1>6, <2>3, <3>3 DEF Owners
    <3> QED
      BY <3>1, <3>2, <3>3
  <2>4. ASSUME NEW b1 \in bs \cup {c}, NEW b2 \in bs \cup {c}, SamePlace(b1, b2) PROVE b1 = b2
    <3>1. \A b \in bs : ~SamePlace(b, c) /\ ~SamePlace(c, b)
      BY <1>8, <1>12 DEF SamePlace
    <3>2. b1 \in bs /\ b2 \in bs => b1 = b2
      BY <2>4 DEF Owners
    <3> QED
      BY <2>4, <3>1, <3>2
  <2> QED
    BY <2>1, <2>2, <2>3, <2>4 DEF Owners
<1> QED
  BY <1>7, <1>10, <1>11, <1>13, <1>14

(* A block that is given back is accepted, and nobody's block goes with it. *)
LEMMA GiveBackKeeps ==
  ASSUME NEW hs, NEW k, NEW bs, Shaped(hs, k), Owners(hs, bs), NEW b \in bs,
         NEW hs2, hs2 = [hs EXCEPT ![b.heap] = Release(@, b.at - HDR)]
  PROVE  /\ Accepted(hs[b.heap], b.at - HDR)
         /\ Shaped(hs2, k) /\ Owners(hs2, bs \ {b})
<1> DEFINE h == b.heap
           a == b.at - HDR
           hp == hs[h]
           q == Release(hp, a)
<1>1. /\ h \in HeapIds /\ h < k /\ Tiled(hp)
      /\ a \in Nat /\ a + HDR = b.at /\ b.size \in Nat /\ b.size > 0
  BY BlockNumbers
<1>2. a \in DOMAIN hp /\ ~hp[a].free /\ hp[a].size = b.size
  BY DEF Owners, InUseAt
<1>3. Accepted(hp, a)
  BY <1>1, <1>2 DEF Accepted
<1>4. /\ Tiled(q)
      /\ a \in DOMAIN q /\ q[a].free
      /\ \A x \in DOMAIN hp : x # a /\ ~hp[x].free => x \in DOMAIN q
      /\ \A x \in DOMAIN q : x # a => x \in DOMAIN hp /\ q[x] = hp[x]
  <2> HIDE DEF q, a, hp
  <2>1. q = Release(hp, a)
    BY DEF q
  <2> QED
    BY <1>1, <1>2, <2>1, ReleaseIs
<1>5. DOMAIN hs2 = HeapIds /\ hs2[h] = q /\ \A g \in HeapIds : g # h => hs2[g] = hs[g]
  BY <1>1 DEF Shaped
<1> HIDE DEF q
<1>6. Shaped(hs2, k)
  <2>1. \A g \in HeapIds : IF g < k THEN Tiled(hs2[g]) ELSE DOMAIN hs2[g] = {}
    <3> SUFFICES ASSUME NEW g \in HeapIds PROVE IF g < k THEN Tiled(hs2[g]) ELSE DOMAIN hs2[g] = {}
      OBVIOUS
    <3>1. CASE g = h
      BY <1>1, <1>4, <1>5, <3>1
    <3>2. CASE g # h
      BY <1>5, <3>2 DEF Shaped
    <3> QED
      BY <3>1, <3>2
  <2> QED
    BY <1>5, <2>1 DEF Shaped
<1>7. Owners(hs2, bs \ {b})
  <2>1. bs \ {b} \subseteq A!Block
    BY DEF Owners
  <2>2. ASSUME NEW c \in bs \ {b} PROVE InUseAt(hs2, c)
    <3>1. InUseAt(hs, c) /\ ~SamePlace(b, c)
      BY DEF Owners
    <3>2. CASE c.heap = h
      <4>1. c.at \in Nat /\ c.at - HDR \in Nat /\ (c.at - HDR) + HDR = c.at
        BY BlockNumbers
      <4>2. c.at - HDR # a
        BY <1>1, <3>1, <3>2, <4>1 DEF SamePlace
      <4>3. c.at - HDR \in DOMAIN hp /\ ~hp[c.at - HDR].free /\ hp[c.at - HDR].size = c.size
        BY <3>1, <3>2 DEF InUseAt
      <4>4. c.at - HDR \in DOMAIN q /\ q[c.at - HDR] = hp[c.at - HDR]
        BY <1>4, <4>2, <4>3
      <4> QED
        BY <1>5, <3>2, <4>3, <4>4 DEF InUseAt
    <3>3. CASE c.heap # h
      <4>1. hs2[c.heap] = hs[c.heap]
        BY <1>5, <3>3, BlockNumbers
      <4> QED
        BY <3>1, <4>1 DEF InUseAt
    <3> QED
      BY <3>2, <3>3
  <2>3. ASSUME NEW g \in HeapIds, NEW y \in DOMAIN hs2[g], ~hs2[g][y].free
        PROVE  \E c \in bs \ {b} : c.heap = g /\ c.at = y + HDR
    <3>1. CASE g = h
      <4>1. y # a /\ y \in DOMAIN hp /\ ~hp[y].free
        BY <1>4, <1>5, <2>3, <3>1
      <4>2. PICK c \in bs : c.heap = g /\ c.at = y + HDR
        BY <3>1, <4>1 DEF Owners
      <4>3. y \in Nat /\ HDR \in Nat
        BY <1>1, <4>1, HeapNumbers
      <4>4. c # b
        BY <1>1, <4>1, <4>2, <4>3
      <4> QED
        BY <4>2, <4>4
    <3>2. CASE g # h
      <4>1. PICK c \in bs : c.heap = g /\ c.at = y + HDR
        BY <1>5, <2>3, <3>2 DEF Owners
      <4> QED
        BY <3>2, <4>1
    <3> QED
      BY <3>1, <3>2
  <2>4. \A b1, b2 \in bs \ {b} : SamePlace(b1, b2) => b1 = b2
    BY DEF Owners
  <2> QED
    BY <2>1, <2>2, <2>3, <2>4 DEF Owners
<1> QED
  BY <1>3, <1>6, <1>7

(* A new heap has room for its callers and no blocks of theirs. *)
LEMMA NewHeapKeeps ==
  ASSUME NEW hs, NEW k, NEW bs, Shaped(hs, k), Owners(hs, bs), k < MAX_HEAPS - 1,
         NEW hs2, hs2 = [hs EXCEPT ![k] = Fresh]
  PROVE  Shaped(hs2, k + 1) /\ Owners(hs2, bs)
<1>1. k \in HeapIds /\ k \in Nat /\ MAX_HEAPS \in Nat /\ HeapIds \subseteq Nat /\ k + 1 \in 0 .. MAX_HEAPS - 1
  BY MallocAssumption DEF Shaped, HeapIds
<1>2. DOMAIN hs2 = HeapIds /\ hs2[k] = Fresh /\ \A g \in HeapIds : g # k => hs2[g] = hs[g]
  BY <1>1 DEF Shaped
<1>3. Shaped(hs2, k + 1)
  <2> SUFFICES ASSUME NEW g \in HeapIds PROVE IF g < k + 1 THEN Tiled(hs2[g]) ELSE DOMAIN hs2[g] = {}
    BY <1>1, <1>2 DEF Shaped
  <2>1. CASE g = k
    BY <1>1, <1>2, <2>1, FreshIsTiled
  <2>2. CASE g # k
    <3>1. g < k + 1 <=> g < k
      BY <1>1, <2>2
    <3> QED
      BY <1>2, <2>2, <3>1 DEF Shaped
  <2> QED
    BY <2>1, <2>2
<1>4. Owners(hs2, bs)
  <2>1. ASSUME NEW b \in bs PROVE InUseAt(hs2, b)
    <3>1. b.heap \in HeapIds /\ b.heap # k
      BY <1>1, BlockNumbers
    <3>2. InUseAt(hs, b)
      BY DEF Owners
    <3> QED
      BY <1>2, <3>1, <3>2 DEF InUseAt
  <2>2. ASSUME NEW g \in HeapIds, NEW y \in DOMAIN hs2[g], ~hs2[g][y].free
        PROVE  \E b \in bs : b.heap = g /\ b.at = y + HDR
    <3>1. g # k
      BY <1>2, <2>2, FreshIsTiled
    <3> QED
      BY <1>2, <2>2, <3>1 DEF Owners
  <2> QED
    BY <2>1, <2>2 DEF Owners
<1> QED
  BY <1>3, <1>4

-----------------------------------------------------------------------------
(* What malloc returns: a block that overlaps no other, or NULL             *)
Granted(m, n, d) ==
  /\ Shaped(m.heap, m.count) /\ Owners(m.heap, blocks \cup {Owned(m, n, d)})
  /\ Owned(m, n, d) \in A!Block
  /\ A!Inside(Owned(m, n, d)) /\ A!Apart(Owned(m, n, d), blocks)

Refused(m) ==
  m.at = NULL /\ Shaped(m.heap, m.count) /\ Owners(m.heap, blocks)

(* One heap is tried. *)
LEMMA TryIs ==
  ASSUME NEW hs, NEW k, Shaped(hs, k), Owners(hs, blocks),
         NEW h \in 0 .. k - 1, NEW n \in Nat, n > 0,
         NEW m, m = Try(h, n, hs, k)
  PROVE  /\ FindBlock(hs[h], n) = NULL =>
              Refused(m) /\ \A a \in DOMAIN hs[h] : ~Fits(hs[h][a], n)
         /\ FindBlock(hs[h], n) # NULL => m.at # NULL /\ \A d \in Data : Granted(m, n, d)
<1> DEFINE a == FindBlock(hs[h], n)
<1>1. m.h = h /\ m.at = a /\ m.count = k
      /\ m.heap = IF a = NULL THEN hs ELSE [hs EXCEPT ![h] = Split(@, a, n)]
  BY DEF Try
<1>2. Tiled(hs[h])
  BY MallocAssumption DEF Shaped, HeapIds
<1>3. a = NULL \/ (a \in DOMAIN hs[h] /\ Fits(hs[h][a], n))
  BY <1>2, FindBlockIs
<1>4. \A x \in DOMAIN hs[h] : x # NULL
  BY <1>2, HeapNumbers DEF NULL
<1>5. ASSUME a = NULL PROVE Refused(m) /\ \A x \in DOMAIN hs[h] : ~Fits(hs[h][x], n)
  <2>1. \A x \in DOMAIN hs[h] : ~Fits(hs[h][x], n)
    BY <1>2, <1>4, <1>5, FindBlockIs
  <2> HIDE DEF a
  <2> QED
    BY <1>1, <1>5, <2>1 DEF Refused
<1>6. ASSUME a # NULL, NEW d \in Data PROVE Granted(m, n, d)
  <2>1. a \in DOMAIN hs[h] /\ Fits(hs[h][a], n) /\ m.heap = [hs EXCEPT ![h] = Split(@, a, n)]
    BY <1>1, <1>3, <1>6
  <2>2. Owned(m, n, d) = [heap |-> h, at |-> a + HDR, size |-> n, data |-> d]
    BY <1>1 DEF Owned
  <2> HIDE DEF a
  <2>3. /\ Shaped(m.heap, k) /\ Owners(m.heap, blocks \cup {Owned(m, n, d)})
        /\ Owned(m, n, d) \in A!Block /\ A!Inside(Owned(m, n, d)) /\ A!Apart(Owned(m, n, d), blocks)
    BY <2>1, <2>2, GrantKeeps
  <2> QED
    BY <1>1, <2>3 DEF Granted
<1> QED
  BY <1>1, <1>5, <1>6

(* No heap has a block for n bytes, and none can be made that has. *)
NoRoom(n) ==
  /\ heap_count >= MAX_HEAPS - 1 \/ n + 2 * HDR > HeapBytes
  /\ \A h \in 0 .. heap_count - 1 : \A a \in DOMAIN heap[h] : ~Fits(heap[h][a], n)

LEMMA MallocIs ==
  ASSUME Shaped(heap, heap_count), Owners(heap, blocks),
         NEW n \in Nat, n > 0, NEW granted \in BOOLEAN, NEW m, m = Malloc(n, granted)
  PROVE  \/ Refused(m) /\ (granted => NoRoom(n))
         \/ m.at # NULL /\ \A d \in Data : Granted(m, n, d)
<1> DEFINE fit == {h \in Searched : FindBlock(heap[h], n) # NULL}
           h0 == CHOOSE h \in fit : \A g \in fit : h <= g
<1>0. heap_count \in Nat /\ MAX_HEAPS \in Nat /\ heap_count <= MAX_HEAPS - 1
      /\ HDR \in Nat /\ HeapBytes \in Nat
  BY MallocAssumption DEF Shaped
<1>1. CASE fit # {}
  <2>1. h0 \in fit
    <3>1. fit \in SUBSET Nat
      BY <1>0 DEF Searched
    <3> HIDE DEF fit
    <3> QED
      BY <1>1, <3>1, LeastExists
  <2>2. m = Try(h0, n, heap, heap_count)
    BY <1>1 DEF Malloc
  <2>3. h0 \in 0 .. heap_count - 1 /\ FindBlock(heap[h0], n) # NULL
    BY <2>1 DEF Searched
  <2> HIDE DEF h0
  <2> QED
    BY <2>2, <2>3, TryIs
<1>2. CASE fit = {}
  <2>0. ASSUME NEW h \in 0 .. heap_count - 1, NEW a \in DOMAIN heap[h] PROVE ~Fits(heap[h][a], n)
    <3>1. FindBlock(heap[h], n) = NULL
      BY <1>2 DEF Searched
    <3>2. Tiled(heap[h])
      BY <1>0, <2>0 DEF Shaped, HeapIds
    <3> QED
      BY <3>1, <3>2, FindBlockIs, HeapNumbers DEF NULL
  <2>1. CASE heap_count < MAX_HEAPS - 1 /\ granted
    <3> DEFINE hs == [heap EXCEPT ![heap_count] = Fresh]
               k == heap_count + 1
    <3>1. m = Try(heap_count, n, hs, k)
      BY <1>2, <2>1 DEF Malloc
    <3>2. Shaped(hs, k) /\ Owners(hs, blocks)
      <4> HIDE DEF hs
      <4>1. hs = [heap EXCEPT ![heap_count] = Fresh]
        BY DEF hs
      <4> QED
        BY <2>1, <4>1, NewHeapKeeps
    <3>3. heap_count \in 0 .. k - 1
      BY <1>0
    <3>4. hs[heap_count] = Fresh
      BY <1>0 DEF Shaped, HeapIds
    <3> HIDE DEF hs, k
    <3>5. \/ Refused(m) /\ \A a \in DOMAIN Fresh : ~Fits(Fresh[a], n)
          \/ m.at # NULL /\ \A d \in Data : Granted(m, n, d)
      BY <3>1, <3>2, <3>3, <3>4, TryIs
    <3>6. ASSUME \A a \in DOMAIN Fresh : ~Fits(Fresh[a], n) PROVE n + 2 * HDR > HeapBytes
      <4>1. ~Fits(Fresh[0], n)
        BY <3>6, FreshIsTiled
      <4>2. Fresh[0].free /\ Fresh[0].size = HeapBytes - HDR
        BY DEF Fresh
      <4> QED
        BY <1>0, <4>1, <4>2 DEF Fits
    <3> QED
      BY <2>0, <3>5, <3>6 DEF NoRoom
  <2>2. CASE ~(heap_count < MAX_HEAPS - 1 /\ granted)
    <3>1. m.at = NULL /\ m.heap = heap /\ m.count = heap_count
      BY <1>2, <2>2 DEF Malloc
    <3>2. granted => heap_count >= MAX_HEAPS - 1
      BY <1>0, <2>2
    <3> QED
      BY <2>0, <3>1, <3>2 DEF Refused, NoRoom
  <2> QED
    BY <2>1, <2>2
<1> QED
  BY <1>1, <1>2

-----------------------------------------------------------------------------
(* A reallocation holds its blocks, and no other has them. *)
Pending(ps, bs) ==
  /\ \A p \in ps : /\ p.old \in bs /\ p.new \subseteq bs
                   /\ p.old \notin p.new /\ \A c, d \in p.new : c = d
  /\ \A p, q \in ps : p = q \/ Involved(p) \cap Involved(q) = {}

(* The inductive invariant *)
IInv ==
  /\ Shaped(heap, heap_count) /\ Owners(heap, blocks) /\ Pending(moving, blocks)
  /\ answer \in {"null", "block", "freed", "refused"}

LEMMA IInvAtInit == ASSUME Init PROVE IInv
<1>1. Shaped(heap, heap_count)
  BY MallocAssumption DEF Init, Shaped, HeapIds
<1>2. Owners(heap, blocks) /\ Pending(moving, blocks)
  BY DEF Init, Owners, Pending
<1> QED
  BY <1>1, <1>2 DEF IInv, Init

(* malloc, and the first half of realloc: nothing changes for the owners, or *)
(* one of them has a new block.                                            *)
LEMMA AllocatedIs ==
  ASSUME IInv, NEW n \in 1 .. MaxSize, NEW granted \in BOOLEAN,
         NEW m, m = Malloc(n, granted), heap' = m.heap, heap_count' = m.count
  PROVE  /\ m.at = NULL /\ blocks' = blocks =>
              Shaped(heap', heap_count') /\ Owners(heap', blocks')
         /\ m.at # NULL => \A d \in Data : blocks' = blocks \cup {Owned(m, n, d)} =>
              /\ Shaped(heap', heap_count') /\ Owners(heap', blocks')
              /\ Owned(m, n, d) \notin blocks /\ A!Allocate
<1>1. n \in Nat /\ n > 0
  BY MallocAssumption
<1>2. Refused(m) \/ (m.at # NULL /\ \A d \in Data : Granted(m, n, d))
  BY <1>1, MallocIs DEF IInv
<1>3. m.at = NULL /\ blocks' = blocks => Shaped(heap', heap_count') /\ Owners(heap', blocks')
  BY <1>2 DEF Refused
<1>4. ASSUME m.at # NULL, NEW d \in Data, blocks' = blocks \cup {Owned(m, n, d)}
      PROVE  /\ Shaped(heap', heap_count') /\ Owners(heap', blocks')
             /\ Owned(m, n, d) \notin blocks /\ A!Allocate
  <2> DEFINE c == Owned(m, n, d)
  <2>1. /\ Shaped(m.heap, m.count) /\ Owners(m.heap, blocks \cup {c})
        /\ c \in A!Block /\ A!Inside(c) /\ A!Apart(c, blocks)
    BY <1>2, <1>4 DEF Granted, Refused
  <2>2. blocks' = blocks \cup {c}
    BY <1>4
  <2>3. c.at \in Nat /\ c.size \in Nat /\ c.size > 0
    BY <2>1, MallocAssumption DEF A!Block
  <2> HIDE DEF c
  <2>4. c \notin blocks
    BY <2>1, <2>3 DEF A!Apart
  <2>5. A!Allocate
    BY <2>1, <2>2, <2>4 DEF A!Allocate
  <2> QED
    BY <2>1, <2>2, <2>4, <2>5 DEF c
<1> QED
  BY <1>3, <1>4

(* What a call of malloc does to the blocks *)
LEMMA MallocStep ==
  ASSUME IInv, NEW n \in 0 .. MaxSize, NEW granted \in BOOLEAN, malloc(n, granted)
  PROVE  IInv' /\ (blocks' = blocks \/ A!Allocate)
<1>1. CASE n = 0
  BY <1>1 DEF malloc, IInv
<1>2. CASE n # 0
  <2> DEFINE m == Malloc(n, granted)
  <2>0. n \in 1 .. MaxSize
    BY <1>2, MallocAssumption
  <2>1. /\ heap' = m.heap /\ heap_count' = m.count /\ moving' = moving
        /\ IF m.at = NULL THEN answer' = "null" /\ UNCHANGED blocks
           ELSE answer' = "block" /\ \E d \in Data : blocks' = blocks \cup {Owned(m, n, d)}
    BY <1>2 DEF malloc
  <2> HIDE DEF m
  <2>2. m = Malloc(n, granted)
    BY DEF m
  <2>3. CASE m.at = NULL
    <3>1. Shaped(heap', heap_count') /\ Owners(heap', blocks')
      BY <2>0, <2>1, <2>2, <2>3, AllocatedIs
    <3> QED
      BY <2>1, <2>3, <3>1 DEF IInv
  <2>4. CASE m.at # NULL
    <3>1. PICK d \in Data : blocks' = blocks \cup {Owned(m, n, d)}
      BY <2>1, <2>4
    <3>2. Shaped(heap', heap_count') /\ Owners(heap', blocks') /\ A!Allocate
      BY <2>0, <2>1, <2>2, <2>4, <3>1, AllocatedIs
    <3>3. Pending(moving', blocks')
      BY <2>1, <3>1 DEF IInv, Pending
    <3> QED
      BY <2>1, <2>4, <3>2, <3>3 DEF IInv
  <2> QED
    BY <2>3, <2>4
<1> QED
  BY <1>1, <1>2

(* What is given back is accepted. *)
LEMMA GiveBackIs ==
  ASSUME IInv, NEW b \in blocks, GiveBack(b)
  PROVE  /\ Accepted(heap[b.heap], b.at - HDR)
         /\ Shaped(heap', heap_count') /\ Owners(heap', blocks \ {b})
<1> DEFINE hs == [heap EXCEPT ![b.heap] = Release(@, b.at - HDR)]
<1>1. Accepted(heap[b.heap], b.at - HDR) /\ Shaped(hs, heap_count) /\ Owners(hs, blocks \ {b})
  <2> HIDE DEF hs
  <2>1. hs = [heap EXCEPT ![b.heap] = Release(@, b.at - HDR)]
    BY DEF hs
  <2> QED
    BY <2>1, GiveBackKeeps DEF IInv
<1>2. heap' = hs /\ heap_count' = heap_count
  BY <1>1 DEF GiveBack
<1> HIDE DEF hs
<1> QED
  BY <1>1, <1>2

LEMMA FreeStep ==
  ASSUME IInv, NEW b, free(b)
  PROVE  IInv' /\ A!Free
<1>1. /\ b \in blocks /\ blocks' = blocks \ {b} /\ moving' = moving
      /\ answer' \in {"freed", "refused"} /\ \A p \in moving : b \notin Involved(p)
  BY DEF free
<1>2. Shaped(heap', heap_count') /\ Owners(heap', blocks')
  BY <1>1, GiveBackIs DEF free
<1>3. Pending(moving', blocks')
  BY <1>1 DEF IInv, Pending, Involved
<1> QED
  BY <1>1, <1>2, <1>3 DEF IInv, A!Free

(* The block that a reallocation begins with is in no other. *)
LEMMA PendingOneMore ==
  ASSUME NEW bs, NEW ps, Pending(ps, bs), NEW b \in bs, \A p \in ps : b \notin Involved(p),
         NEW cs, cs \cap bs = {}, \A c, d \in cs : c = d,
         NEW bs2, bs2 = bs \cup cs, NEW r, r = [old |-> b, new |-> cs]
  PROVE  Pending(ps \cup {r}, bs2)
<1>1. r.old = b /\ r.new = cs /\ Involved(r) = {b} \cup cs
  BY DEF Involved
<1>2. ASSUME NEW p \in ps PROVE Involved(p) \subseteq bs /\ Involved(p) \cap Involved(r) = {}
  <2>1. Involved(p) \subseteq bs
    BY DEF Pending, Involved
  <2> QED
    BY <1>1, <2>1
<1> QED
  BY <1>1, <1>2 DEF Pending

LEMMA ReallocAllocateStep ==
  ASSUME IInv, NEW b, NEW n \in 1 .. MaxSize, NEW granted \in BOOLEAN,
         realloc_allocate(b, n, granted)
  PROVE  IInv' /\ (blocks' = blocks \/ A!Allocate)
<1> DEFINE m == Malloc(n, granted)
<1>1. /\ b \in blocks /\ \A p \in moving : b \notin Involved(p)
      /\ heap' = m.heap /\ heap_count' = m.count /\ answer' = answer
      /\ IF m.at = NULL
         THEN moving' = moving \cup {[old |-> b, new |-> {}]} /\ UNCHANGED blocks
         ELSE \E d \in Data : /\ blocks' = blocks \cup {Owned(m, n, d)}
                              /\ moving' = moving \cup {[old |-> b, new |-> {Owned(m, n, d)}]}
  BY DEF realloc_allocate
<1> HIDE DEF m
<1>2. m = Malloc(n, granted)
  BY DEF m
<1>3. CASE m.at = NULL
  <2>1. Shaped(heap', heap_count') /\ Owners(heap', blocks')
    BY <1>1, <1>2, <1>3, AllocatedIs
  <2>2. Pending(moving', blocks')
    <3>1. {} \cap blocks = {} /\ blocks' = blocks \cup {}
          /\ moving' = moving \cup {[old |-> b, new |-> {}]}
      BY <1>1, <1>3
    <3> QED
      BY <1>1, <3>1, PendingOneMore DEF IInv
  <2> QED
    BY <1>1, <1>3, <2>1, <2>2 DEF IInv
<1>4. CASE m.at # NULL
  <2>1. PICK d \in Data : /\ blocks' = blocks \cup {Owned(m, n, d)}
                          /\ moving' = moving \cup {[old |-> b, new |-> {Owned(m, n, d)}]}
    BY <1>1, <1>4
  <2>2. /\ Shaped(heap', heap_count') /\ Owners(heap', blocks')
        /\ Owned(m, n, d) \notin blocks /\ A!Allocate
    BY <1>1, <1>2, <1>4, <2>1, AllocatedIs
  <2>3. Pending(moving', blocks')
    <3> DEFINE c == Owned(m, n, d)
    <3>1. {c} \cap blocks = {} /\ blocks' = blocks \cup {c}
          /\ moving' = moving \cup {[old |-> b, new |-> {c}]}
      BY <2>1, <2>2
    <3> HIDE DEF c
    <3> QED
      BY <1>1, <3>1, PendingOneMore DEF IInv
  <2> QED
    BY <1>1, <2>2, <2>3 DEF IInv
<1> QED
  BY <1>3, <1>4

(* New data in a block is nobody else's business. *)
LEMMA CopiedKeeps ==
  ASSUME NEW hs, NEW bs, Owners(hs, bs), NEW c \in bs, NEW b, b.data \in Data
  PROVE  Owners(hs, (bs \ {c}) \cup {Copied(b, c)})
<1> DEFINE c2 == Copied(b, c)
<1>1. c \in A!Block
  BY DEF Owners
<1>2. c2 \in A!Block /\ c2.heap = c.heap /\ c2.at = c.at /\ c2.size = c.size
  BY <1>1 DEF Copied, A!Block
<1> HIDE DEF c2
<1>3. InUseAt(hs, c2)
  BY <1>2 DEF Owners, InUseAt
<1>4. \A h \in HeapIds : \A a \in DOMAIN hs[h] :
        ~hs[h][a].free => \E e \in (bs \ {c}) \cup {c2} : e.heap = h /\ e.at = a + HDR
  BY <1>2 DEF Owners
<1>5. ASSUME NEW e \in bs \ {c} PROVE ~SamePlace(e, c2) /\ ~SamePlace(c2, e)
  BY <1>2 DEF Owners, SamePlace
<1> QED
  BY <1>2, <1>3, <1>4, <1>5 DEF Owners, c2

LEMMA ReallocFreeStep ==
  ASSUME IInv, NEW p, realloc_free(p)
  PROVE  IInv' /\ (A!Free \/ A!Move)
<1> DEFINE b == p.old
<1>1. /\ p \in moving /\ moving' = moving \ {p} /\ GiveBack(b)
      /\ blocks' = (blocks \ Involved(p)) \cup {Copied(b, c) : c \in p.new}
      /\ answer' \in {"null", "block"}
  BY DEF realloc_free
<1>2. /\ b \in blocks /\ p.new \subseteq blocks /\ b \notin p.new
      /\ \A c, d \in p.new : c = d
      /\ Involved(p) = {b} \cup p.new
  BY <1>1 DEF IInv, Pending, Involved
<1> HIDE DEF b
<1>3. Shaped(heap', heap_count') /\ Owners(heap', blocks \ {b})
  BY <1>1, <1>2, GiveBackIs
<1>4. Pending(moving', blocks')
  <2>1. ASSUME NEW q \in moving' PROVE Involved(q) \cap Involved(p) = {} /\ Involved(q) \subseteq blocks
    BY <1>1 DEF IInv, Pending, Involved
  <2>2. ASSUME NEW q \in moving' PROVE Involved(q) \subseteq blocks'
    BY <1>1, <2>1
  <2>3. ASSUME NEW q \in moving' PROVE q.old \in blocks' /\ q.new \subseteq blocks'
    BY <2>2 DEF Involved
  <2> QED
    BY <1>1, <2>3 DEF IInv, Pending
<1>5. CASE p.new = {}
  <2>1. blocks' = blocks \ {b}
    BY <1>1, <1>2, <1>5
  <2> QED
    BY <1>1, <1>2, <1>3, <1>4, <2>1 DEF IInv, A!Free
<1>6. CASE p.new # {}
  <2>1. PICK c \in blocks : p.new = {c} /\ c # b
    BY <1>2, <1>6
  <2>2. blocks' = (blocks \ {b, c}) \cup {Copied(b, c)}
    BY <1>1, <1>2, <2>1
  <2>3. b.data \in Data
    BY <1>2, BlockNumbers DEF IInv
  <2>4. Owners(heap', ((blocks \ {b}) \ {c}) \cup {Copied(b, c)})
    BY <1>3, <2>1, <2>3, CopiedKeeps
  <2>5. ((blocks \ {b}) \ {c}) \cup {Copied(b, c)} = blocks'
    BY <2>2
  <2>6. A!Move
    BY <1>2, <2>1, <2>2 DEF A!Move, Copied
  <2> QED
    BY <1>1, <1>3, <1>4, <2>4, <2>5, <2>6 DEF IInv
<1> QED
  BY <1>5, <1>6

(* Every step keeps the invariant and is one of Allocator's or leaves its   *)
(* blocks alone.                                                            *)
LEMMA StepIs ==
  ASSUME IInv, [Next]_vars
  PROVE  IInv' /\ [A!Next]_blocks
<1>1. CASE UNCHANGED vars
  BY <1>1 DEF vars, IInv
<1>2. ASSUME NEW n \in 0 .. MaxSize, NEW granted \in BOOLEAN, malloc(n, granted)
      PROVE  IInv' /\ [A!Next]_blocks
  BY <1>2, MallocStep DEF A!Next
<1>3. ASSUME NEW b \in blocks, free(b)
      PROVE  IInv' /\ [A!Next]_blocks
  BY <1>3, FreeStep DEF A!Next
<1>4. ASSUME NEW b \in blocks, NEW n \in 1 .. MaxSize, NEW granted \in BOOLEAN,
             realloc_allocate(b, n, granted)
      PROVE  IInv' /\ [A!Next]_blocks
  BY <1>4, ReallocAllocateStep DEF A!Next
<1>5. ASSUME NEW p \in moving, realloc_free(p)
      PROVE  IInv' /\ [A!Next]_blocks
  BY <1>5, ReallocFreeStep DEF A!Next
<1> QED
  BY <1>1, <1>2, <1>3, <1>4, <1>5 DEF Next

LEMMA Invariance == Spec => []IInv
<1>1. Init => IInv
  BY IInvAtInit
<1>2. IInv /\ [Next]_vars => IInv'
  BY StepIs
<1> QED
  BY <1>1, <1>2, PTL DEF Spec

-----------------------------------------------------------------------------
LEMMA IntactNow == ASSUME IInv PROVE HeapsIntact
<1>1. heap_count \in 0 .. MAX_HEAPS - 1 /\ HeapIds = 0 .. MAX_HEAPS - 1 /\ MAX_HEAPS \in Nat
  BY MallocAssumption DEF IInv, Shaped, HeapIds
<1>2. \A h \in HeapIds : IF h < heap_count THEN Tiled(heap[h]) ELSE DOMAIN heap[h] = {}
  BY DEF IInv, Shaped
<1>3. TypeOK
  <2>1. heap_count \in 0 .. MAX_HEAPS
    BY <1>1
  <2>2. ASSUME NEW h \in HeapIds, NEW a \in DOMAIN heap[h]
        PROVE  a \in 0 .. HeapBytes /\ heap[h][a].size \in Nat /\ heap[h][a].free \in BOOLEAN
    <3>1. Tiled(heap[h])
      BY <1>2
    <3>2. a \in 0 .. HeapBytes
      <4>1. a \in Nat /\ a < HeapBytes /\ HeapBytes \in Nat
        BY <3>1, HeapNumbers
      <4> QED
        BY <4>1
    <3> QED
      BY <3>1, <3>2, Zenon DEF Tiled
  <2>3. \A p \in moving : Involved(p) \subseteq blocks
    BY DEF IInv, Pending, Involved
  <2> QED
    BY <2>1, <2>2, <2>3 DEF TypeOK, IInv
<1>4. HeapsTiled
  <2> SUFFICES ASSUME NEW h \in 0 .. heap_count - 1
               PROVE  LET walk[a \in 0 .. 2 * HeapBytes] ==
                            IF a = HeapBytes THEN {} ELSE IF a \notin DOMAIN heap[h] THEN {NULL}
                            ELSE {a} \cup walk[Behind(heap[h], a)]
                      IN walk[0] = DOMAIN heap[h]
    BY DEF HeapsTiled
  <2>1. Tiled(heap[h])
    BY <1>1, <1>2
  <2> QED
    BY <2>1, WalkIsTiled
<1>5. InUseIsOwned
  <2> SUFFICES ASSUME NEW h \in HeapIds
               PROVE  {<<a + HDR, heap[h][a].size>> : a \in {x \in DOMAIN heap[h] : ~heap[h][x].free}}
                        = {<<b.at, b.size>> : b \in {c \in blocks : c.heap = h}}
    BY DEF InUseIsOwned
  <2>1. ASSUME NEW a \in DOMAIN heap[h], ~heap[h][a].free
        PROVE  \E b \in blocks : b.heap = h /\ b.at = a + HDR /\ b.size = heap[h][a].size
    <3>1. PICK b \in blocks : b.heap = h /\ b.at = a + HDR
      BY <2>1 DEF IInv, Owners
    <3>2. Tiled(heap[h])
      BY <1>2
    <3>3. a \in Nat /\ HDR \in Nat
      BY <3>2, HeapNumbers
    <3>4. b.at - HDR = a
      BY <3>1, <3>3
    <3>5. InUseAt(heap, b)
      BY DEF IInv, Owners
    <3> QED
      BY <3>1, <3>4, <3>5 DEF InUseAt
  <2>2. ASSUME NEW b \in blocks, b.heap = h
        PROVE  \E a \in DOMAIN heap[h] : ~heap[h][a].free /\ a + HDR = b.at /\ heap[h][a].size = b.size
    <3>1. InUseAt(heap, b)
      BY DEF IInv, Owners
    <3>2. (b.at - HDR) + HDR = b.at
      BY BlockNumbers DEF IInv
    <3> QED
      BY <2>2, <3>1, <3>2 DEF InUseAt
  <2> QED
    BY <2>1, <2>2
<1> QED
  BY <1>3, <1>4, <1>5 DEF HeapsIntact

(* HeapsIntact: the walks of malloc and free end where the heap ends, and   *)
(* the blocks in use are those the callers own (mm_allocate_block_from_heap *)
(* and mm_free_block_from_heap).                                            *)
THEOREM HeapsStayIntact == Spec => []HeapsIntact
<1>1. IInv => HeapsIntact
  BY IntactNow
<1> QED
  BY <1>1, Invariance, PTL

(* Allocates: malloc, free and realloc hand out disjoint blocks inside their *)
(* heap, as large as they were asked for, and realloc keeps the data.       *)
THEOREM ImplementsAllocator == Spec => Allocates
<1>1. Init => A!Init
  BY DEF Init, A!Init
<1>2. IInv /\ [Next]_vars => [A!Next]_blocks
  BY StepIs
<1> QED
  BY <1>1, <1>2, Invariance, PTL DEF Spec, Allocates, A!Spec

(* NullOnlyIfFull: the heaps are searched to the end before malloc gives up. *)
THEOREM NullMeansFull == Spec => NullOnlyIfFull
<1> DEFINE Full(n) ==
      /\ heap_count >= MAX_HEAPS - 1 \/ n + 2 * HDR > HeapBytes
      /\ \A h \in 0 .. heap_count - 1 : \A a \in DOMAIN heap[h] :
           ~(heap[h][a].free /\ heap[h][a].size >= n + HDR)
<1>1. ASSUME IInv, NEW n \in 1 .. MaxSize, malloc(n, TRUE), answer' = "null"
      PROVE  Full(n)
  <2> DEFINE m == Malloc(n, TRUE)
  <2>1. n \in Nat /\ n > 0
    BY MallocAssumption
  <2>2. m.at = NULL
    <3>1. n # 0
      BY <2>1
    <3>2. m.at # NULL => answer' = "block"
      BY <1>1, <3>1, Zenon DEF malloc
    <3> HIDE DEF m
    <3> QED
      BY <1>1, <3>2
  <2> HIDE DEF m
  <2>3. m = Malloc(n, TRUE)
    BY DEF m
  <2>4. NoRoom(n)
    BY <1>1, <2>1, <2>2, <2>3, MallocIs DEF IInv
  <2> QED
    BY <2>4 DEF NoRoom, Fits
<1>2. IInv => \A n \in 1 .. MaxSize : malloc(n, TRUE) /\ answer' = "null" => Full(n)
  BY <1>1
<1>3. IInv => [\A n \in 1 .. MaxSize : malloc(n, TRUE) /\ answer' = "null" => Full(n)]_vars
  BY <1>2
<1> QED
  BY <1>3, Invariance, PTL DEF NullOnlyIfFull
=============================================================================
