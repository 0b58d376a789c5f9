----------------------------- MODULE VfsProofs -----------------------------
(***************************************************************************)
(* Proofs about Vfs, for any finite set of streams, any paths, any blocks, *)
(* any number of nodes and any length of files.                            *)
(***************************************************************************)
EXTENDS Vfs, FiniteSetTheorems, SequenceTheorems, WellFoundedInduction, TLAPS

-----------------------------------------------------------------------------
(* The natural numbers are well ordered. *)
LEMMA LeastExists ==
  ASSUME NEW T \in SUBSET Nat, T # {}
  PROVE  \E x \in T : \A y \in T : x <= y
<1> DEFINE R == OpToRel(<, Nat)
<1>1. IsWellFoundedOn(R, Nat)
  BY NatLessThanWellFounded
<1>2. \A x, y \in Nat : y < x => <<y, x>> \in R
  BY DEF OpToRel
<1> HIDE DEF R
<1>3. PICK x \in T : \A y \in T : ~(<<y, x>> \in R)
  BY <1>1, WFMin
<1>4. ASSUME NEW y \in T PROVE x <= y
  <2>1. x \in Nat /\ y \in Nat
    OBVIOUS
  <2>2. ~(<<y, x>> \in R)
    BY <1>3
  <2>3. ~(y < x)
    BY <1>2, <2>1, <2>2, Zenon
  <2> QED
    BY <2>1, <2>3
<1> QED
  BY <1>4

-----------------------------------------------------------------------------
(* Nodes and what is in them *)

Fields == {"type", "name", "parent", "rwe", "ref", "size", "cap", "content", "ready"}

Types == {"none", "dir", "file", "device", "mount"}

Used(i) == node[i].type # "none"

(* What is not in use is empty, a file's bytes lie in its buffer, and a     *)
(* mount point has its driver.                                              *)
ProperNode(r) ==
  /\ DOMAIN r = Fields
  /\ r.type \in Types
  /\ r.size \in Nat /\ r.cap \in Nat /\ r.size <= r.cap
  /\ r.content \in Seq(Bytes \cup {JUNK})
  /\ Len(r.content) \in {0, r.cap}
  /\ r.type = "none" => r = Unused
  /\ r.type = "mount" => r.ready = TRUE

Nodes == DOMAIN node = Ids /\ \A i \in Ids : ProperNode(node[i])

(* The nodes in use come first, each behind its parent, and no two of one   *)
(* parent have the same name.  Below a mount point there are directories    *)
(* only, and nothing below those.                                           *)
Tree ==
  /\ node[1].type = "dir" /\ node[1].parent = 0
  /\ \A i \in Ids : node[i].parent \in 0 .. MaxNodes
  /\ \A i, j \in Ids : Used(j) /\ i < j => Used(i)
  /\ \A j \in Ids : Used(j) /\ j # 1 =>
       node[j].parent \in Ids /\ node[j].parent < j /\ node[j].name \in STRING
  /\ \A i, j \in Ids : Used(i) /\ Used(j) /\ node[i].parent = node[j].parent
                         /\ node[i].name = node[j].name => i = j
  /\ \A i, j \in Ids : Used(i) /\ Used(j) /\ node[j].parent = i
                         /\ i # 1 /\ node[i].parent \in Ids => node[node[i].parent].type # "mount"
  /\ \A j \in Ids : Used(j) /\ j # 1 /\ node[node[j].parent].type = "mount" => node[j].type = "dir"

LEMMA Numbers ==
  MaxNodes \in Nat /\ MaxNodes > 0 /\ 1 \in Ids /\ Ids \subseteq Nat /\ 0 \notin Ids
  /\ Ids \subseteq 0 .. MaxNodes /\ \A i \in 0 .. MaxNodes : i # 0 => i \in Ids
BY VfsAssumption DEF Ids

(* What a new node holds *)
LEMMA NewNodeIs ==
  ASSUME NEW type, NEW name, NEW parent, NEW rwe, NEW r, r = NewNode(type, name, parent, rwe)
  PROVE  /\ DOMAIN r = Fields
         /\ r.type = type /\ r.name = name /\ r.parent = parent
         /\ r.ref = 0 /\ r.size = 0 /\ r.cap = 0 /\ r.content = <<>>
         /\ r.ready = (type \in {"device", "mount"})
BY DEF NewNode, Unused, Fields

LEMMA UnusedIs ==
  /\ DOMAIN Unused = Fields
  /\ Unused.type = "none" /\ Unused.parent = 0
  /\ Unused.ref = 0 /\ Unused.size = 0 /\ Unused.cap = 0 /\ Unused.content = <<>>
BY DEF Unused, Fields

-----------------------------------------------------------------------------
(* Paths.  The walk over a path, and its steps.                             *)
WalkStep(path, w, k, i) ==
  IF k = Len(path) THEN [found |-> TRUE, at |-> i, crossing |-> FALSE]
  ELSE IF Child(i, path[k + 1]) = {} THEN NotFound
  ELSE LET c == CHOOSE j \in Child(i, path[k + 1]) : TRUE
       IN IF Crosses(c) THEN [found |-> TRUE, at |-> c, crossing |-> TRUE]
          ELSE w[k + 1][c]

Walks(path, w) == \A k \in 0 .. Len(path) : \A i \in Ids : w[k][i] = WalkStep(path, w, k, i)

LEMMA WalkIs ==
  ASSUME NEW path \in Seq(STRING)
  PROVE  \E w : Walks(path, w) /\ Walked(path) = w[0][1]
<1> DEFINE N == Len(path)
           Row(w, k) == [i \in Ids |-> WalkStep(path, w, k, i)]
           F(w) == [k \in 0 .. N |-> Row(w, k)]
           From(m, w) == DOMAIN w = 0 .. N /\ w = [k \in 0 .. N |-> w[k]]
                           /\ \A k \in N - m .. N : w[k] = Row(w, k)
           Bad == {m \in 0 .. N : \A w : ~From(m, w)}
           walk == CHOOSE w : w = F(w)
<1>0. N \in Nat
  OBVIOUS
<1> HIDE DEF N
<1>1. Bad = {}
  <2> SUFFICES ASSUME Bad # {} PROVE FALSE
    OBVIOUS
  <2>1. PICK m \in Bad : \A n \in Bad : m <= n
    <3>1. Bad \in SUBSET Nat
      BY <1>0
    <3> HIDE DEF Bad
    <3> QED
      BY <3>1, LeastExists
  <2>2. m \in 0 .. N /\ \A w : ~From(m, w)
    BY <2>1
  <2>3. CASE m = 0
    <3> DEFINE u == [k \in 0 .. N |-> Row(<<>>, N)]
    <3>1. Row(u, N) = Row(<<>>, N)
      BY DEF WalkStep, N
    <3>2. u = [k \in 0 .. N |-> u[k]] /\ DOMAIN u = 0 .. N /\ u[N] = Row(<<>>, N)
      BY <1>0
    <3> HIDE DEF u, Row
    <3>3. \A k \in N - 0 .. N : k = N
      BY <1>0
    <3>4. From(0, u)
      BY <3>1, <3>2, <3>3
    <3> QED
      BY <2>2, <2>3, <3>4
  <2>4. CASE m # 0
    <3>1. m - 1 \in 0 .. N /\ ~(m <= m - 1) /\ N - m \in 0 .. N /\ (N - m) + 1 = N - (m - 1)
      BY <1>0, <2>2, <2>4
    <3>2. m - 1 \notin Bad
      BY <2>1, <3>1
    <3>3. PICK w : From(m - 1, w)
      BY <3>1, <3>2
    <3> DEFINE c == N - m
               u == [k \in 0 .. N |-> IF k = c THEN Row(w, c) ELSE w[k]]
    <3>4. ASSUME NEW k \in 0 .. N, k >= c PROVE Row(u, k) = Row(w, k)
      <4>1. k = N \/ k + 1 \in 0 .. N
        BY <1>0
      <4>2. k + 1 # c
        BY <1>0, <2>2, <3>1, <3>4
      <4>3. k # N => u[k + 1] = w[k + 1]
        BY <4>1, <4>2
      <4> HIDE DEF u
      <4> QED
        BY <4>3 DEF WalkStep, N
    <3>5. u = [k \in 0 .. N |-> u[k]] /\ DOMAIN u = 0 .. N /\ u[c] = Row(w, c)
      BY <3>1
    <3>6. ASSUME NEW k \in N - m .. N PROVE u[k] = Row(u, k)
      <4>1. k \in 0 .. N /\ k >= c
        BY <1>0, <2>2
      <4>2. CASE k = c
        <5> HIDE DEF u, Row, c
        <5> QED
          BY <3>4, <3>5, <4>1, <4>2
      <4>3. CASE k # c
        <5>1. k \in N - (m - 1) .. N
          BY <1>0, <2>2, <4>1, <4>3
        <5>2. w[k] = Row(w, k)
          BY <3>3, <5>1
        <5>3. u[k] = w[k]
          BY <4>1, <4>3
        <5> HIDE DEF u, Row, c
        <5> QED
          BY <3>4, <4>1, <5>2, <5>3
      <4> QED
        BY <4>2, <4>3
    <3> HIDE DEF u, Row
    <3>7. From(m, u)
      BY <3>5, <3>6
    <3> QED
      BY <2>2, <3>7
  <2> QED
    BY <2>3, <2>4
<1>2. PICK w : From(N, w)
  <2>1. N \in 0 .. N
    BY <1>0
  <2> QED
    BY <1>1, <2>1
<1>3. w = F(w)
  <2>1. \A k \in 0 .. N : k \in N - N .. N
    BY <1>0
  <2> HIDE DEF Row
  <2> QED
    BY <1>2, <2>1
<1> HIDE DEF F
<1>4. walk = F(walk)
  BY <1>3, Zenon
<1>5. Walked(path) = walk[0][1]
  BY DEF Walked, walk, F, WalkStep, N
<1> HIDE DEF walk
<1>6. Walks(path, walk)
  <2> SUFFICES ASSUME NEW k \in 0 .. N, NEW i \in Ids
               PROVE  walk[k][i] = WalkStep(path, walk, k, i)
    BY DEF Walks, N
  <2>1. walk[k] = Row(walk, k)
    <3> HIDE DEF Row
    <3> QED
      BY <1>4 DEF F
  <2> QED
    BY <2>1
<1> QED
  BY <1>5, <1>6

(* Where a path can lead: to a node that no mount point hides *)
Outside(i) == i = 1 \/ node[node[i].parent].type # "mount"

FoundAt(i) == [found |-> TRUE, at |-> i, crossing |-> node[i].type = "mount"]

Result(r) == r = NotFound \/ \E i \in Ids : Used(i) /\ Outside(i) /\ r = FoundAt(i)

LEMMA ChildIs ==
  ASSUME Nodes, Tree, NEW i \in Ids, NEW x, NEW c \in Child(i, x)
  PROVE  /\ c \in Ids /\ Used(c) /\ node[c].parent = i /\ node[c].name = x /\ c # 1
         /\ Child(i, x) = {c}
<1>1. c \in Ids /\ Used(c) /\ node[c].parent = i /\ node[c].name = x
  BY DEF Child, Children, Used
<1>2. c # 1
  BY <1>1, Numbers DEF Tree
<1>3. \A d \in Child(i, x) : d \in Ids /\ Used(d) /\ node[d].parent = i /\ node[d].name = x
  BY DEF Child, Children, Used
<1>4. \A d \in Child(i, x) : d = c
  BY <1>1, <1>3 DEF Tree
<1> QED
  BY <1>1, <1>2, <1>4

LEMMA FoundAtIs ==
  ASSUME NEW i
  PROVE  /\ node[i].type = "mount" => FoundAt(i) = [found |-> TRUE, at |-> i, crossing |-> TRUE]
         /\ node[i].type # "mount" => FoundAt(i) = [found |-> TRUE, at |-> i, crossing |-> FALSE]
<1>1. CASE node[i].type = "mount"
  <2>1. (node[i].type = "mount") = TRUE
    BY <1>1
  <2> QED
    BY <1>1, <2>1, Zenon DEF FoundAt
<1>2. CASE node[i].type # "mount"
  <2>1. (node[i].type = "mount") = FALSE
    BY <1>2
  <2> QED
    BY <1>2, <2>1, Zenon DEF FoundAt
<1> QED
  BY <1>1, <1>2

(* One step of the walk *)
LEMMA StepOfWalk ==
  ASSUME Nodes, Tree, NEW path \in Seq(STRING), NEW w, NEW k \in 0 .. Len(path), NEW i \in Ids
  PROVE  /\ k = Len(path) =>
              WalkStep(path, w, k, i) = [found |-> TRUE, at |-> i, crossing |-> FALSE]
         /\ k # Len(path) /\ Child(i, path[k + 1]) = {} => WalkStep(path, w, k, i) = NotFound
         /\ \A c \in Child(i, path[k + 1]) :
              k # Len(path) =>
                /\ node[c].type = "mount" => WalkStep(path, w, k, i) = FoundAt(c)
                /\ node[c].type # "mount" => WalkStep(path, w, k, i) = w[k + 1][c]
<1>1. ASSUME k # Len(path), NEW c \in Child(i, path[k + 1])
      PROVE  /\ node[c].type = "mount" => WalkStep(path, w, k, i) = FoundAt(c)
             /\ node[c].type # "mount" => WalkStep(path, w, k, i) = w[k + 1][c]
  <2>1. Child(i, path[k + 1]) = {c}
    BY ChildIs
  <2>2. (CHOOSE j \in Child(i, path[k + 1]) : TRUE) = c
    BY <2>1
  <2>3. WalkStep(path, w, k, i) =
          IF node[c].type = "mount" THEN [found |-> TRUE, at |-> c, crossing |-> TRUE]
          ELSE w[k + 1][c]
    BY <1>1, <2>1, <2>2 DEF WalkStep, Crosses
  <2> QED
    BY <2>3, FoundAtIs
<1> QED
  BY <1>1 DEF WalkStep

LEMMA WalkedIs ==
  ASSUME Nodes, Tree, NEW path \in Seq(STRING)
  PROVE  Result(Walked(path))
<1> DEFINE N == Len(path)
           Open(i) == Used(i) /\ Outside(i) /\ node[i].type # "mount"
<1>0. N \in Nat
  OBVIOUS
<1>1. PICK w : Walks(path, w) /\ Walked(path) = w[0][1]
  BY WalkIs
<1> DEFINE Good(k) == \A i \in Ids : Open(i) => Result(w[k][i])
           Bad == {m \in 0 .. N : ~Good(N - m)}
<1> HIDE DEF N
<1>2. ASSUME NEW k \in 0 .. N, k # N => Good(k + 1) PROVE Good(k)
  <2> SUFFICES ASSUME NEW i \in Ids, Open(i) PROVE Result(w[k][i])
    OBVIOUS
  <2>0. k \in 0 .. Len(path)
    BY DEF N
  <2>1. w[k][i] = WalkStep(path, w, k, i)
    BY <1>1, <2>0 DEF Walks
  <2>2. CASE k = N
    <3>1. w[k][i] = [found |-> TRUE, at |-> i, crossing |-> FALSE]
      BY <2>0, <2>1, <2>2, StepOfWalk DEF N
    <3>2. w[k][i] = FoundAt(i)
      BY <3>1, FoundAtIs
    <3> QED
      BY <3>2 DEF Result
  <2>3. CASE k # N /\ Child(i, path[k + 1]) = {}
    <3>1. w[k][i] = NotFound
      BY <2>0, <2>1, <2>3, StepOfWalk DEF N
    <3> QED
      BY <3>1 DEF Result
  <2>4. CASE k # N /\ Child(i, path[k + 1]) # {}
    <3>1. PICK c \in Child(i, path[k + 1]) : TRUE
      BY <2>4
    <3>2. c \in Ids /\ Used(c) /\ Outside(c)
      BY <3>1, ChildIs DEF Outside
    <3>3. CASE node[c].type = "mount"
      <4>1. w[k][i] = FoundAt(c)
        BY <2>0, <2>1, <2>4, <3>3, StepOfWalk DEF N
      <4> QED
        BY <3>2, <4>1 DEF Result
    <3>4. CASE node[c].type # "mount"
      <4>1. w[k][i] = w[k + 1][c]
        BY <2>0, <2>1, <2>4, <3>4, StepOfWalk DEF N
      <4> QED
        BY <1>2, <2>4, <3>2, <3>4, <4>1
    <3> QED
      BY <3>3, <3>4
  <2> QED
    BY <2>2, <2>3, <2>4
<1>3. Bad = {}
  <2> SUFFICES ASSUME Bad # {} PROVE FALSE
    OBVIOUS
  <2> HIDE DEF Good
  <2>1. PICK m \in Bad : \A n \in Bad : m <= n
    <3>1. Bad \in SUBSET Nat
      BY <1>0
    <3> HIDE DEF Bad
    <3> QED
      BY <3>1, LeastExists
  <2>2. m \in 0 .. N /\ N - m \in 0 .. N /\ ~Good(N - m)
    BY <1>0
  <2>3. N - m # N => Good((N - m) + 1)
    <3> SUFFICES ASSUME N - m # N PROVE Good((N - m) + 1)
      OBVIOUS
    <3>1. m - 1 \in 0 .. N /\ ~(m <= m - 1) /\ (N - m) + 1 = N - (m - 1)
      BY <1>0, <2>2
    <3>2. m - 1 \notin Bad
      BY <2>1, <3>1
    <3> QED
      BY <3>1, <3>2
  <2> QED
    BY <1>2, <2>2, <2>3
<1>4. Good(0)
  <2>1. N \in 0 .. N /\ N - N = 0
    BY <1>0
  <2> HIDE DEF Good
  <2> QED
    BY <1>3, <2>1
<1>5. Open(1)
  BY DEF Tree, Used, Outside
<1> QED
  BY <1>1, <1>4, <1>5, Numbers

LEMMA NamesIs ==
  ASSUME NEW path \in Seq(STRING)
  PROVE  Names(path) \in Seq(STRING)
<1>1. <<>> \in Seq(STRING)
  BY EmptySeq
<1> QED
  BY <1>1 DEF Names

LEMMA ParseIs ==
  ASSUME Nodes, Tree, NEW path \in Seq(STRING)
  PROVE  Result(vfs_parse_url(path))
BY NamesIs, WalkedIs DEF vfs_parse_url

(* A sequence and one more element *)
LEMMA AppendIs ==
  ASSUME NEW S, NEW s \in Seq(S), NEW x \in S
  PROVE  /\ Append(s, x) \in Seq(S) /\ Len(Append(s, x)) = Len(s) + 1
         /\ Append(s, x)[Len(s) + 1] = x
         /\ \A k \in 0 .. Len(s) : k # Len(s) => Append(s, x)[k + 1] = s[k + 1]
<1>1. /\ Append(s, x) \in Seq(S) /\ Len(Append(s, x)) = Len(s) + 1
      /\ \A i \in 1 .. Len(s) : Append(s, x)[i] = s[i]
      /\ Append(s, x)[Len(s) + 1] = x
  BY AppendProperties
<1>2. Len(s) \in Nat
  OBVIOUS
<1> DEFINE q == Append(s, x)
           n == Len(s)
<1> HIDE DEF q, n
<1>3. ASSUME NEW k \in 0 .. n, k # n PROVE q[k + 1] = s[k + 1]
  <2>1. k + 1 \in 1 .. n
    BY <1>2, <1>3 DEF n
  <2> QED
    BY <1>1, <2>1 DEF q, n
<1> QED
  BY <1>1, <1>3 DEF q, n

LEMMA RootIsFound ==
  ASSUME Nodes, Tree
  PROVE  Walked(<<>>) = FoundAt(1)
<1>1. <<>> \in Seq(STRING) /\ Len(<<>>) = 0
  BY EmptySeq
<1> DEFINE q == <<>>
<1>2. q \in Seq(STRING) /\ Len(q) = 0
  BY <1>1
<1> HIDE DEF q
<1>3. PICK w : Walks(q, w) /\ Walked(q) = w[0][1]
  BY <1>2, WalkIs
<1>4. w[0][1] = WalkStep(q, w, 0, 1)
  BY <1>2, <1>3, Numbers DEF Walks
<1>5. w[0][1] = [found |-> TRUE, at |-> 1, crossing |-> FALSE]
  BY <1>2, <1>4 DEF WalkStep
<1>6. FoundAt(1) = [found |-> TRUE, at |-> 1, crossing |-> FALSE]
  BY FoundAtIs DEF Tree
<1>7. Walked(q) = FoundAt(1)
  BY <1>3, <1>5, <1>6
<1> QED
  BY <1>7 DEF q

(* A path one name longer leads to the child of that name, or across the    *)
(* same mount point.                                                        *)
LEMMA LongerPath ==
  ASSUME Nodes, Tree, NEW path \in Seq(STRING), NEW x \in STRING,
         NEW d \in Ids, Walked(path) = FoundAt(d)
  PROVE  /\ node[d].type = "mount" => Walked(Append(path, x)) = FoundAt(d)
         /\ node[d].type # "mount" =>
              \A c \in Child(d, x) : Walked(Append(path, x)) = FoundAt(c)
<1> DEFINE N == Len(path)
           q == Append(path, x)
<1>0. /\ N \in Nat /\ q \in Seq(STRING) /\ Len(q) = N + 1 /\ q[N + 1] = x
      /\ \A k \in 0 .. N : k # N => q[k + 1] = path[k + 1]
  <2>1. Len(path) \in Nat
    OBVIOUS
  <2> QED
    BY <2>1, AppendIs, ZenonT(30)
<1> HIDE DEF N, q
<1>1. PICK w : Walks(path, w) /\ Walked(path) = w[0][1]
  BY WalkIs
<1>2. PICK v : Walks(q, v) /\ Walked(q) = v[0][1]
  BY <1>0, WalkIs
<1> DEFINE Same(k, i) ==
             /\ node[d].type = "mount" => v[k][i] = FoundAt(d)
             /\ node[d].type # "mount" => v[k][i] = v[N][d]
           Good(k) == \A i \in Ids : node[i].type # "mount" /\ w[k][i] = FoundAt(d) => Same(k, i)
           Bad == {m \in 0 .. N : ~Good(N - m)}
<1>3. ASSUME NEW k \in 0 .. N, k # N => Good(k + 1) PROVE Good(k)
  <2> SUFFICES ASSUME NEW i \in Ids, node[i].type # "mount", w[k][i] = FoundAt(d) PROVE Same(k, i)
    OBVIOUS
  <2>0. k \in 0 .. Len(path) /\ k \in 0 .. Len(q) /\ k # Len(q)
    BY <1>0 DEF N
  <2>1. w[k][i] = WalkStep(path, w, k, i)
    BY <1>1, <2>0 DEF Walks
  <2>2. v[k][i] = WalkStep(q, v, k, i)
    BY <1>2, <2>0 DEF Walks
  <2>3. CASE k = N
    <3>1. w[k][i] = [found |-> TRUE, at |-> i, crossing |-> FALSE]
      BY <2>0, <2>1, <2>3, StepOfWalk DEF N
    <3>2. FoundAt(d).at = d /\ w[k][i].at = i
      BY <3>1 DEF FoundAt
    <3>3. i = d
      BY <3>2
    <3> QED
      BY <2>3, <3>3
  <2>4. CASE k # N
    <3>1. q[k + 1] = path[k + 1]
      BY <1>0, <2>4
    <3>2. Child(i, path[k + 1]) # {}
      <4> SUFFICES ASSUME Child(i, path[k + 1]) = {} PROVE FALSE
        OBVIOUS
      <4>1. w[k][i] = NotFound
        BY <2>0, <2>1, <2>4, StepOfWalk DEF N
      <4>2. FoundAt(d).found = TRUE /\ NotFound.found = FALSE
        BY DEF FoundAt, NotFound
      <4> QED
        BY <4>1, <4>2
    <3>3. PICK c \in Child(i, path[k + 1]) : TRUE
      BY <3>2
    <3>4. c \in Ids
      BY <3>3, ChildIs
    <3>5. CASE node[c].type = "mount"
      <4>1. w[k][i] = FoundAt(c)
        BY <2>0, <2>1, <2>4, <3>5, StepOfWalk DEF N
      <4>2. FoundAt(d).at = d /\ FoundAt(c).at = c
        BY DEF FoundAt
      <4>3. c = d
        BY <4>1, <4>2
      <4>4. v[k][i] = FoundAt(c)
        BY <1>0, <2>0, <2>2, <3>1, <3>3, <3>5, StepOfWalk
      <4> QED
        BY <3>5, <4>3, <4>4
    <3>6. CASE node[c].type # "mount"
      <4>1. w[k][i] = w[k + 1][c]
        BY <2>0, <2>1, <2>4, <3>6, StepOfWalk DEF N
      <4>2. v[k][i] = v[k + 1][c]
        BY <1>0, <2>0, <2>2, <3>1, <3>3, <3>6, StepOfWalk
      <4>3. Same(k + 1, c)
        <5> HIDE DEF Same
        <5> QED
          BY <1>3, <2>4, <3>4, <3>6, <4>1
      <4> QED
        BY <4>2, <4>3
    <3> QED
      BY <3>5, <3>6
  <2> QED
    BY <2>3, <2>4
<1>4. Bad = {}
  <2> SUFFICES ASSUME Bad # {} PROVE FALSE
    OBVIOUS
  <2> HIDE DEF Good
  <2>1. PICK m \in Bad : \A n \in Bad : m <= n
    <3>1. Bad \in SUBSET Nat
      BY <1>0
    <3> HIDE DEF Bad
    <3> QED
      BY <3>1, LeastExists
  <2>2. m \in 0 .. N /\ N - m \in 0 .. N /\ ~Good(N - m)
    BY <1>0
  <2>3. N - m # N => Good((N - m) + 1)
    <3> SUFFICES ASSUME N - m # N PROVE Good((N - m) + 1)
      OBVIOUS
    <3>1. m - 1 \in 0 .. N /\ ~(m <= m - 1) /\ (N - m) + 1 = N - (m - 1)
      BY <1>0, <2>2
    <3>2. m - 1 \notin Bad
      BY <2>1, <3>1
    <3> QED
      BY <3>1, <3>2
  <2> QED
    BY <1>3, <2>2, <2>3
<1>5. Good(0)
  <2>1. N \in 0 .. N /\ N - N = 0
    BY <1>0
  <2> HIDE DEF Good
  <2> QED
    BY <1>4, <2>1
<1>6. Same(0, 1)
  <2>1. node[1].type # "mount" /\ 1 \in Ids
    BY Numbers DEF Tree
  <2> HIDE DEF Same
  <2> QED
    BY <1>1, <1>5, <2>1
<1>7. ASSUME node[d].type # "mount", NEW c \in Child(d, x) PROVE v[N][d] = FoundAt(c)
  <2>1. v[N][d] = WalkStep(q, v, N, d)
    BY <1>0, <1>2 DEF Walks
  <2>2. N \in 0 .. Len(q) /\ N # Len(q) /\ q[N + 1] = x /\ c \in Ids
    BY <1>0, ChildIs
  <2>c. c \in Child(d, q[N + 1])
    BY <1>0
  <2>3. CASE node[c].type = "mount"
    BY <2>1, <2>2, <2>c, <2>3, <1>0, StepOfWalk, ZenonT(30)
  <2>4. CASE node[c].type # "mount"
    <3>1. v[N][d] = v[N + 1][c]
      BY <1>0, <2>1, <2>2, <2>c, <2>4, StepOfWalk, ZenonT(30)
    <3>2. N + 1 \in 0 .. Len(q) /\ N + 1 = Len(q)
      BY <1>0
    <3>3. v[N + 1][c] = WalkStep(q, v, N + 1, c)
      BY <1>2, <2>2, <3>2 DEF Walks
    <3>4. v[N + 1][c] = [found |-> TRUE, at |-> c, crossing |-> FALSE]
      <4> DEFINE m == N + 1
      <4>1. m \in 0 .. Len(q) /\ m = Len(q) /\ v[m][c] = WalkStep(q, v, m, c)
        BY <3>2, <3>3
      <4> HIDE DEF m
      <4>2. WalkStep(q, v, m, c) = [found |-> TRUE, at |-> c, crossing |-> FALSE]
        BY <4>1 DEF WalkStep
      <4>3. v[m][c] = [found |-> TRUE, at |-> c, crossing |-> FALSE]
        BY <4>1, <4>2
      <4> QED
        BY <4>3 DEF m
    <3> QED
      BY <2>4, <3>1, <3>4, FoundAtIs
  <2> QED
    BY <2>3, <2>4
<1> QED
  BY <1>2, <1>6, <1>7 DEF q

-----------------------------------------------------------------------------
(* Streams.  Each open one is on a file or a device, within its size, and   *)
(* holds one of its references.                                             *)
IsOpen(r) ==
  /\ DOMAIN r = {"node", "pos", "mode"}
  /\ r.node \in Ids /\ r.pos \in Nat
  /\ node[r.node].type \in {"file", "device"} /\ r.pos <= node[r.node].size

Opens ==
  /\ DOMAIN stream = Streams
  /\ \A s \in Streams : stream[s] = Closed \/ IsOpen(stream[s])
  /\ \A i \in Ids : node[i].ref = Cardinality(OpenOn(i))

Calm == wild \in {"no", "child", "filename", "device", "lost"}

Sane == Nodes /\ Tree /\ Opens /\ Calm

LEMMA OpenIsNotClosed ==
  ASSUME NEW r, DOMAIN r = {"node", "pos", "mode"}
  PROVE  r # Closed
<1>1. DOMAIN Closed = {"node", "pos"}
  BY DEF Closed
<1>2. "mode" \in DOMAIN r /\ "mode" \notin DOMAIN Closed
  BY <1>1
<1> QED
  BY <1>2

LEMMA FiniteOpens ==
  \A i : IsFiniteSet(OpenOn(i)) /\ Cardinality(OpenOn(i)) \in 0 .. Cardinality(Streams)
<1> SUFFICES ASSUME NEW i
             PROVE  IsFiniteSet(OpenOn(i)) /\ Cardinality(OpenOn(i)) \in 0 .. Cardinality(Streams)
  OBVIOUS
<1>1. IsFiniteSet(Streams)
  BY VfsAssumption
<1>2. OpenOn(i) \subseteq Streams
  BY DEF OpenOn
<1> HIDE DEF OpenOn
<1>3. IsFiniteSet(OpenOn(i)) /\ Cardinality(OpenOn(i)) <= Cardinality(Streams)
  BY <1>1, <1>2, FS_Subset
<1>4. Cardinality(OpenOn(i)) \in Nat /\ Cardinality(Streams) \in Nat
  BY <1>1, <1>3, FS_CardinalityType
<1> QED
  BY <1>3, <1>4

(* Nothing is open on a node that is not a file or a device. *)
LEMMA NoneOpen ==
  ASSUME Opens, NEW i \in Ids, node[i].type \notin {"file", "device"}
  PROVE  OpenOn(i) = {} /\ node[i].ref = 0
<1>1. OpenOn(i) = {}
  <2> SUFFICES ASSUME NEW s \in OpenOn(i) PROVE FALSE
    OBVIOUS
  <2>1. s \in Streams /\ stream[s] # Closed /\ stream[s].node = i
    BY DEF OpenOn
  <2>2. IsOpen(stream[s])
    BY <2>1 DEF Opens
  <2> QED
    BY <2>1, <2>2 DEF IsOpen
<1>2. Cardinality(OpenOn(i)) = 0
  BY <1>1, FS_EmptySet
<1> QED
  BY <1>1, <1>2 DEF Opens

LEMMA InitSane == Init => Sane
<1> SUFFICES ASSUME Init PROVE Sane
  OBVIOUS
<1> USE Numbers
<1> DEFINE root == NewNode("dir", "none", 0, FALSE)
<1>1. DOMAIN node = Ids /\ node[1] = root /\ \A i \in Ids : i # 1 => node[i] = Unused
  BY DEF Init
<1>r. PICK b : root = NewNode("dir", "none", 0, b)
  OBVIOUS
<1> HIDE DEF root
<1>2. /\ DOMAIN root = Fields /\ root.type = "dir" /\ root.parent = 0 /\ root.ref = 0
      /\ root.size = 0 /\ root.cap = 0 /\ root.content = <<>>
  BY <1>r, NewNodeIs
<1>3. /\ DOMAIN Unused = Fields /\ Unused.type = "none" /\ Unused.parent = 0 /\ Unused.ref = 0
      /\ Unused.size = 0 /\ Unused.cap = 0 /\ Unused.content = <<>>
  BY UnusedIs
<1>4. ProperNode(root) /\ ProperNode(Unused)
  BY <1>2, <1>3 DEF ProperNode, Types
<1>5. Nodes
  <2>1. \A i \in Ids : node[i] = root \/ node[i] = Unused
    BY <1>1
  <2> QED
    BY <1>1, <1>4, <2>1 DEF Nodes
<1>6. Tree
  <2>1. \A i \in Ids : Used(i) <=> i = 1
    BY <1>1, <1>2, <1>3 DEF Used
  <2>2. \A i \in Ids : node[i].parent = 0
    BY <1>1, <1>2, <1>3
  <2>3. node[1].type = "dir" /\ \A i, j \in Ids : j = 1 /\ i < j => i = 1
    BY <1>1, <1>2 DEF Ids
  <2> QED
    BY <2>1, <2>2, <2>3 DEF Tree
<1>7. DOMAIN stream = Streams /\ \A s \in Streams : stream[s] = Closed
  BY DEF Init
<1>8. \A i \in Ids : node[i].ref = 0 /\ OpenOn(i) = {}
  BY <1>1, <1>2, <1>3, <1>7 DEF OpenOn
<1>9. Opens
  BY <1>7, <1>8, FS_EmptySet DEF Opens
<1> QED
  BY <1>5, <1>6, <1>9 DEF Sane, Calm, Init

-----------------------------------------------------------------------------
(* Steps that leave the tree as it is *)

(* One node changes, but not its place. *)
LEMMA TouchKeeps ==
  ASSUME Nodes, Tree, NEW i \in Ids, NEW r, ProperNode(r),
         r.type = node[i].type, r.name = node[i].name, r.parent = node[i].parent,
         node' = [node EXCEPT ![i] = r]
  PROVE  Nodes' /\ Tree'
<1>1. DOMAIN node' = Ids /\ node'[i] = r /\ \A j \in Ids : j # i => node'[j] = node[j]
  BY DEF Nodes
<1>2. \A j \in Ids : /\ node'[j].type = node[j].type /\ node'[j].name = node[j].name
                     /\ node'[j].parent = node[j].parent
  BY <1>1
<1>3. Nodes'
  BY <1>1 DEF Nodes
<1>4. Tree'
  BY <1>2, Numbers DEF Tree, Used
<1> QED
  BY <1>3, <1>4

LEMMA NodesStay ==
  ASSUME Nodes, Tree, UNCHANGED node
  PROVE  Nodes' /\ Tree'
BY DEF Nodes, Tree, Used

(* Streams move at most, within their files. *)
LEMMA MovesKeep ==
  ASSUME Opens, DOMAIN stream' = Streams,
         \A s \in Streams : \/ stream[s] = Closed /\ stream'[s] = Closed
                            \/ /\ IsOpen(stream[s]) /\ IsOpen(stream[s])'
                               /\ stream'[s].node = stream[s].node,
         \A i \in Ids : node'[i].ref = node[i].ref
  PROVE  Opens'
<1>1. \A s \in Streams : stream'[s] = Closed \/ IsOpen(stream[s])'
  OBVIOUS
<1>2. \A s \in Streams : (stream'[s] = Closed) = (stream[s] = Closed)
  BY OpenIsNotClosed DEF IsOpen
<1>3. \A i \in Ids : OpenOn(i)' = OpenOn(i)
  <2> SUFFICES ASSUME NEW i \in Ids, NEW s \in Streams
               PROVE  (stream'[s] # Closed /\ stream'[s].node = i)
                        <=> (stream[s] # Closed /\ stream[s].node = i)
    BY DEF OpenOn
  <2> QED
    BY <1>2
<1> QED
  BY <1>1, <1>3 DEF Opens

-----------------------------------------------------------------------------
(* Adding a node *)

(* A place for a new node: no mount point hides it, no other node has it. *)
Place(i, name, type) ==
  /\ i \in Ids /\ Used(i) /\ Outside(i) /\ name \in STRING /\ Child(i, name) = {}
  /\ node[i].type = "mount" => type = "dir"

LEMMA AddKeeps ==
  ASSUME Nodes, Tree, Opens, Free # {}, NEW i, NEW name, NEW rwe,
         NEW type \in {"dir", "file", "device", "mount"}, Place(i, name, type),
         AddChild(i, name, type, rwe), UNCHANGED stream
  PROVE  /\ Nodes' /\ Tree' /\ Opens'
         /\ \E j \in Ids : /\ ~Used(j) /\ node'[j] = NewNode(type, name, i, rwe)
                           /\ \A k \in Ids : k # j => node'[k] = node[k]
<1> USE Numbers
<1> DEFINE r == NewNode(type, name, i, rwe)
           j == CHOOSE k \in Free : \A l \in Free : k <= l
<1>1. j \in Free /\ \A l \in Free : j <= l
  <2>1. Free \in SUBSET Nat
    BY DEF Free
  <2>2. \E k \in Free : \A l \in Free : k <= l
    <3> HIDE DEF j
    <3> QED
      BY <2>1, LeastExists
  <2> QED
    BY <2>2
<1>2. node' = [node EXCEPT ![j] = r]
  BY DEF AddChild
<1> HIDE DEF j
<1>3. j \in Ids /\ ~Used(j) /\ \A l \in Ids : ~Used(l) => j <= l
  BY <1>1 DEF Free, Used
<1>4. DOMAIN node' = Ids /\ node'[j] = r /\ \A k \in Ids : k # j => node'[k] = node[k]
  BY <1>2, <1>3 DEF Nodes
<1>r. r = NewNode(type, name, i, rwe)
  OBVIOUS
<1> HIDE DEF r
<1>5. /\ DOMAIN r = Fields /\ r.type = type /\ r.name = name /\ r.parent = i /\ r.ref = 0
      /\ r.size = 0 /\ r.cap = 0 /\ r.content = <<>>
  BY <1>r, NewNodeIs
<1>6. type = "mount" => r.ready = TRUE
  <2>1. r.ready = (type \in {"device", "mount"})
    BY <1>r, NewNodeIs
  <2> QED
    BY <2>1, Zenon
<1>7. ProperNode(r)
  BY <1>5, <1>6 DEF ProperNode, Types
<1>8. Nodes'
  BY <1>4, <1>7 DEF Nodes
<1>9. i \in Ids /\ Used(i) /\ name \in STRING /\ i < j /\ j # 1
  BY <1>3 DEF Place, Tree, Used
<1>10. /\ node[j].type = "none" /\ node'[j].parent = i /\ node'[j].name = name
       /\ node'[j].type = type /\ type # "none"
       /\ \A k \in Ids : k # j => /\ node'[k].type = node[k].type /\ node'[k].name = node[k].name
                                  /\ node'[k].parent = node[k].parent
  BY <1>3, <1>4, <1>5 DEF Used
<1>11. \A k \in Ids : Used(k) => node[k].parent # j
  BY <1>3, <1>9 DEF Tree
<1>12. Tree'
  <2>1. node'[1].type = "dir" /\ node'[1].parent = 0
    BY <1>9, <1>10 DEF Tree, Used
  <2>2. \A k \in Ids : node'[k].parent \in 0 .. MaxNodes
    BY <1>3, <1>9, <1>10 DEF Tree, Used
  <2>3. \A k, l \in Ids : Used(l)' /\ k < l => Used(k)'
    BY <1>3, <1>10 DEF Tree, Used
  <2>4. \A k \in Ids : Used(k)' /\ k # 1 =>
          node'[k].parent \in Ids /\ node'[k].parent < k /\ node'[k].name \in STRING
    BY <1>9, <1>10 DEF Tree, Used
  <2>5. ASSUME NEW k \in Ids, NEW l \in Ids, Used(k)', Used(l)',
               node'[k].parent = node'[l].parent, node'[k].name = node'[l].name
        PROVE  k = l
    <3>1. \A m \in Ids : Used(m) => ~(node[m].parent = i /\ node[m].name = name)
      BY DEF Place, Child, Children, Used
    <3>2. CASE k # j /\ l # j
      BY <1>10, <2>5, <3>2 DEF Tree, Used
    <3>3. CASE k = j \/ l = j
      BY <1>10, <2>5, <3>1, <3>3 DEF Used
    <3> QED
      BY <3>2, <3>3
  <2>6. ASSUME NEW k \in Ids, NEW l \in Ids, Used(k)', Used(l)', node'[l].parent = k,
               k # 1, node'[k].parent \in Ids
        PROVE  node'[node'[k].parent].type # "mount"
    <3>1. CASE l = j
      <4>1. k = i /\ k # j
        BY <1>9, <1>10, <2>6, <3>1
      <4>3. node'[i].parent = node[i].parent /\ node[i].parent \in Ids /\ node[i].parent # j
        BY <1>3, <1>9, <1>10, <2>6, <4>1 DEF Tree, Used
      <4>2. node[node[i].parent].type # "mount"
        BY <2>6, <4>1 DEF Place, Outside
      <4> QED
        BY <1>10, <4>1, <4>2, <4>3, ZenonT(30)
    <3>2. CASE l # j
      <4>1. k # j /\ Used(k) /\ Used(l)
        BY <1>10, <1>11, <2>6, <3>2 DEF Used
      <4>2. node[k].parent # j
        BY <1>11, <4>1
      <4>3. node[k].parent = node'[k].parent /\ node[k].parent \in Ids /\ node[l].parent = k
        BY <1>10, <2>6, <3>2, <4>1
      <4>4. node[node[k].parent].type # "mount"
        BY <2>6, <4>1, <4>3 DEF Tree
      <4> QED
        BY <1>10, <4>2, <4>3, <4>4
    <3> QED
      BY <3>1, <3>2
  <2>7. ASSUME NEW k \in Ids, Used(k)', k # 1, node'[node'[k].parent].type = "mount"
        PROVE  node'[k].type = "dir"
    <3>1. CASE k = j
      BY <1>9, <1>10, <2>7, <3>1 DEF Place
    <3>2. CASE k # j
      <4>1. Used(k) /\ node[k].parent # j /\ node[k].parent \in Ids
        BY <1>10, <1>11, <2>7, <3>2 DEF Tree, Used
      <4> QED
        BY <1>10, <2>7, <3>2, <4>1 DEF Tree, Used
    <3> QED
      BY <3>1, <3>2
  <2> QED
    BY <2>1, <2>2, <2>3, <2>4, <2>5, <2>6, <2>7 DEF Tree, Used
<1>13. Opens'
  <2>1. \A k \in Ids : node'[k].ref = node[k].ref
    <3>1. node[j].ref = 0
      BY <1>3, NoneOpen DEF Used
    <3> QED
      BY <1>4, <1>5, <3>1
  <2>2. \A s \in Streams : IsOpen(stream[s]) => IsOpen(stream[s])'
    BY <1>4, <1>10 DEF IsOpen, Used
  <2>3. DOMAIN stream' = Streams
    BY DEF Opens
  <2> QED
    BY <2>1, <2>2, <2>3, MovesKeep DEF Opens
<1> QED
  BY <1>3, <1>4, <1>8, <1>12, <1>13, <1>r

(* The first elements of a sequence *)
LEMMA PrefixIs ==
  ASSUME NEW S, NEW s \in Seq(S), NEW n \in 0 .. Len(s)
  PROVE  /\ SubSeq(s, 1, n) \in Seq(S) /\ Len(SubSeq(s, 1, n)) = n
         /\ \A i \in 1 .. n : SubSeq(s, 1, n)[i] = s[i]
<1>1. n \in Int /\ \A i \in 1 .. n : s[i] \in S
  OBVIOUS
<1> DEFINE q == SubSeq(s, 1, n)
<1>2. /\ q \in Seq(S) /\ Len(q) = IF 1 <= n THEN n - 1 + 1 ELSE 0
      /\ \A i \in 1 .. n - 1 + 1 : q[i] = s[1 + i - 1]
  BY <1>1, SubSeqProperties
<1> HIDE DEF q
<1>3. Len(q) = n
  BY <1>2
<1>4. \A i \in 1 .. n : i \in 1 .. n - 1 + 1 /\ 1 + i - 1 = i
  OBVIOUS
<1>5. \A i \in 1 .. n : q[i] = s[i]
  BY <1>2, <1>4
<1> QED
  BY <1>2, <1>3, <1>5 DEF q

(* A path and the path of its directory *)
LEMMA PathIs ==
  ASSUME NEW path \in Paths
  PROVE  /\ path \in Seq(STRING) /\ Dirname(path) \in Seq(STRING) /\ Basename(path) \in STRING
         /\ path # <<>> => path = Append(Dirname(path), Basename(path))
         /\ path = <<>> => Dirname(path) = path
<1>1. path \in Seq(STRING)
  BY VfsAssumption
<1>2. path = <<>> => Dirname(path) = path
  BY DEF Dirname
<1>3. ASSUME path # <<>>
      PROVE  /\ path[Len(path)] \in STRING
             /\ Dirname(path) \in Seq(STRING) /\ path = Append(Dirname(path), path[Len(path)])
  <2> DEFINE n == Len(path)
  <2>1. n \in Nat /\ n # 0 /\ n \in 1 .. n
    BY <1>1, <1>3
  <2>2. path[n] \in STRING
    BY <1>1, <2>1
  <2>3. Dirname(path) = SubSeq(path, 1, n - 1)
    BY <1>3 DEF Dirname
  <2>4. n - 1 \in 0 .. Len(path)
    BY <2>1
  <2>5. /\ Dirname(path) \in Seq(STRING) /\ Len(Dirname(path)) = n - 1
        /\ \A k \in 1 .. n - 1 : Dirname(path)[k] = path[k]
    BY <1>1, <2>3, <2>4, PrefixIs
  <2> DEFINE q == Append(Dirname(path), path[n])
  <2>6. /\ q \in Seq(STRING) /\ Len(q) = n /\ q[n] = path[n]
        /\ \A k \in 1 .. n - 1 : q[k] = Dirname(path)[k]
    BY <2>1, <2>2, <2>5, AppendProperties
  <2> HIDE DEF q
  <2>7. \A k \in 1 .. n : q[k] = path[k]
    BY <2>1, <2>5, <2>6
  <2>8. q = path
    BY <1>1, <2>6, <2>7, SeqEqual
  <2> QED
    BY <2>2, <2>5, <2>8 DEF q
<1>4. Basename(path) \in STRING /\ (path # <<>> => Basename(path) = path[Len(path)])
  <2>1. "" \in STRING
    BY EmptyName
  <2> QED
    BY <1>3, <2>1 DEF Basename
<1> QED
  BY <1>1, <1>2, <1>3, <1>4

-----------------------------------------------------------------------------
(* The calls that change the tree *)

(* Where a path leads *)
LEMMA Leads ==
  ASSUME Nodes, Tree, NEW path \in Seq(STRING), vfs_parse_url(path).found
  PROVE  \E i \in Ids : Used(i) /\ Outside(i) /\ vfs_parse_url(path) = FoundAt(i)
                          /\ vfs_parse_url(path).at = i
                          /\ (vfs_parse_url(path).crossing <=> node[i].type = "mount")
<1> DEFINE p == vfs_parse_url(path)
<1>1. Result(p)
  BY ParseIs
<1> HIDE DEF p
<1>2. p # NotFound
  <2>1. NotFound.found = FALSE
    BY DEF NotFound
  <2>2. p.found
    BY DEF p
  <2> QED
    BY <2>1, <2>2, Zenon
<1>3. PICK i \in Ids : Used(i) /\ Outside(i) /\ p = FoundAt(i)
  BY <1>1, <1>2 DEF Result
<1>4. p.at = i /\ p.crossing = (node[i].type = "mount")
  BY <1>3 DEF FoundAt
<1>5. p.crossing <=> node[i].type = "mount"
  BY <1>4, Zenon
<1> QED
  BY <1>3, <1>4, <1>5 DEF p

LEMMA AddIs ==
  ASSUME Nodes, Tree, NEW i \in Ids, NEW x \in STRING, NEW type, NEW rwe, NEW fails,
         vfsnode_add_child(i, x, type, rwe, fails)
  PROVE  \/ UNCHANGED node /\ wild' = "child"
         \/ Child(i, x) = {} /\ AddChild(i, x, type, rwe) /\ UNCHANGED wild
BY DEF vfsnode_add_child, NameTaken

(* vfs_mkdir does nothing, breaks, or adds a directory where it may be. *)
LEMMA MkdirIs ==
  ASSUME Sane, NEW path \in Paths, NEW rwe, NEW fails, vfs_mkdir(path, rwe, fails)
  PROVE  /\ Free # {} /\ UNCHANGED stream /\ Silent
         /\ \/ UNCHANGED node /\ (UNCHANGED wild \/ wild' = "child")
            \/ /\ UNCHANGED wild
               /\ \E i \in Ids : \E x \in STRING :
                    Place(i, x, "dir") /\ AddChild(i, x, "dir", rwe)
<1> DEFINE p == vfs_parse_url(Dirname(path))
           x == Basename(path)
<1>0. Nodes /\ Tree
  BY DEF Sane
<1>1. Dirname(path) \in Seq(STRING) /\ x \in STRING /\ Free # {} /\ UNCHANGED stream /\ Silent
  BY PathIs DEF vfs_mkdir
<1>2. CASE ~p.found
  BY <1>1, <1>2 DEF vfs_mkdir
<1>3. CASE p.found
  <2>1. PICK i \in Ids : Used(i) /\ Outside(i) /\ p.at = i
    BY <1>0, <1>1, <1>3, Leads
  <2>2. vfsnode_add_child(p.at, x, "dir", rwe, fails)
    BY <1>3 DEF vfs_mkdir
  <2> HIDE DEF p, x
  <2>3. \/ UNCHANGED node /\ wild' = "child"
        \/ Child(i, x) = {} /\ AddChild(i, x, "dir", rwe) /\ UNCHANGED wild
    BY <1>0, <1>1, <2>1, <2>2, AddIs
  <2>4. CASE Child(i, x) = {} /\ AddChild(i, x, "dir", rwe) /\ UNCHANGED wild
    <3>1. Place(i, x, "dir")
      BY <1>1, <2>1, <2>4 DEF Place
    <3> QED
      BY <1>1, <2>4, <3>1
  <2> QED
    BY <1>1, <2>3, <2>4
<1> QED
  BY <1>2, <1>3

(* A node is added at its place, or none is. *)
LEMMA AddedKeeps ==
  ASSUME Sane, Free # {}, UNCHANGED stream, NEW type \in {"dir", "file", "device", "mount"}, NEW rwe,
         \/ UNCHANGED node /\ (UNCHANGED wild \/ wild' = "child")
         \/ /\ UNCHANGED wild
            /\ \E i \in Ids : \E x \in STRING : Place(i, x, type) /\ AddChild(i, x, type, rwe)
  PROVE  Sane'
<1>0. Nodes /\ Tree /\ Opens /\ Calm
  BY DEF Sane
<1>1. Calm'
  BY <1>0 DEF Calm
<1>2. CASE UNCHANGED node
  <2>1. Nodes' /\ Tree'
    BY <1>0, <1>2, NodesStay
  <2>2. Opens'
    BY <1>0, <1>2 DEF Opens, IsOpen, OpenOn
  <2> QED
    BY <1>1, <2>1, <2>2 DEF Sane
<1>3. ASSUME NEW i \in Ids, NEW x \in STRING, Place(i, x, type), AddChild(i, x, type, rwe)
      PROVE  Sane'
  <2>1. Nodes' /\ Tree' /\ Opens'
    BY <1>0, <1>3, AddKeeps
  <2> QED
    BY <1>1, <2>1 DEF Sane
<1> QED
  BY <1>2, <1>3

LEMMA MkdirKeeps ==
  ASSUME Sane, NEW path \in Paths, NEW rwe, NEW fails, vfs_mkdir(path, rwe, fails)
  PROVE  Sane'
BY MkdirIs, AddedKeeps

(* What the three other calls that add a node have in common *)
LEMMA AddAtIs ==
  ASSUME Sane, NEW path \in Paths, NEW type, NEW rwe, NEW fails, AddAt(path, type, rwe, fails)
  PROVE  /\ Free # {} /\ UNCHANGED stream /\ Silent
         /\ \/ UNCHANGED node /\ (UNCHANGED wild \/ wild' = "child")
            \/ /\ UNCHANGED wild
               /\ \E i \in Ids : \E x \in STRING : Place(i, x, type) /\ AddChild(i, x, type, rwe)
<1> DEFINE p == vfs_parse_url(path)
           d == vfs_parse_url(Dirname(path))
           x == Basename(path)
<1>0. Nodes /\ Tree /\ Free # {} /\ UNCHANGED stream /\ Silent
  BY DEF Sane, AddAt
<1>a. CASE p.found \/ ~d.found
  BY <1>0, <1>a DEF AddAt
<1>b. CASE ~p.found /\ d.found
  <2>1. Dirname(path) \in Seq(STRING) /\ x \in STRING
    BY PathIs
  <2>2. PICK i \in Ids : Used(i) /\ Outside(i) /\ d = FoundAt(i) /\ d.at = i
    BY <1>0, <1>b, <2>1, Leads
  <2>3. vfsnode_add_child(d.at, x, type, rwe, fails)
    BY <1>b DEF AddAt
  <2>4. node[i].type # "mount"
    <3> SUFFICES ASSUME node[i].type = "mount" PROVE FALSE
      OBVIOUS
    <3>1. ASSUME path = <<>> PROVE FALSE
      <4>1. Dirname(path) = path
        BY <3>1, PathIs
      <4> QED
        BY <1>b, <4>1
    <3> DEFINE q == Dirname(path)
    <3>2. path = Append(q, x)
      BY <3>1, PathIs
    <3> HIDE DEF x
    <3>3. q # <<>> /\ q # <<"">>
      <4> SUFFICES ASSUME q = <<>> \/ q = <<"">> PROVE FALSE
        OBVIOUS
      <4>1. Names(q) = <<>>
        BY DEF Names
      <4>2. d = Walked(<<>>)
        BY <4>1 DEF vfs_parse_url
      <4>3. Walked(<<>>) = FoundAt(1)
        BY <1>0, RootIsFound
      <4>4. FoundAt(1).at = 1
        BY DEF FoundAt
      <4>5. i = 1
        BY <2>2, <4>2, <4>3, <4>4
      <4> QED
        BY <1>0, <4>5 DEF Tree
    <3> HIDE DEF q
    <3>q. q \in Seq(STRING) /\ d = vfs_parse_url(q)
      BY <2>1 DEF q
    <3>4. Walked(q) = FoundAt(i)
      BY <2>2, <3>3, <3>q DEF vfs_parse_url, Names
    <3>5. Walked(Append(q, x)) = FoundAt(i)
      BY <1>0, <2>1, <3>4, <3>q, LongerPath
    <3>6. Append(q, x) # <<"">>
      <4>1. Len(Append(q, x)) = Len(q) + 1 /\ Len(q) \in Nat
        BY <2>1, <3>q, AppendIs
      <4>2. Len(q) # 0
        BY <3>3, <3>q, EmptySeq
      <4> DEFINE e == Append(q, x)
      <4> HIDE DEF e
      <4>3. Len(e) # 1
        BY <4>1, <4>2 DEF e
      <4>4. Len(<<"">>) = 1
        OBVIOUS
      <4>5. e # <<"">>
        BY <4>3, <4>4
      <4> QED
        BY <4>5 DEF e
    <3>7. p = FoundAt(i)
      BY <3>2, <3>5, <3>6 DEF vfs_parse_url, Names
    <3>8. FoundAt(i).found
      BY DEF FoundAt
    <3> QED
      BY <1>b, <3>7, <3>8
  <2> HIDE DEF d, x
  <2>5. \/ UNCHANGED node /\ wild' = "child"
        \/ Child(i, x) = {} /\ AddChild(i, x, type, rwe) /\ UNCHANGED wild
    BY <1>0, <2>1, <2>2, <2>3, AddIs
  <2>6. CASE Child(i, x) = {} /\ AddChild(i, x, type, rwe) /\ UNCHANGED wild
    <3>1. Place(i, x, type)
      BY <2>1, <2>2, <2>4, <2>6 DEF Place
    <3> QED
      BY <1>0, <2>1, <2>6, <3>1
  <2> QED
    BY <1>0, <2>5, <2>6
<1> QED
  BY <1>a, <1>b

LEMMA AddAtKeeps ==
  ASSUME Sane, NEW path \in Paths, NEW type \in {"file", "device", "mount"}, NEW rwe, NEW fails,
         AddAt(path, type, rwe, fails)
  PROVE  Sane'
BY AddAtIs, AddedKeeps

-----------------------------------------------------------------------------
(* The calls that change a node *)

(* One node changes other than in its references, and the streams on it     *)
(* move, all within its size.                                               *)
LEMMA ChangeKeeps ==
  ASSUME Sane, NEW i \in Ids, NEW r, ProperNode(r),
         r.type = node[i].type, r.name = node[i].name, r.parent = node[i].parent,
         r.ref = node[i].ref, r.size >= node[i].size,
         node' = [node EXCEPT ![i] = r], Calm',
         DOMAIN stream' = Streams,
         \A s \in Streams :
           \/ stream'[s] = stream[s]
           \/ /\ IsOpen(stream[s]) /\ DOMAIN stream'[s] = {"node", "pos", "mode"}
              /\ stream[s].node = i /\ stream'[s].node = i
              /\ stream'[s].pos \in 0 .. r.size
  PROVE  Sane'
<1>0. Nodes /\ Tree /\ Opens
  BY DEF Sane
<1>1. Nodes' /\ Tree'
  BY <1>0, TouchKeeps
<1>2. DOMAIN node = Ids
  BY <1>0 DEF Nodes
<1>3. node'[i] = r /\ \A j \in Ids : j # i => node'[j] = node[j]
  BY <1>2
<1>4. \A j \in Ids : node'[j].ref = node[j].ref
  BY <1>3
<1>5. ASSUME NEW s \in Streams
      PROVE  \/ stream[s] = Closed /\ stream'[s] = Closed
             \/ /\ IsOpen(stream[s]) /\ IsOpen(stream[s])'
                /\ stream'[s].node = stream[s].node
  <2>1. CASE stream'[s] = stream[s]
    <3>1. CASE stream[s] = Closed
      BY <2>1, <3>1
    <3>2. CASE IsOpen(stream[s])
      <4> DEFINE n == stream[s].node
      <4>1. /\ DOMAIN stream[s] = {"node", "pos", "mode"} /\ n \in Ids /\ stream[s].pos \in Nat
            /\ node[n].type \in {"file", "device"} /\ stream[s].pos <= node[n].size
        BY <3>2 DEF IsOpen
      <4>2. node'[n].type = node[n].type
        BY <1>3, <4>1
      <4>3. stream[s].pos <= node'[n].size
        <5>1. node[n].size \in Nat /\ r.size \in Nat
          BY <1>0, <4>1 DEF Nodes, ProperNode
        <5>2. CASE n = i
          BY <1>3, <4>1, <5>1, <5>2
        <5>3. CASE n # i
          BY <1>3, <4>1, <5>3
        <5> QED
          BY <5>2, <5>3
      <4> QED
        BY <2>1, <3>2, <4>1, <4>2, <4>3 DEF IsOpen
    <3> QED
      BY <1>0, <3>1, <3>2 DEF Opens
  <2>2. CASE /\ IsOpen(stream[s]) /\ DOMAIN stream'[s] = {"node", "pos", "mode"}
             /\ stream[s].node = i /\ stream'[s].node = i
             /\ stream'[s].pos \in 0 .. r.size
    <3>1. r.size \in Nat /\ node[i].type \in {"file", "device"}
      BY <2>2 DEF ProperNode, IsOpen
    <3>2. IsOpen(stream[s])'
      BY <1>3, <2>2, <3>1 DEF IsOpen
    <3> QED
      BY <2>2, <3>2
  <2> QED
    BY <2>1, <2>2
<1>6. Opens'
  BY <1>0, <1>4, <1>5, MovesKeep
<1> QED
  BY <1>1, <1>6 DEF Sane

LEMMA NothingKeeps ==
  ASSUME Sane, Calm', UNCHANGED <<node, stream>>
  PROVE  Sane'
<1>0. Nodes /\ Tree /\ Opens
  BY DEF Sane
<1>1. Nodes' /\ Tree'
  BY <1>0, NodesStay
<1>2. Opens'
  BY <1>0 DEF Opens, IsOpen, OpenOn
<1> QED
  BY <1>1, <1>2 DEF Sane

LEMMA UnmountDeviceKeeps ==
  ASSUME Sane, NEW path \in Paths, vfs_unmount_device(path)
  PROVE  Sane'
<1> DEFINE p == vfs_parse_url(path)
<1>0. Nodes /\ Tree /\ Opens /\ Calm
  BY DEF Sane
<1>1. UNCHANGED stream /\ (wild' = "device" \/ UNCHANGED wild)
  BY DEF vfs_unmount_device
<1>2. Calm'
  BY <1>0, <1>1 DEF Calm
<1>3. CASE UNCHANGED node
  BY <1>1, <1>2, <1>3, NothingKeeps
<1>4. CASE p.found /\ node[p.at].type = "device" /\ node' = [node EXCEPT ![p.at].ready = FALSE]
  <2>1. PICK i \in Ids : p.at = i
    BY <1>0, <1>4, PathIs, Leads
  <2> HIDE DEF p
  <2> DEFINE r == [node[i] EXCEPT !.ready = FALSE]
  <2>2. ProperNode(node[i]) /\ node[i].type = "device"
    BY <1>0, <1>4, <2>1 DEF Nodes
  <2>3. /\ DOMAIN r = DOMAIN node[i] /\ r.type = node[i].type /\ r.name = node[i].name
        /\ r.parent = node[i].parent /\ r.ref = node[i].ref /\ r.size = node[i].size
        /\ r.cap = node[i].cap /\ r.content = node[i].content
    BY <2>2 DEF ProperNode, Fields
  <2>4. node' = [node EXCEPT ![i] = r]
    BY <1>4, <2>1
  <2> HIDE DEF r
  <2>5. ProperNode(r) /\ r.size >= node[i].size
    BY <2>2, <2>3 DEF ProperNode
  <2>6. DOMAIN stream' = Streams /\ \A s \in Streams : stream'[s] = stream[s]
    BY <1>0, <1>1 DEF Opens
  <2> QED
    BY <1>2, <2>3, <2>4, <2>5, <2>6, ChangeKeeps
<1> QED
  BY <1>3, <1>4 DEF vfs_unmount_device

(* No file system is ever unmounted: its path crosses its mount point. *)
LEMMA NeverUnmounts ==
  ASSUME Nodes, Tree, NEW path \in Paths
  PROVE  ~Unmountable(vfs_parse_url(path))
<1>1. path \in Seq(STRING)
  BY PathIs
<1> SUFFICES ASSUME Unmountable(vfs_parse_url(path)) PROVE FALSE
  OBVIOUS
<1>2. vfs_parse_url(path).found /\ ~vfs_parse_url(path).crossing
      /\ node[vfs_parse_url(path).at].type = "mount"
  BY DEF Unmountable
<1> QED
  BY <1>1, <1>2, Leads

LEMMA UnmountFsKeeps ==
  ASSUME Sane, NEW path \in Paths, vfs_unmount_fs(path)
  PROVE  Sane'
<1>1. UNCHANGED <<node, stream, wild>>
  BY NeverUnmounts DEF vfs_unmount_fs, Sane
<1> QED
  BY <1>1, NothingKeeps DEF Sane, Calm


-----------------------------------------------------------------------------
(* Opening and closing *)

(* A stream that opens is one more on its node. *)
LEMMA OpenKeeps ==
  ASSUME Sane, Calm', NEW s \in Streams, stream[s] = Closed, NEW i \in Ids, NEW mode,
         node[i].type \in {"file", "device"},
         node' = [node EXCEPT ![i].ref = @ + 1],
         stream' = [stream EXCEPT ![s] = [node |-> i, pos |-> 0, mode |-> mode]]
  PROVE  Sane'
<1>0. Nodes /\ Tree /\ Opens
  BY DEF Sane
<1> DEFINE r == [node[i] EXCEPT !.ref = node[i].ref + 1]
           o == [node |-> i, pos |-> 0, mode |-> mode]
<1>1. ProperNode(node[i]) /\ DOMAIN node = Ids
  BY <1>0 DEF Nodes
<1>2. /\ DOMAIN r = Fields /\ r.type = node[i].type /\ r.name = node[i].name
      /\ r.parent = node[i].parent /\ r.ref = node[i].ref + 1 /\ r.size = node[i].size
      /\ r.cap = node[i].cap /\ r.content = node[i].content /\ r.ready = node[i].ready
  BY <1>1 DEF ProperNode, Fields
<1>3. node' = [node EXCEPT ![i] = r]
  BY <1>1
<1>4. o # Closed /\ DOMAIN o = {"node", "pos", "mode"} /\ o.node = i /\ o.pos = 0
  BY OpenIsNotClosed
<1> HIDE DEF r, o
<1>5. ProperNode(r)
  BY <1>1, <1>2 DEF ProperNode
<1>6. Nodes' /\ Tree'
  BY <1>0, <1>2, <1>3, <1>5, TouchKeeps
<1>7. /\ node'[i] = r /\ \A j \in Ids : j # i => node'[j] = node[j]
      /\ \A j \in Ids : node'[j].type = node[j].type /\ node'[j].size = node[j].size
  BY <1>1, <1>2, <1>3
<1>8. /\ DOMAIN stream' = Streams /\ stream'[s] = o
      /\ \A t \in Streams : t # s => stream'[t] = stream[t]
  BY <1>0 DEF Opens, o
<1>9. \A t \in Streams : stream'[t] = Closed \/ IsOpen(stream[t])'
  <2>1. IsOpen(stream[s])'
    <3>1. node[i].size \in Nat
      BY <1>1 DEF ProperNode
    <3> QED
      BY <1>4, <1>7, <1>8, <3>1 DEF IsOpen
  <2>2. \A t \in Streams : IsOpen(stream[t]) /\ t # s => IsOpen(stream[t])'
    BY <1>7, <1>8 DEF IsOpen
  <2> QED
    BY <1>0, <1>8, <2>1, <2>2 DEF Opens
<1>10. OpenOn(i)' = OpenOn(i) \cup {s} /\ s \notin OpenOn(i)
  BY <1>4, <1>8 DEF OpenOn
<1>11. \A j \in Ids : j # i => OpenOn(j)' = OpenOn(j)
  BY <1>4, <1>8 DEF OpenOn
<1>12. node'[i].ref = Cardinality(OpenOn(i)')
  <2> DEFINE A == OpenOn(i)
             B == OpenOn(i)'
  <2>1. IsFiniteSet(A) /\ node[i].ref = Cardinality(A) /\ Cardinality(A) \in Nat
    BY <1>0, FiniteOpens, FS_CardinalityType DEF Opens
  <2>2. B = A \cup {s} /\ s \notin A
    BY <1>10
  <2> HIDE DEF A, B
  <2>3. Cardinality(B) = Cardinality(A) + 1
    BY <2>1, <2>2, FS_AddElement
  <2>4. node'[i].ref = Cardinality(B)
    BY <1>2, <1>7, <2>1, <2>3
  <2> QED
    BY <2>4 DEF B
<1>13. \A j \in Ids : node'[j].ref = Cardinality(OpenOn(j)')
  <2> SUFFICES ASSUME NEW j \in Ids PROVE node'[j].ref = Cardinality(OpenOn(j)')
    OBVIOUS
  <2>1. CASE j = i
    BY <1>12, <2>1
  <2>2. CASE j # i
    BY <1>0, <1>7, <1>11, <2>2 DEF Opens
  <2> QED
    BY <2>1, <2>2
<1>14. Opens'
  BY <1>8, <1>9, <1>13 DEF Opens
<1> QED
  BY <1>6, <1>14 DEF Sane

LEMMA CloseKeeps ==
  ASSUME Sane, Calm', NEW s \in Streams, stream[s] # Closed, NEW i, i = stream[s].node,
         node' = [node EXCEPT ![i].ref = @ - 1], stream' = [stream EXCEPT ![s] = Closed]
  PROVE  Sane'
<1>0. Nodes /\ Tree /\ Opens
  BY DEF Sane
<1> DEFINE r == [node[i] EXCEPT !.ref = node[i].ref - 1]
<1>1. i \in Ids /\ ProperNode(node[i]) /\ DOMAIN node = Ids /\ node[i].type \in {"file", "device"}
  BY <1>0 DEF Nodes, Opens, IsOpen
<1>2. /\ DOMAIN r = Fields /\ r.type = node[i].type /\ r.name = node[i].name
      /\ r.parent = node[i].parent /\ r.ref = node[i].ref - 1 /\ r.size = node[i].size
      /\ r.cap = node[i].cap /\ r.content = node[i].content /\ r.ready = node[i].ready
  BY <1>1 DEF ProperNode, Fields
<1>3. node' = [node EXCEPT ![i] = r]
  BY <1>1
<1> HIDE DEF r
<1>5. ProperNode(r)
  BY <1>1, <1>2 DEF ProperNode
<1>6. Nodes' /\ Tree'
  BY <1>0, <1>1, <1>2, <1>3, <1>5, TouchKeeps
<1>7. /\ node'[i] = r /\ \A j \in Ids : j # i => node'[j] = node[j]
      /\ \A j \in Ids : node'[j].type = node[j].type /\ node'[j].size = node[j].size
  BY <1>1, <1>2, <1>3
<1>8. /\ DOMAIN stream' = Streams /\ stream'[s] = Closed
      /\ \A t \in Streams : t # s => stream'[t] = stream[t]
  BY <1>0 DEF Opens
<1>9. \A t \in Streams : stream'[t] = Closed \/ IsOpen(stream[t])'
  <2>1. \A t \in Streams : IsOpen(stream[t]) /\ t # s => IsOpen(stream[t])'
    BY <1>7, <1>8 DEF IsOpen
  <2> QED
    BY <1>0, <1>8, <2>1 DEF Opens
<1>10. OpenOn(i)' = OpenOn(i) \ {s} /\ s \in OpenOn(i)
  BY <1>8 DEF OpenOn
<1>11. \A j \in Ids : j # i => OpenOn(j)' = OpenOn(j)
  BY <1>8 DEF OpenOn
<1>12. node'[i].ref = Cardinality(OpenOn(i)')
  <2> DEFINE A == OpenOn(i)
             B == OpenOn(i)'
  <2>1. IsFiniteSet(A) /\ node[i].ref = Cardinality(A)
    BY <1>0, <1>1, FiniteOpens DEF Opens
  <2>2. B = A \ {s} /\ s \in A
    BY <1>10
  <2> HIDE DEF A, B
  <2>3. Cardinality(B) = Cardinality(A) - 1
    BY <2>1, <2>2, FS_RemoveElement
  <2>4. node'[i].ref = Cardinality(B)
    BY <1>2, <1>7, <2>1, <2>3
  <2> QED
    BY <2>4 DEF B
<1>13. \A j \in Ids : node'[j].ref = Cardinality(OpenOn(j)')
  <2> SUFFICES ASSUME NEW j \in Ids PROVE node'[j].ref = Cardinality(OpenOn(j)')
    OBVIOUS
  <2>1. CASE j = i
    BY <1>12, <2>1
  <2>2. CASE j # i
    BY <1>0, <1>7, <1>11, <2>2 DEF Opens
  <2> QED
    BY <2>1, <2>2
<1>14. Opens'
  BY <1>8, <1>9, <1>13 DEF Opens
<1> QED
  BY <1>6, <1>14 DEF Sane

(* The cases of vfs_open and vfs_close, told by what they change.  Nothing  *)
(* is ever closed that holds no reference.                                  *)
LEMMA OpenIs ==
  ASSUME Sane, NEW s \in Streams, NEW path \in Paths, NEW mode, NEW fault,
         vfs_open(s, path, mode, fault)
  PROVE  /\ stream[s] = Closed /\ Silent
         /\ \/ UNCHANGED <<node, stream>> /\ (UNCHANGED wild \/ wild' \in {"filename", "device"})
            \/ /\ UNCHANGED <<stream, wild>>
               /\ \E i \in Ids : node' = [node EXCEPT ![i].ref = node[i].ref]
            \/ /\ UNCHANGED wild
               /\ \E i \in Ids :
                    /\ node[i].type \in {"file", "device"}
                    /\ node' = [node EXCEPT ![i].ref = @ + 1]
                    /\ stream' = [stream EXCEPT ![s] = [node |-> i, pos |-> 0, mode |-> mode]]
<1>0. Nodes /\ Tree /\ stream[s] = Closed /\ Silent
  BY DEF Sane, vfs_open
<1> DEFINE p == vfs_parse_url(path)
<1>1. CASE UNCHANGED <<node, stream>> /\ (UNCHANGED wild \/ wild' \in {"filename", "device"})
  BY <1>0, <1>1
<1>2. CASE /\ p.found /\ ~p.crossing /\ node[p.at].type # "dir" /\ UNCHANGED wild
           /\ \/ node' = [node EXCEPT ![p.at].ref = RefAfterFailure(p.at)] /\ UNCHANGED stream
              \/ /\ node' = [node EXCEPT ![p.at].ref = @ + 1]
                 /\ stream' = [stream EXCEPT ![s] = [node |-> p.at, pos |-> 0, mode |-> mode]]
  <2>1. PICK i \in Ids : Used(i) /\ p.at = i /\ (p.crossing <=> node[i].type = "mount")
    BY <1>0, <1>2, PathIs, Leads
  <2>2. ~p.crossing /\ node[i].type # "dir" /\ UNCHANGED wild
    BY <1>2, <2>1
  <2>3. \/ node' = [node EXCEPT ![i].ref = RefAfterFailure(i)] /\ UNCHANGED stream
        \/ /\ node' = [node EXCEPT ![i].ref = @ + 1]
           /\ stream' = [stream EXCEPT ![s] = [node |-> i, pos |-> 0, mode |-> mode]]
    BY <1>2, <2>1
  <2> HIDE DEF p
  <2>4. ProperNode(node[i]) /\ DOMAIN node = Ids
    BY <1>0 DEF Nodes
  <2>5. node[i].type \in {"file", "device"}
    BY <2>1, <2>2, <2>4 DEF ProperNode, Types, Used
  <2>6. CASE node' = [node EXCEPT ![i].ref = RefAfterFailure(i)] /\ UNCHANGED stream
    <3>1. node' = [node EXCEPT ![i].ref = node[i].ref]
      BY <2>6 DEF RefAfterFailure
    <3> QED
      BY <1>0, <2>1, <2>2, <2>6, <3>1
  <2> QED
    BY <1>0, <2>1, <2>2, <2>3, <2>5, <2>6
<1> QED
  BY <1>1, <1>2 DEF vfs_open

LEMMA CloseIs ==
  ASSUME Sane, NEW s \in Streams, NEW fails, vfs_close(s, fails)
  PROVE  /\ Silent
         /\ \/ UNCHANGED <<node, stream>> /\ wild' = "device"
            \/ /\ UNCHANGED wild /\ stream[s] # Closed
               /\ node' = [node EXCEPT ![stream[s].node].ref = @ - 1]
               /\ stream' = [stream EXCEPT ![s] = Closed]
<1> DEFINE i == stream[s].node
<1>1. Opens /\ stream[s] # Closed
  BY DEF Sane, vfs_close
<1>2. i \in Ids
  BY <1>1 DEF Opens, IsOpen
<1>3. IsFiniteSet(OpenOn(i)) /\ s \in OpenOn(i) /\ node[i].ref = Cardinality(OpenOn(i))
  BY <1>1, <1>2, FiniteOpens DEF Opens, OpenOn
<1>4. node[i].ref # 0
  <2> DEFINE A == OpenOn(i)
  <2>1. IsFiniteSet(A) /\ A # {} /\ node[i].ref = Cardinality(A)
    BY <1>3
  <2> HIDE DEF A
  <2> QED
    BY <2>1, FS_EmptySet
<1> QED
  BY <1>1, <1>4 DEF vfs_close

(* A step that writes back what a node held keeps everything. *)
LEMMA SameRefKeeps ==
  ASSUME Sane, NEW i \in Ids, node' = [node EXCEPT ![i].ref = node[i].ref],
         UNCHANGED <<stream, wild>>
  PROVE  Sane'
<1>0. Nodes /\ Opens /\ Calm
  BY DEF Sane
<1> DEFINE r == [node[i] EXCEPT !.ref = node[i].ref]
<1>1. ProperNode(node[i]) /\ DOMAIN node = Ids
  BY <1>0 DEF Nodes
<1>2. /\ DOMAIN r = Fields /\ r.type = node[i].type /\ r.name = node[i].name
      /\ r.parent = node[i].parent /\ r.ref = node[i].ref /\ r.size = node[i].size
      /\ r.cap = node[i].cap /\ r.content = node[i].content /\ r.ready = node[i].ready
  BY <1>1 DEF ProperNode, Fields
<1>3. node' = [node EXCEPT ![i] = r]
  BY <1>1
<1> HIDE DEF r
<1>4. DOMAIN stream' = Streams /\ (\A s \in Streams : stream'[s] = stream[s]) /\ Calm'
  BY <1>0 DEF Opens, Calm
<1>5. CASE node[i].type # "none"
  <2>1. ProperNode(r) /\ r.size >= node[i].size
    BY <1>1, <1>2, <1>5 DEF ProperNode
  <2> QED
    BY <1>2, <1>3, <1>4, <2>1, ChangeKeeps
<1>6. CASE node[i].type = "none"
  <2>1. node[i] = Unused
    BY <1>1, <1>6 DEF ProperNode
  <2>2. r = Unused
    BY <2>1 DEF Unused, r
  <2>3. ProperNode(r) /\ r.size >= node[i].size
    BY <1>1, <2>1, <2>2 DEF ProperNode
  <2> QED
    BY <1>2, <1>3, <1>4, <2>3, ChangeKeeps
<1> QED
  BY <1>5, <1>6

LEMMA OpenSane ==
  ASSUME Sane, NEW s \in Streams, NEW path \in Paths, NEW mode, NEW fault,
         vfs_open(s, path, mode, fault)
  PROVE  Sane'
<1>1. Calm'
  BY OpenIs DEF Calm, Sane
<1> QED
  BY <1>1, OpenIs, NothingKeeps, SameRefKeeps, OpenKeeps

LEMMA CloseSane ==
  ASSUME Sane, NEW s \in Streams, NEW fails, vfs_close(s, fails)
  PROVE  Sane'
<1>1. Calm'
  BY CloseIs DEF Calm, Sane
<1> QED
  BY <1>1, CloseIs, NothingKeeps, CloseKeeps

-----------------------------------------------------------------------------
(* Reading, seeking and writing *)

LEMMA OnFileIs ==
  ASSUME Sane, NEW s \in Streams, NEW modes, OnFile(s, modes)
  PROVE  /\ stream[s] # Closed /\ IsOpen(stream[s]) /\ stream[s].node \in Ids
         /\ node[stream[s].node].type = "file" /\ ProperNode(node[stream[s].node])
         /\ stream[s].pos \in Nat /\ stream[s].pos <= node[stream[s].node].size
         /\ node[stream[s].node].size \in Nat
BY DEF OnFile, Sane, Opens, IsOpen, Nodes, ProperNode

(* A stream that moves within its file *)
LEMMA MoveSane ==
  ASSUME Sane, UNCHANGED <<node, wild>>, NEW s \in Streams, IsOpen(stream[s]),
         NEW p \in 0 .. node[stream[s].node].size, stream' = [stream EXCEPT ![s].pos = p]
  PROVE  Sane'
<1>0. Nodes /\ Tree /\ Opens /\ Calm
  BY DEF Sane
<1>1. Nodes' /\ Tree'
  BY <1>0, NodesStay
<1> DEFINE o == [stream[s] EXCEPT !.pos = p]
<1>2. stream' = [stream EXCEPT ![s] = o]
  BY <1>0 DEF Opens
<1>3. DOMAIN o = {"node", "pos", "mode"} /\ o.node = stream[s].node /\ o.pos = p
  BY DEF IsOpen
<1> HIDE DEF o
<1>4. /\ DOMAIN stream' = Streams /\ stream'[s] = o
      /\ \A t \in Streams : t # s => stream'[t] = stream[t]
  BY <1>0, <1>2 DEF Opens
<1>5. node[stream[s].node].size \in Nat
  BY <1>0 DEF IsOpen, Nodes, ProperNode
<1>6. IsOpen(stream[s])'
  BY <1>3, <1>4, <1>5 DEF IsOpen
<1>7. \A t \in Streams : t # s /\ IsOpen(stream[t]) => IsOpen(stream[t])'
  BY <1>4 DEF IsOpen
<1>8. \A t \in Streams : \/ stream[t] = Closed /\ stream'[t] = Closed
                         \/ /\ IsOpen(stream[t]) /\ IsOpen(stream[t])'
                            /\ stream'[t].node = stream[t].node
  BY <1>0, <1>3, <1>4, <1>6, <1>7 DEF Opens
<1>9. Opens'
  BY <1>0, <1>4, <1>8, MovesKeep
<1> QED
  BY <1>0, <1>1, <1>9 DEF Sane, Calm

LEMMA ReadIs ==
  ASSUME Sane, NEW s \in Streams, NEW n \in 1 .. 2, vfs_file_read(s, n)
  PROVE  LET f == node[stream[s].node]
             pos == stream[s].pos
         IN
         /\ UNCHANGED node
         /\ \/ Silent /\ UNCHANGED stream /\ (UNCHANGED wild \/ wild' = "lost")
            \/ /\ UNCHANGED wild /\ f.content # <<>>
               /\ \E k \in 1 .. f.size - pos :
                    /\ out' = SubSeq(f.content, pos + 1, pos + k)
                    /\ stream' = [stream EXCEPT ![s].pos = @ + k]
<1> DEFINE f == node[stream[s].node]
           pos == stream[s].pos
           k == Effective(n, pos, f.size)
<1>1. pos \in Nat /\ pos <= f.size /\ f.size \in Nat
  BY OnFileIs DEF vfs_file_read
<1> DEFINE size == f.size
<1> HIDE DEF pos, size
<1>2. k \in 0 .. size - pos
  BY <1>1 DEF Effective, size
<1> HIDE DEF k
<1>3. k = 0 \/ k \in 1 .. size - pos
  BY <1>1, <1>2 DEF size
<1>4. ~(pos > size)
  BY <1>1 DEF size
<1> QED
  BY <1>3, <1>4 DEF vfs_file_read, k, pos, size

LEMMA ReadSane ==
  ASSUME Sane, NEW s \in Streams, NEW n \in 1 .. 2, vfs_file_read(s, n)
  PROVE  Sane'
<1> DEFINE f == node[stream[s].node]
           pos == stream[s].pos
<1>0. pos \in Nat /\ pos <= f.size /\ f.size \in Nat /\ IsOpen(stream[s])
  BY OnFileIs DEF vfs_file_read
<1>1. CASE UNCHANGED <<node, stream>> /\ (UNCHANGED wild \/ wild' = "lost")
  BY <1>1, NothingKeeps DEF Sane, Calm
<1>2. ASSUME UNCHANGED <<node, wild>>, NEW k \in 1 .. f.size - pos,
             stream' = [stream EXCEPT ![s].pos = @ + k]
      PROVE  Sane'
  <2>1. pos + k \in 0 .. f.size
    BY <1>0
  <2>2. stream' = [stream EXCEPT ![s].pos = pos + k]
    BY <1>2
  <2> QED
    BY <1>0, <1>2, <2>1, <2>2, MoveSane
<1> QED
  BY <1>1, <1>2, ReadIs

LEMMA SeekIs ==
  ASSUME Sane, NEW s \in Streams, NEW off \in -1 .. 1,
         NEW origin \in {"begin", "current", "end"}, vfs_file_seek(s, off, origin)
  PROVE  /\ Silent /\ UNCHANGED <<node, wild>>
         /\ \/ UNCHANGED stream
            \/ \E p \in 0 .. node[stream[s].node].size : stream' = [stream EXCEPT ![s].pos = p]
<1> DEFINE size == node[stream[s].node].size
           pos == stream[s].pos
           p == CASE origin = "begin" -> off
                  [] origin = "current" -> pos + off
                  [] origin = "end" -> size - off
<1>1. size \in Nat /\ pos \in Nat
  BY OnFileIs DEF vfs_file_seek
<1>2. stream' = (IF SeekAllowed(p, size) THEN [stream EXCEPT ![s].pos = p] ELSE stream)
  BY DEF vfs_file_seek
<1>3. Silent /\ UNCHANGED <<node, wild>>
  BY DEF vfs_file_seek
<1> HIDE DEF size, pos
<1>4. p \in Int
  BY <1>1
<1> HIDE DEF p
<1>5. SeekAllowed(p, size) => p \in 0 .. size
  BY <1>1, <1>4 DEF SeekAllowed
<1> QED
  BY <1>2, <1>3, <1>5 DEF size

LEMMA SeekSane ==
  ASSUME Sane, NEW s \in Streams, NEW off \in -1 .. 1,
         NEW origin \in {"begin", "current", "end"}, vfs_file_seek(s, off, origin)
  PROVE  Sane'
<1>1. IsOpen(stream[s])
  BY OnFileIs DEF vfs_file_seek
<1>2. CASE UNCHANGED <<node, stream, wild>>
  BY <1>2, NothingKeeps DEF Sane, Calm
<1> QED
  BY <1>1, <1>2, SeekIs, MoveSane

(* What a write leaves in the node: its bytes at its place, the bytes there *)
(* were before around them, and junk in what the buffer has grown by.       *)
Covered(f, pos, block, k) ==
  IF k \in pos + 1 .. pos + Len(block) THEN block[k - pos]
  ELSE IF k <= Len(f.content) THEN f.content[k] ELSE JUNK

(* A node with room for what is to be written *)
Room(b, f, need) ==
  /\ DOMAIN b = Fields /\ b.type = f.type /\ b.name = f.name /\ b.parent = f.parent
  /\ b.ref = f.ref /\ b.ready = f.ready /\ b.size = f.size
  /\ b.cap \in Nat /\ b.cap >= need /\ b.cap >= f.size
  /\ b.content \in Seq(Bytes \cup {JUNK}) /\ Len(b.content) = b.cap
  /\ \A k \in 1 .. b.cap : b.content[k] = IF k <= Len(f.content) THEN f.content[k] ELSE JUNK

LEMMA BufferIs ==
  ASSUME NEW f, ProperNode(f), NEW n \in Nat, NEW pos \in Nat, pos <= f.size,
         NEW need, need = pos + n, f.content = <<>> /\ f.cap > 0 => need > f.cap,
         NEW b, b = Buffer(f, need, n)
  PROVE  Room(b, f, need)
<1> DEFINE cap == IF f.cap = 0 THEN n ELSE f.cap
           new == IF need > cap THEN NewCap(need) ELSE cap
           c == IF new = f.cap THEN f.content ELSE Grown(f, new)
           r == [f EXCEPT !.cap = new]
           S == Bytes \cup {JUNK}
<1>0. /\ DOMAIN f = Fields /\ f.size \in Nat /\ f.cap \in Nat /\ f.size <= f.cap
      /\ f.content \in Seq(S) /\ Len(f.content) \in {0, f.cap}
  BY DEF ProperNode
<1> HIDE DEF S
<1>1. b = [r EXCEPT !.content = c]
  BY DEF Buffer
<1>2. need \in Nat /\ NewCap(need) \in Nat /\ NewCap(need) >= need
  BY <1>0 DEF NewCap
<1>3. new \in Nat /\ new >= need /\ new >= f.cap
  BY <1>0, <1>2
<1>4. new = f.cap => Len(f.content) = f.cap
  <2> SUFFICES ASSUME new = f.cap, f.cap # 0 PROVE Len(f.content) = f.cap
    BY <1>0
  <2>1. ~(need > f.cap)
    BY <1>0, <1>2
  <2>2. f.content # <<>>
    BY <1>0, <2>1
  <2>3. Len(f.content) # 0
    BY <1>0, <2>2, EmptySeq
  <2> QED
    BY <1>0, <2>3
<1> HIDE DEF new
<1>5. /\ c \in Seq(S) /\ Len(c) = new
      /\ \A k \in 1 .. new : c[k] = IF k <= Len(f.content) THEN f.content[k] ELSE JUNK
  <2>1. CASE new = f.cap
    BY <1>0, <1>4, <2>1
  <2>2. CASE new # f.cap
    <3>1. c = Grown(f, new)
      BY <2>2
    <3> HIDE DEF c
    <3>2. \A k \in 1 .. new : k <= Len(f.content) => f.content[k] \in S
      BY <1>0
    <3>3. JUNK \in S
      BY DEF S
    <3>4. c \in [1 .. new -> S]
      BY <1>3, <3>1, <3>2, <3>3 DEF Grown
    <3>5. c \in Seq(S) /\ Len(c) = new
      BY <1>3, <3>4
    <3>6. \A k \in 1 .. new : c[k] = IF k <= Len(f.content) THEN f.content[k] ELSE JUNK
      BY <3>1 DEF Grown
    <3> QED
      BY <3>5, <3>6
  <2> QED
    BY <2>1, <2>2
<1> HIDE DEF c
<1>6. /\ DOMAIN r = Fields /\ r.cap = new /\ r.type = f.type /\ r.name = f.name
      /\ r.parent = f.parent /\ r.ref = f.ref /\ r.ready = f.ready /\ r.size = f.size
  BY <1>0 DEF Fields
<1> HIDE DEF r
<1>7. /\ DOMAIN b = Fields /\ b.cap = new /\ b.content = c /\ b.type = f.type /\ b.name = f.name
      /\ b.parent = f.parent /\ b.ref = f.ref /\ b.ready = f.ready /\ b.size = f.size
  BY <1>1, <1>6 DEF Fields
<1>8. b.cap >= need /\ b.cap >= f.size
  BY <1>0, <1>2, <1>3, <1>7
<1> QED
  BY <1>3, <1>5, <1>7, <1>8 DEF S, Room

LEMMA PutIs ==
  ASSUME NEW f, ProperNode(f), f.type = "file", NEW block \in Seq(Bytes),
         NEW pos \in Nat, pos <= f.size,
         f.content = <<>> /\ f.cap > 0 => pos + Len(block) > f.cap
  PROVE  LET need == pos + Len(block)
             r == Put(Buffer(f, need, Len(block)), pos, block)
         IN
         /\ ProperNode(r) /\ r.type = f.type /\ r.name = f.name /\ r.parent = f.parent
         /\ r.ref = f.ref /\ r.size = (IF need > f.size THEN need ELSE f.size)
         /\ Len(r.content) >= r.size
         /\ \A k \in 1 .. Len(r.content) : r.content[k] = Covered(f, pos, block, k)
<1> DEFINE n == Len(block)
           need == pos + n
           b == Buffer(f, need, n)
           r == Put(b, pos, block)
           S == Bytes \cup {JUNK}
           end == IF need > b.size THEN need ELSE b.size
           c == [k \in 1 .. Len(b.content) |->
                   IF k \in pos + 1 .. need THEN block[k - pos] ELSE b.content[k]]
           q == [b EXCEPT !.content = c]
<1>0. n \in Nat /\ f.size \in Nat /\ need \in Nat
  BY DEF ProperNode
<1>1. /\ DOMAIN b = Fields /\ b.type = f.type /\ b.name = f.name /\ b.parent = f.parent
      /\ b.ref = f.ref /\ b.ready = f.ready /\ b.size = f.size
      /\ b.cap \in Nat /\ b.cap >= need /\ b.cap >= f.size
      /\ b.content \in Seq(S) /\ Len(b.content) = b.cap
      /\ \A k \in 1 .. b.cap : b.content[k] = IF k <= Len(f.content) THEN f.content[k] ELSE JUNK
  <2>1. b = Buffer(f, need, n)
    BY Zenon
  <2>2. need = pos + n /\ (f.content = <<>> /\ f.cap > 0 => need > f.cap)
    OBVIOUS
  <2> HIDE DEF n, b, need
  <2>3. Room(b, f, need)
    BY <1>0, <2>1, <2>2, BufferIs
  <2> QED
    BY <2>3 DEF Room
<1>2. r = [q EXCEPT !.size = end]
  BY DEF Put
<1> HIDE DEF b, r, S
<1>3. c \in [1 .. b.cap -> S]
  <2>1. \A k \in 1 .. b.cap : k \in pos + 1 .. need => block[k - pos] \in Bytes
    BY <1>0
  <2>2. \A k \in 1 .. b.cap : b.content[k] \in S
    BY <1>1
  <2> HIDE DEF need
  <2> QED
    BY <1>1, <2>1, <2>2 DEF S
<1>4. \A k \in 1 .. b.cap : c[k] = Covered(f, pos, block, k)
  BY <1>1 DEF Covered
<1> HIDE DEF c
<1>5. c \in Seq(S) /\ Len(c) = b.cap
  <2> DEFINE m == b.cap
  <2>1. m \in Nat /\ c \in [1 .. m -> S]
    BY <1>1, <1>3
  <2> HIDE DEF m
  <2>2. c \in Seq(S) /\ Len(c) = m
    BY <2>1
  <2> QED
    BY <2>2 DEF m
<1>6. /\ DOMAIN q = Fields /\ q.type = f.type /\ q.name = f.name /\ q.parent = f.parent
      /\ q.ref = f.ref /\ q.ready = f.ready /\ q.cap = b.cap /\ q.content = c
  BY <1>1 DEF Fields
<1> HIDE DEF q, need
<1>7. end = (IF need > f.size THEN need ELSE f.size) /\ end \in Nat /\ end <= b.cap
  BY <1>0, <1>1
<1> HIDE DEF end
<1>8. /\ DOMAIN r = Fields /\ r.type = f.type /\ r.name = f.name /\ r.parent = f.parent
      /\ r.ref = f.ref /\ r.ready = f.ready /\ r.cap = b.cap /\ r.content = c /\ r.size = end
  BY <1>2, <1>6 DEF Fields
<1>9. ProperNode(r)
  BY <1>1, <1>5, <1>7, <1>8 DEF ProperNode, Types, S
<1>10. /\ Len(r.content) >= r.size
       /\ \A k \in 1 .. Len(r.content) : r.content[k] = Covered(f, pos, block, k)
  BY <1>0, <1>1, <1>4, <1>5, <1>7, <1>8
<1> QED
  BY <1>7, <1>8, <1>9, <1>10 DEF r, b, need

LEMMA WriteIs ==
  ASSUME Sane, NEW s \in Streams, NEW block \in Blocks, NEW oom, vfs_file_write(s, block, oom)
  PROVE  LET i == stream[s].node
             f == node[i]
             pos == stream[s].pos
             need == pos + Len(block)
         IN
         /\ Silent
         /\ \/ UNCHANGED <<node, stream>> /\ wild' = "lost"
            \/ UNCHANGED <<stream, wild>> /\ node' = [node EXCEPT ![i].content = <<>>]
            \/ /\ UNCHANGED wild /\ (f.content = <<>> /\ f.cap > 0 => need > f.cap)
               /\ node' = [node EXCEPT ![i] = Put(Buffer(f, need, Len(block)), pos, block)]
               /\ stream' = [stream EXCEPT ![s].pos = need]
<1> DEFINE f == node[stream[s].node]
           pos == stream[s].pos
           need == pos + Len(block)
<1>1. pos \in Nat /\ pos <= f.size /\ f.size \in Nat /\ ProperNode(f)
  BY OnFileIs DEF vfs_file_write
<1>2. block \in Seq(Bytes) /\ Len(block) \in Nat
  BY VfsAssumption
<1>3. f.cap \in Nat /\ need \in Nat
  BY <1>1, <1>2 DEF ProperNode
<1> DEFINE size == f.size
           cap == f.cap
<1>4. (pos > size <=> FALSE) /\ (need <= cap <=> ~(need > cap))
  BY <1>1, <1>3
<1> HIDE DEF pos, size, need, cap
<1> QED
  BY <1>4 DEF vfs_file_write, pos, size, need, cap

LEMMA WriteSane ==
  ASSUME Sane, NEW s \in Streams, NEW block \in Blocks, NEW oom, vfs_file_write(s, block, oom)
  PROVE  Sane'
<1> DEFINE i == stream[s].node
           f == node[i]
           pos == stream[s].pos
           need == pos + Len(block)
<1>0. Nodes /\ Tree /\ Opens /\ Calm
  BY DEF Sane
<1>1. /\ stream[s] # Closed /\ IsOpen(stream[s]) /\ i \in Ids /\ f.type = "file" /\ ProperNode(f)
      /\ pos \in Nat /\ pos <= f.size /\ f.size \in Nat
  BY OnFileIs DEF vfs_file_write
<1>2. block \in Seq(Bytes) /\ Len(block) \in Nat
  BY VfsAssumption
<1>3. DOMAIN stream = Streams
  BY <1>0 DEF Opens
<1>4. CASE UNCHANGED <<node, stream>> /\ wild' = "lost"
  BY <1>4, NothingKeeps DEF Calm
<1>5. CASE UNCHANGED <<stream, wild>> /\ node' = [node EXCEPT ![i].content = <<>>]
  <2> DEFINE r == [f EXCEPT !.content = <<>>]
  <2>1. /\ DOMAIN r = Fields /\ r.type = f.type /\ r.name = f.name /\ r.parent = f.parent
        /\ r.ref = f.ref /\ r.size = f.size /\ r.cap = f.cap /\ r.content = <<>>
    BY <1>1 DEF ProperNode, Fields
  <2>2. node' = [node EXCEPT ![i] = r]
    BY <1>0, <1>5 DEF Nodes
  <2> HIDE DEF r
  <2>3. ProperNode(r) /\ r.size >= f.size
    BY <1>1, <2>1 DEF ProperNode
  <2>4. (\A t \in Streams : stream'[t] = stream[t]) /\ DOMAIN stream' = Streams /\ Calm'
    BY <1>0, <1>3, <1>5 DEF Calm
  <2> HIDE DEF i
  <2> QED
    BY <1>1, <2>1, <2>2, <2>3, <2>4, ChangeKeeps
<1>6. CASE /\ UNCHANGED wild /\ (f.content = <<>> /\ f.cap > 0 => need > f.cap)
           /\ node' = [node EXCEPT ![i] = Put(Buffer(f, need, Len(block)), pos, block)]
           /\ stream' = [stream EXCEPT ![s].pos = need]
  <2> DEFINE r == Put(Buffer(f, need, Len(block)), pos, block)
             o == [stream[s] EXCEPT !.pos = need]
  <2>1. /\ ProperNode(r) /\ r.type = f.type /\ r.name = f.name /\ r.parent = f.parent
        /\ r.ref = f.ref /\ r.size = (IF need > f.size THEN need ELSE f.size)
    <3> DEFINE g == f
               x == pos
    <3>1. /\ ProperNode(g) /\ g.type = "file" /\ x \in Nat /\ x <= g.size
          /\ (g.content = <<>> /\ g.cap > 0 => x + Len(block) > g.cap)
      BY <1>1, <1>6
    <3> HIDE DEF g, x
    <3>2. LET b == Put(Buffer(g, x + Len(block), Len(block)), x, block) IN
          /\ ProperNode(b) /\ b.type = g.type /\ b.name = g.name /\ b.parent = g.parent
          /\ b.ref = g.ref /\ b.size = (IF x + Len(block) > g.size THEN x + Len(block) ELSE g.size)
      BY <1>2, <3>1, PutIs
    <3> QED
      BY <3>2 DEF g, x
  <2>2. node' = [node EXCEPT ![i] = r] /\ stream' = [stream EXCEPT ![s] = o]
    BY <1>3, <1>6
  <2> HIDE DEF r
  <2>3. r.size >= f.size /\ need \in 0 .. r.size
    BY <1>1, <1>2, <2>1
  <2>4. DOMAIN o = {"node", "pos", "mode"} /\ o.node = i /\ o.pos = need
    BY <1>1 DEF IsOpen
  <2> HIDE DEF o, need
  <2>5. /\ DOMAIN stream' = Streams /\ stream'[s] = o
        /\ \A t \in Streams : t # s => stream'[t] = stream[t]
    BY <1>3, <2>2
  <2>6. \A t \in Streams :
           \/ stream'[t] = stream[t]
           \/ /\ IsOpen(stream[t]) /\ DOMAIN stream'[t] = {"node", "pos", "mode"}
              /\ stream[t].node = i /\ stream'[t].node = i
              /\ stream'[t].pos \in 0 .. r.size
    BY <1>1, <2>3, <2>4, <2>5
  <2>7. Calm'
    BY <1>0, <1>6 DEF Calm
  <2> HIDE DEF i
  <2> QED
    BY <1>1, <2>1, <2>2, <2>3, <2>5, <2>6, <2>7, ChangeKeeps
<1> QED
  BY <1>4, <1>5, <1>6, WriteIs

-----------------------------------------------------------------------------
(* The invariant of the specification *)

LEMMA SaneIsInvariant == Sane /\ [Next]_vars => Sane'
<1> SUFFICES ASSUME Sane, [Next]_vars PROVE Sane'
  OBVIOUS
<1>1. ASSUME NEW path \in Paths, NEW rwe \in BOOLEAN, NEW fails \in BOOLEAN,
             vfs_mkdir(path, rwe, fails) \/ vfs_create(path, rwe, fails)
      PROVE  Sane'
  BY <1>1, MkdirKeeps, AddAtKeeps DEF vfs_create
<1>2. ASSUME NEW path \in Paths, NEW fails \in BOOLEAN,
             vfs_mount_device(path, fails) \/ vfs_mount_fs(path, fails)
      PROVE  Sane'
  BY <1>2, AddAtKeeps DEF vfs_mount_device, vfs_mount_fs
<1>3. ASSUME NEW path \in Paths, vfs_unmount_device(path) \/ vfs_unmount_fs(path)
      PROVE  Sane'
  BY <1>3, UnmountDeviceKeeps, UnmountFsKeeps
<1>4. ASSUME NEW path \in Paths, NEW s \in Streams, NEW mode \in Modes, NEW fault \in Faults,
             vfs_open(s, path, mode, fault)
      PROVE  Sane'
  BY <1>4, OpenSane
<1>5. ASSUME NEW s \in Streams, NEW fails \in BOOLEAN, vfs_close(s, fails) PROVE Sane'
  BY <1>5, CloseSane
<1>6. ASSUME NEW s \in Streams, NEW n \in 1 .. 2, vfs_file_read(s, n) PROVE Sane'
  BY <1>6, ReadSane
<1>7. ASSUME NEW s \in Streams, NEW block \in Blocks, NEW oom \in BOOLEAN,
             vfs_file_write(s, block, oom)
      PROVE  Sane'
  BY <1>7, WriteSane
<1>8. ASSUME NEW s \in Streams, NEW off \in -1 .. 1, NEW origin \in {"begin", "current", "end"},
             vfs_file_seek(s, off, origin)
      PROVE  Sane'
  BY <1>8, SeekSane
<1>9. CASE UNCHANGED vars
  BY <1>9, NothingKeeps DEF vars, Sane, Calm
<1> QED
  BY <1>1, <1>2, <1>3, <1>4, <1>5, <1>6, <1>7, <1>8, <1>9 DEF Next

LEMMA AlwaysSane == Spec => []Sane
<1>1. Init => Sane
  BY InitSane
<1>2. Sane /\ [Next]_vars => Sane'
  BY SaneIsInvariant
<1> QED
  BY <1>1, <1>2, PTL DEF Spec

LEMMA SaneAgree == Sane => StreamsAndNodes
<1> SUFFICES ASSUME Sane PROVE TypeOK /\ RefCounts /\ PosInFile
  BY DEF StreamsAndNodes
<1>0. Nodes /\ Tree /\ Opens /\ Calm
  BY DEF Sane
<1>1. ASSUME NEW i \in Ids
      PROVE  /\ node[i].type \in {"none", "dir", "file", "device", "mount"}
             /\ node[i].parent \in 0 .. MaxNodes /\ node[i].ref \in 0 .. Cardinality(Streams)
             /\ Len(node[i].content) \in {0, node[i].cap}
             /\ node[i].ref = Cardinality(OpenOn(i))
             /\ node[i].size <= node[i].cap
  <2>1. ProperNode(node[i]) /\ node[i].parent \in 0 .. MaxNodes
    BY <1>0 DEF Nodes, Tree
  <2>2. node[i].ref = Cardinality(OpenOn(i)) /\ node[i].ref \in 0 .. Cardinality(Streams)
    BY <1>0, FiniteOpens DEF Opens
  <2> QED
    BY <2>1, <2>2 DEF ProperNode, Types
<1>2. \A s \in Streams : stream[s] = Closed \/ (stream[s].node \in Ids
                           /\ stream[s].pos <= node[stream[s].node].size)
  BY <1>0 DEF Opens, IsOpen
<1>3. wild \in {"no", "child", "filename", "device", "lost", "pos", "refcount"} /\ wild # "refcount"
  BY <1>0 DEF Calm
<1>4. \A i \in Ids : \A s \in OpenOn(i) : stream[s].pos <= node[i].size
  BY <1>2 DEF OpenOn
<1> QED
  BY <1>1, <1>2, <1>3, <1>4 DEF TypeOK, RefCounts, PosInFile

(* Whatever is opened, read, written, sought and closed on however many     *)
(* streams, mounted and unmounted, and whatever memory fails: a node counts *)
(* the streams open on it, and no stream stands behind the end of its file, *)
(* nor the end of a file behind that of its buffer.                         *)
THEOREM OpensAreCounted == Spec => []StreamsAndNodes
BY AlwaysSane, SaneAgree, PTL

(* A path that leads across a mount point always finds its driver there:    *)
(* vfs_unmount_fs never gets to finalize one.                               *)
THEOREM DriversStay == Spec => []CrossingIsLive
<1>1. Sane => CrossingIsLive
  <2> SUFFICES ASSUME Sane, NEW path \in Paths, vfs_parse_url(path).crossing
               PROVE  node[vfs_parse_url(path).at].ready
    BY DEF CrossingIsLive
  <2> DEFINE p == vfs_parse_url(path)
  <2>0. Nodes /\ Tree /\ path \in Seq(STRING)
    BY PathIs DEF Sane
  <2>1. p.found
    <3>1. Result(p)
      BY <2>0, ParseIs
    <3> HIDE DEF p
    <3>2. p # NotFound
      <4>1. NotFound.crossing = FALSE
        BY DEF NotFound
      <4>2. p.crossing
        BY DEF p
      <4> QED
        BY <4>1, <4>2, Zenon
    <3>3. PICK i \in Ids : p = FoundAt(i)
      BY <3>1, <3>2 DEF Result
    <3> QED
      BY <3>3 DEF FoundAt
  <2>2. PICK i \in Ids : p.at = i /\ (p.crossing <=> node[i].type = "mount")
    BY <2>0, <2>1, Leads
  <2>3. node[i].type = "mount" /\ node[i].ready = TRUE
    BY <2>0, <2>2 DEF Nodes, ProperNode
  <2>4. node[i].ready
    BY <2>3, Zenon
  <2> QED
    BY <2>2, <2>4
<1> QED
  BY <1>1, AlwaysSane, PTL

-----------------------------------------------------------------------------
(* Files as sequences of bytes.  What FileStore sees of a node and of a     *)
(* stream.                                                                  *)
Intact(f) == Len(f.content) >= f.size /\ \A k \in 1 .. f.size : f.content[k] # JUNK

Absent == <<"absent">>

Lost == <<"lost">>

LEMMA BytesAreData ==
  ASSUME NEW bs \in Seq(Bytes)
  PROVE  bs # Absent /\ bs # Lost
<1>1. ASSUME bs = Absent \/ bs = Lost PROVE FALSE
  <2>1. Len(bs) = 1 /\ bs[1] \in {"absent", "lost"}
    BY <1>1 DEF Absent, Lost
  <2>2. bs[1] \in Bytes
    <3>1. 1 \in 1 .. Len(bs)
      BY <2>1
    <3> QED
      BY <3>1, ElementOfSeq
  <2> QED
    BY <2>1, <2>2, VfsAssumption
<1> QED
  BY <1>1

DataOf(f) ==
  IF f.type # "file" THEN Absent
  ELSE IF Len(f.content) < f.size \/ \E k \in 1 .. f.size : f.content[k] = JUNK THEN Lost
  ELSE SubSeq(f.content, 1, f.size)

LEMMA DataOfIs ==
  ASSUME NEW f, ProperNode(f)
  PROVE  /\ f.type # "file" => DataOf(f) = Absent
         /\ f.type = "file" /\ ~Intact(f) => DataOf(f) = Lost
         /\ f.type = "file" /\ Intact(f) =>
              /\ DataOf(f) = SubSeq(f.content, 1, f.size)
              /\ DataOf(f) \in Seq(Bytes) /\ Len(DataOf(f)) = f.size
              /\ \A k \in 1 .. f.size : DataOf(f)[k] = f.content[k] /\ f.content[k] \in Bytes
         /\ f.type = "file" => DataOf(f) # Absent
<1> DEFINE q == SubSeq(f.content, 1, f.size)
<1>0. f.size \in Nat /\ f.content \in Seq(Bytes \cup {JUNK}) /\ Len(f.content) \in Nat
  BY DEF ProperNode
<1>2. f.type # "file" => DataOf(f) = Absent
  BY DEF DataOf
<1>3. ASSUME f.type = "file", ~Intact(f) PROVE DataOf(f) = Lost
  BY <1>0, <1>3 DEF DataOf, Intact
<1>4. ASSUME f.type = "file", Intact(f)
      PROVE  /\ DataOf(f) = q /\ q \in Seq(Bytes) /\ Len(q) = f.size
             /\ \A k \in 1 .. f.size : q[k] = f.content[k] /\ f.content[k] \in Bytes
  <2>1. ~(Len(f.content) < f.size \/ \E k \in 1 .. f.size : f.content[k] = JUNK)
    BY <1>0, <1>4 DEF Intact
  <2>2. DataOf(f) = q
    BY <1>4, <2>1 DEF DataOf
  <2>3. \A k \in 1 .. f.size : f.content[k] \in Bytes
    BY <1>0, <1>4 DEF Intact
  <2> DEFINE n == f.size
             c == f.content
  <2>4. n \in Int /\ n \in Nat /\ 1 \in Int /\ \A k \in 1 .. n : c[k] \in Bytes
    BY <1>0, <2>3
  <2> HIDE DEF n, c
  <2>5. /\ SubSeq(c, 1, n) \in Seq(Bytes)
        /\ Len(SubSeq(c, 1, n)) = IF 1 <= n THEN n - 1 + 1 ELSE 0
        /\ \A k \in 1 .. n - 1 + 1 : SubSeq(c, 1, n)[k] = c[1 + k - 1]
    BY <2>4, SubSeqProperties
  <2>6. Len(SubSeq(c, 1, n)) = n
    BY <2>4, <2>5
  <2>7. \A k \in 1 .. n : SubSeq(c, 1, n)[k] = c[k]
    <3>1. \A k \in 1 .. n : k \in 1 .. n - 1 + 1 /\ 1 + k - 1 = k
      BY <2>4
    <3> QED
      BY <2>5, <3>1
  <2> QED
    BY <2>2, <2>3, <2>5, <2>6, <2>7 DEF n, c
<1>5. f.type = "file" => DataOf(f) # Absent
  <2>1. Lost # Absent
    <3>1. Lost[1] # Absent[1]
      BY DEF Lost, Absent
    <3> QED
      BY <3>1
  <2> QED
    BY <1>3, <1>4, <2>1, BytesAreData
<1> QED
  BY <1>2, <1>3, <1>4, <1>5

LEMMA DataIs ==
  ASSUME Nodes, NEW i \in Ids
  PROVE  /\ fileData[i] = FileData(i) /\ FileData(i) = DataOf(node[i])
         /\ node[i].type # "file" => FileData(i) = Absent
         /\ node[i].type = "file" => FileData(i) # Absent
<1>1. fileData[i] = FileData(i) /\ FileData(i) = DataOf(node[i])
  BY DEF fileData, FileData, DataOf, Absent, Lost
<1>2. ProperNode(node[i])
  BY DEF Nodes
<1> QED
  BY <1>1, <1>2, DataOfIs

OnFileNow(s) == stream[s] # Closed /\ node[stream[s].node].type = "file"

LEMMA StreamIs ==
  ASSUME Opens, NEW s \in Streams
  PROVE  /\ ~OnFileNow(s) => fileStream[s] = NoFile /\ s \notin FS!Open
         /\ OnFileNow(s) => /\ fileStream[s] = [file |-> stream[s].node, pos |-> stream[s].pos]
                            /\ s \in FS!Open
                            /\ fileStream[s].file = stream[s].node
                            /\ fileStream[s].pos = stream[s].pos
<1>1. ~OnFileNow(s) => fileStream[s] = NoFile
  BY DEF fileStream, OnFileNow
<1>2. OnFileNow(s) => fileStream[s] = [file |-> stream[s].node, pos |-> stream[s].pos]
  BY DEF fileStream, OnFileNow
<1>3. ASSUME OnFileNow(s) PROVE fileStream[s] # NoFile
  <2>1. stream[s].node \in Ids
    BY <1>3 DEF Opens, OnFileNow, IsOpen
  <2>2. fileStream[s].file # 0
    BY <1>2, <1>3, <2>1, Numbers
  <2> QED
    BY <2>2 DEF NoFile
<1> QED
  BY <1>1, <1>2, <1>3 DEF FS!Open

(* Streams stay when nothing moves and no node with a stream changes type.  *)
LEMMA StreamsStay ==
  ASSUME Opens, UNCHANGED stream,
         \A j \in Ids : node[j].type \in {"file", "device"} => node'[j].type = node[j].type
  PROVE  UNCHANGED fileStream
<1>1. ASSUME NEW s \in Streams
      PROVE  (stream'[s] # Closed /\ node'[stream'[s].node].type = "file") <=> OnFileNow(s)
  BY DEF Opens, IsOpen, OnFileNow
<1> QED
  BY <1>1 DEF fileStream, OnFileNow

LEMMA DataStays ==
  ASSUME NEW j \in Ids, node'[j].type = node[j].type, node'[j].size = node[j].size,
         node'[j].content = node[j].content
  PROVE  FileData(j)' = FileData(j)
BY DEF FileData

LEMMA OtherStep ==
  ASSUME Sane, Silent, UNCHANGED stream,
         \A j \in Ids : /\ node'[j].type = node[j].type /\ node'[j].size = node[j].size
                        /\ node'[j].content = node[j].content
  PROVE  FS!Next
<1>1. UNCHANGED fileStream
  BY StreamsStay DEF Sane
<1>2. UNCHANGED fileData
  BY DataStays DEF fileData
<1> QED
  BY <1>1, <1>2 DEF FS!Next, FS!Other, FS!Quiet, Silent

LEMMA FilesInit == Init => FS!Init
<1> SUFFICES ASSUME Init PROVE FS!Init
  OBVIOUS
<1>0. Nodes /\ Opens
  BY InitSane DEF Sane
<1>1. \A i \in Ids : node[i].type # "file"
  <2> DEFINE root == NewNode("dir", "none", 0, FALSE)
  <2>1. node[1] = root /\ \A i \in Ids : i # 1 => node[i] = Unused
    BY Numbers DEF Init
  <2>2. PICK b : root = NewNode("dir", "none", 0, b)
    OBVIOUS
  <2> HIDE DEF root
  <2>3. root.type = "dir"
    BY <2>2, NewNodeIs
  <2> QED
    BY <2>1, <2>3, UnusedIs
<1>2. fileData = [i \in Ids |-> Absent]
  BY <1>0, <1>1, DataIs DEF fileData
<1>3. fileStream = [s \in Streams |-> NoFile]
  BY DEF Init, fileStream
<1> QED
  BY <1>2, <1>3 DEF FS!Init, Init, Absent

-----------------------------------------------------------------------------
(* Every step is one of FileStore. *)

LEMMA AddStep ==
  ASSUME Sane, Free # {}, NEW i, NEW name, NEW rwe,
         NEW type \in {"dir", "file", "device", "mount"}, Place(i, name, type),
         AddChild(i, name, type, rwe), UNCHANGED stream, Silent
  PROVE  FS!Next
<1>0. Nodes /\ Tree /\ Opens
  BY DEF Sane
<1>1. PICK j \in Ids : /\ ~Used(j) /\ node'[j] = NewNode(type, name, i, rwe)
                       /\ \A k \in Ids : k # j => node'[k] = node[k]
  BY <1>0, AddKeeps
<1> DEFINE r == node'[j]
<1>2. r.type = type /\ r.size = 0 /\ r.content = <<>>
  BY <1>1, NewNodeIs
<1>3. node[j].type = "none"
  BY <1>1 DEF Used
<1>4. UNCHANGED fileStream
  <2>1. \A k \in Ids : node[k].type \in {"file", "device"} => node'[k].type = node[k].type
    BY <1>1, <1>3
  <2> QED
    BY <1>0, <2>1, StreamsStay
<1>5. \A k \in Ids : k # j => FileData(k)' = FileData(k)
  BY <1>1, DataStays
<1>6. fileData[j] = Absent
  BY <1>0, <1>3, DataIs
<1>7. FileData(j)' = IF type = "file" THEN <<>> ELSE Absent
  <2>1. CASE type # "file"
    BY <1>2, <2>1 DEF FileData, Absent
  <2>2. CASE type = "file"
    <3>1. Len(r.content) = 0 /\ SubSeq(r.content, 1, 0) = <<>>
      BY <1>2, EmptySeq, SubSeqEmpty
    <3> QED
      BY <1>2, <2>2, <3>1 DEF FileData
  <2> QED
    BY <2>1, <2>2
<1>8. CASE type = "file"
  <2>1. fileData' = [fileData EXCEPT ![j] = <<>>]
    BY <1>5, <1>7, <1>8 DEF fileData
  <2>2. FS!Create(j)
    BY <1>4, <1>6, <2>1 DEF FS!Create, FS!Quiet, Silent, Absent
  <2> QED
    BY <2>2 DEF FS!Next
<1>9. CASE type # "file"
  <2>1. \A k \in Ids : FileData(k)' = FileData(k)
    BY <1>0, <1>5, <1>6, <1>7, <1>9, DataIs
  <2>2. UNCHANGED fileData
    BY <2>1 DEF fileData
  <2> QED
    BY <1>4, <2>2 DEF FS!Next, FS!Other, FS!Quiet, Silent
<1> QED
  BY <1>8, <1>9

LEMMA AddedStep ==
  ASSUME Sane, Free # {}, UNCHANGED stream, Silent,
         NEW type \in {"dir", "file", "device", "mount"}, NEW rwe,
         \/ UNCHANGED node
         \/ \E i \in Ids : \E x \in STRING : Place(i, x, type) /\ AddChild(i, x, type, rwe)
  PROVE  FS!Next
<1>1. CASE UNCHANGED node
  BY <1>1, OtherStep
<1>2. ASSUME NEW i \in Ids, NEW x \in STRING, Place(i, x, type), AddChild(i, x, type, rwe)
      PROVE  FS!Next
  BY <1>2, AddStep
<1> QED
  BY <1>1, <1>2

LEMMA MkdirStep ==
  ASSUME Sane, NEW path \in Paths, NEW rwe, NEW fails, vfs_mkdir(path, rwe, fails)
  PROVE  FS!Next
BY MkdirIs, AddedStep

LEMMA AddAtStep ==
  ASSUME Sane, NEW path \in Paths, NEW type \in {"file", "device", "mount"}, NEW rwe, NEW fails,
         AddAt(path, type, rwe, fails)
  PROVE  FS!Next
BY AddAtIs, AddedStep

LEMMA UnmountStep ==
  ASSUME Sane, NEW path \in Paths, vfs_unmount_device(path) \/ vfs_unmount_fs(path)
  PROVE  FS!Next
<1> DEFINE p == vfs_parse_url(path)
<1>0. Nodes /\ Tree /\ path \in Seq(STRING) /\ DOMAIN node = Ids
  BY PathIs DEF Sane, Nodes
<1>1. CASE UNCHANGED node /\ UNCHANGED stream /\ Silent
  BY <1>1, OtherStep
<1>2. CASE p.found /\ node' = [node EXCEPT ![p.at].ready = FALSE] /\ UNCHANGED stream /\ Silent
  <2>1. PICK i \in Ids : p.at = i
    BY <1>0, <1>2, Leads
  <2> HIDE DEF p
  <2> DEFINE r == [node[i] EXCEPT !.ready = FALSE]
  <2>2. r.type = node[i].type /\ r.size = node[i].size /\ r.content = node[i].content
    BY <1>0 DEF Nodes, ProperNode, Fields
  <2>3. node' = [node EXCEPT ![i] = r]
    BY <1>0, <1>2, <2>1
  <2> HIDE DEF r
  <2>4. \A j \in Ids : /\ node'[j].type = node[j].type /\ node'[j].size = node[j].size
                       /\ node'[j].content = node[j].content
    BY <1>0, <2>2, <2>3
  <2> QED
    BY <1>2, <2>4, OtherStep
<1>3. CASE vfs_unmount_device(path)
  BY <1>1, <1>2, <1>3 DEF vfs_unmount_device
<1>4. CASE vfs_unmount_fs(path)
  BY <1>0, <1>1, <1>4, NeverUnmounts DEF vfs_unmount_fs
<1> QED
  BY <1>3, <1>4

(* A node's count of references is no part of its data. *)
LEMMA RefsAreNoData ==
  ASSUME Nodes, NEW i \in Ids, NEW n, node' = [node EXCEPT ![i].ref = n]
  PROVE  \A j \in Ids : /\ node'[j].type = node[j].type /\ node'[j].size = node[j].size
                        /\ node'[j].content = node[j].content
<1> DEFINE r == [node[i] EXCEPT !.ref = n]
<1>1. r.type = node[i].type /\ r.size = node[i].size /\ r.content = node[i].content
  BY DEF Nodes, ProperNode, Fields
<1>2. node' = [node EXCEPT ![i] = r] /\ DOMAIN node = Ids
  BY DEF Nodes
<1> HIDE DEF r
<1> QED
  BY <1>1, <1>2

(* One stream changes: the others look as before. *)
LEMMA OneStream ==
  ASSUME Opens, NEW s \in Streams, NEW o, stream' = [stream EXCEPT ![s] = o],
         \A j \in Ids : node'[j].type = node[j].type
  PROVE  fileStream' = [fileStream EXCEPT ![s] =
           IF o # Closed /\ node'[o.node].type = "file" THEN [file |-> o.node, pos |-> o.pos]
           ELSE NoFile]
<1>1. stream'[s] = o /\ \A t \in Streams : t # s => stream'[t] = stream[t]
  BY DEF Opens
<1>2. \A t \in Streams : t # s =>
        ((stream'[t] # Closed /\ node'[stream'[t].node].type = "file") <=> OnFileNow(t))
  BY <1>1 DEF Opens, IsOpen, OnFileNow
<1>3. \A t \in Streams : t # s => fileStream'[t] = fileStream[t]
  BY <1>1, <1>2 DEF fileStream, OnFileNow
<1>4. fileStream'[s] = IF o # Closed /\ node'[o.node].type = "file"
                       THEN [file |-> o.node, pos |-> o.pos] ELSE NoFile
  BY <1>1 DEF fileStream
<1>5. DOMAIN fileStream = Streams /\ fileStream' = [t \in Streams |-> fileStream'[t]]
  BY DEF fileStream
<1>6. fileStream = [t \in Streams |-> fileStream[t]]
  BY DEF fileStream
<1> QED
  BY <1>3, <1>4, <1>5, <1>6

LEMMA SameFileStream ==
  ASSUME NEW s \in Streams, fileStream[s] = NoFile, fileStream' = [fileStream EXCEPT ![s] = NoFile]
  PROVE  UNCHANGED fileStream
<1>1. fileStream = [t \in Streams |-> fileStream[t]]
  BY DEF fileStream
<1> QED
  BY <1>1

LEMMA OpenStep ==
  ASSUME Sane, NEW s \in Streams, NEW path \in Paths, NEW mode, NEW fault,
         vfs_open(s, path, mode, fault)
  PROVE  FS!Next
<1>0. Nodes /\ Opens /\ stream[s] = Closed /\ Silent
  BY OpenIs DEF Sane
<1>1. CASE UNCHANGED <<node, stream>>
  BY <1>0, <1>1, OtherStep
<1>2. ASSUME UNCHANGED stream, NEW i \in Ids, node' = [node EXCEPT ![i].ref = node[i].ref]
      PROVE  FS!Next
  BY <1>0, <1>2, RefsAreNoData, OtherStep
<1>3. ASSUME NEW i \in Ids, node[i].type \in {"file", "device"},
             node' = [node EXCEPT ![i].ref = @ + 1],
             stream' = [stream EXCEPT ![s] = [node |-> i, pos |-> 0, mode |-> mode]]
      PROVE  FS!Next
  <2> DEFINE o == [node |-> i, pos |-> 0, mode |-> mode]
             n == node[i].ref + 1
  <2>1. node' = [node EXCEPT ![i].ref = n]
    BY <1>3
  <2> HIDE DEF n
  <2>2. \A j \in Ids : /\ node'[j].type = node[j].type /\ node'[j].size = node[j].size
                       /\ node'[j].content = node[j].content
    BY <1>0, <2>1, RefsAreNoData
  <2>3. UNCHANGED fileData
    BY <2>2, DataStays DEF fileData
  <2>4. o # Closed /\ o.node = i /\ o.pos = 0
    BY OpenIsNotClosed
  <2>5. stream' = [stream EXCEPT ![s] = o]
    BY <1>3
  <2> HIDE DEF o
  <2>6. fileStream' = [fileStream EXCEPT ![s] =
           IF o # Closed /\ node'[o.node].type = "file" THEN [file |-> o.node, pos |-> o.pos]
           ELSE NoFile]
    BY <1>0, <2>2, <2>5, OneStream
  <2>7. fileStream[s] = NoFile /\ s \notin FS!Open
    BY <1>0, StreamIs DEF OnFileNow
  <2>8. CASE node[i].type = "file"
    <3>1. fileStream' = [fileStream EXCEPT ![s] = [file |-> i, pos |-> 0]]
      BY <2>2, <2>4, <2>6, <2>8
    <3>2. fileData[i] # Absent
      BY <1>0, <2>8, DataIs
    <3>3. FS!OpenFile(s, i)
      BY <1>0, <2>3, <2>7, <3>1, <3>2 DEF FS!OpenFile, FS!Quiet, Silent, Absent
    <3> QED
      BY <3>3 DEF FS!Next
  <2>9. CASE node[i].type # "file"
    <3>1. fileStream' = [fileStream EXCEPT ![s] = NoFile]
      BY <2>2, <2>4, <2>6, <2>9
    <3>2. UNCHANGED fileStream
      BY <2>7, <3>1, SameFileStream
    <3> QED
      BY <1>0, <2>3, <3>2 DEF FS!Next, FS!Other, FS!Quiet, Silent
  <2> QED
    BY <2>8, <2>9
<1> QED
  BY <1>1, <1>2, <1>3, OpenIs

LEMMA CloseStep ==
  ASSUME Sane, NEW s \in Streams, NEW fails, vfs_close(s, fails)
  PROVE  FS!Next
<1>0. Nodes /\ Opens /\ Silent
  BY CloseIs DEF Sane
<1>1. CASE UNCHANGED <<node, stream>>
  BY <1>0, <1>1, OtherStep
<1>2. CASE /\ stream[s] # Closed /\ node' = [node EXCEPT ![stream[s].node].ref = @ - 1]
           /\ stream' = [stream EXCEPT ![s] = Closed]
  <2> DEFINE i == stream[s].node
             n == node[i].ref - 1
  <2>0. i \in Ids
    BY <1>0, <1>2 DEF Opens, IsOpen
  <2>1. node' = [node EXCEPT ![i].ref = n]
    BY <1>2
  <2> HIDE DEF n
  <2>2. \A j \in Ids : /\ node'[j].type = node[j].type /\ node'[j].size = node[j].size
                       /\ node'[j].content = node[j].content
    BY <1>0, <2>0, <2>1, RefsAreNoData
  <2>3. UNCHANGED fileData
    BY <2>2, DataStays DEF fileData
  <2>4. fileStream' = [fileStream EXCEPT ![s] =
           IF Closed # Closed /\ node'[Closed.node].type = "file"
           THEN [file |-> Closed.node, pos |-> Closed.pos] ELSE NoFile]
    BY <1>0, <1>2, <2>2, OneStream
  <2>5. fileStream' = [fileStream EXCEPT ![s] = NoFile]
    BY <2>4
  <2>6. CASE OnFileNow(s)
    <3>1. s \in FS!Open
      BY <1>0, <2>6, StreamIs
    <3> QED
      BY <1>0, <2>3, <2>5, <3>1 DEF FS!Next, FS!Close, FS!Quiet, Silent
  <2>7. CASE ~OnFileNow(s)
    <3>1. UNCHANGED fileStream
      BY <1>0, <2>5, <2>7, StreamIs, SameFileStream
    <3> QED
      BY <1>0, <2>3, <3>1 DEF FS!Next, FS!Other, FS!Quiet, Silent
  <2> QED
    BY <2>6, <2>7
<1> QED
  BY <1>1, <1>2, CloseIs

(* What a stream's position becomes, FileStore's position becomes. *)
LEMMA MoveIs ==
  ASSUME Sane, NEW s \in Streams, OnFileNow(s), IsOpen(stream[s]), NEW p,
         stream' = [stream EXCEPT ![s].pos = p],
         \A j \in Ids : node'[j].type = node[j].type
  PROVE  fileStream' = [fileStream EXCEPT ![s].pos = p]
<1>0. Opens
  BY DEF Sane
<1> DEFINE o == [stream[s] EXCEPT !.pos = p]
<1>1. stream' = [stream EXCEPT ![s] = o]
  BY <1>0 DEF Opens
<1>2. o # Closed /\ o.node = stream[s].node /\ o.pos = p
  <2>1. DOMAIN o = {"node", "pos", "mode"} /\ o.node = stream[s].node /\ o.pos = p
    BY DEF IsOpen
  <2> QED
    BY <2>1, OpenIsNotClosed
<1> HIDE DEF o
<1>3. fileStream' = [fileStream EXCEPT ![s] =
           IF o # Closed /\ node'[o.node].type = "file" THEN [file |-> o.node, pos |-> o.pos]
           ELSE NoFile]
  BY <1>0, <1>1, OneStream
<1>4. fileStream' = [fileStream EXCEPT ![s] = [file |-> stream[s].node, pos |-> p]]
  BY <1>2, <1>3 DEF OnFileNow, IsOpen
<1>5. fileStream[s] = [file |-> stream[s].node, pos |-> stream[s].pos]
  BY <1>0, StreamIs
<1>6. [fileStream[s] EXCEPT !.pos = p] = [file |-> stream[s].node, pos |-> p]
  BY <1>5
<1>7. [fileStream EXCEPT ![s].pos = p] = [fileStream EXCEPT ![s] = [fileStream[s] EXCEPT !.pos = p]]
  OBVIOUS
<1> QED
  BY <1>4, <1>6, <1>7

(* A stream on a lost file moves as it likes. *)
LEMMA LostMoves ==
  ASSUME Sane, NEW s \in Streams, OnFileNow(s), IsOpen(stream[s]),
         fileData[stream[s].node] = Lost, NEW p, stream' = [stream EXCEPT ![s].pos = p],
         \A j \in Ids : node'[j].type = node[j].type,
         \A j \in Ids : j # stream[s].node => FileData(j)' = FileData(j)
  PROVE  FS!Next
<1> DEFINE i == stream[s].node
<1>1. fileStream' = [fileStream EXCEPT ![s].pos = p]
  BY MoveIs
<1>2. \A t \in Streams : t # s => fileStream'[t] = fileStream[t]
  <2>1. DOMAIN fileStream = Streams
    BY DEF fileStream
  <2> QED
    BY <1>1, <2>1
<1>3. fileStream[s].file = i /\ i \in Ids
  BY StreamIs DEF Sane, IsOpen
<1>4. \A g \in Ids \ {i} : fileData'[g] = fileData[g]
  BY DEF fileData
<1>5. \A t \in Streams :
        t \notin FS!Open \/ fileStream[t].file # i => fileStream'[t] = fileStream[t]
  <2>1. s \in FS!Open
    BY StreamIs DEF Sane
  <2> QED
    BY <1>2, <1>3, <2>1
<1>6. FS!Whatever(i)
  BY <1>4, <1>5 DEF FS!Whatever, Lost
<1> QED
  BY <1>3, <1>6 DEF FS!Next

(* The same part of a sequence and of one of its beginnings *)
LEMMA SamePart ==
  ASSUME NEW S, NEW c \in Seq(S), NEW d \in Seq(S), Len(d) <= Len(c),
         \A k \in 1 .. Len(d) : d[k] = c[k], NEW a \in Nat, NEW n \in Nat, a + n <= Len(d)
  PROVE  SubSeq(c, a + 1, a + n) = SubSeq(d, a + 1, a + n)
<1> DEFINE m == a + 1
           e == a + n
<1>0. Len(c) \in Nat /\ Len(d) \in Nat
  OBVIOUS
<1>1. m \in Int /\ e \in Int
  OBVIOUS
<1>2. \A k \in m .. e : k \in 1 .. Len(d) /\ k \in 1 .. Len(c)
  BY <1>0
<1>3. \A k \in m .. e : c[k] \in S /\ d[k] \in S
  BY <1>2
<1>n. e - m + 1 = n /\ (IF m <= e THEN e - m + 1 ELSE 0) = n
  OBVIOUS
<1>k. \A k \in 1 .. n : m + k - 1 \in m .. e
  OBVIOUS
<1> HIDE DEF m, e
<1>4. /\ SubSeq(c, m, e) \in Seq(S) /\ Len(SubSeq(c, m, e)) = IF m <= e THEN e - m + 1 ELSE 0
      /\ \A k \in 1 .. e - m + 1 : SubSeq(c, m, e)[k] = c[m + k - 1]
  BY <1>1, <1>3, SubSeqProperties
<1>5. /\ SubSeq(d, m, e) \in Seq(S) /\ Len(SubSeq(d, m, e)) = IF m <= e THEN e - m + 1 ELSE 0
      /\ \A k \in 1 .. e - m + 1 : SubSeq(d, m, e)[k] = d[m + k - 1]
  BY <1>1, <1>3, SubSeqProperties
<1>6. Len(SubSeq(c, m, e)) = n /\ Len(SubSeq(d, m, e)) = n
  BY <1>4, <1>5, <1>n
<1>7. \A k \in 1 .. n : SubSeq(c, m, e)[k] = SubSeq(d, m, e)[k]
  <2> SUFFICES ASSUME NEW k \in 1 .. n PROVE SubSeq(c, m, e)[k] = SubSeq(d, m, e)[k]
    OBVIOUS
  <2>1. d[m + k - 1] = c[m + k - 1]
    BY <1>2, <1>k
  <2>2. k \in 1 .. e - m + 1
    BY <1>n
  <2> QED
    BY <1>4, <1>5, <2>1, <2>2
<1>8. SubSeq(c, m, e) = SubSeq(d, m, e)
  BY <1>4, <1>5, <1>6, <1>7, SeqEqual
<1> QED
  BY <1>8 DEF m, e

LEMMA ReadStep ==
  ASSUME Sane, NEW s \in Streams, NEW n \in 1 .. 2, vfs_file_read(s, n)
  PROVE  FS!Next
<1> DEFINE i == stream[s].node
           f == node[i]
           pos == stream[s].pos
<1>0. Nodes /\ Opens
  BY DEF Sane
<1>1. /\ OnFileNow(s) /\ IsOpen(stream[s]) /\ i \in Ids /\ f.type = "file" /\ ProperNode(f)
      /\ pos \in Nat /\ pos <= f.size /\ f.size \in Nat
  BY OnFileIs DEF vfs_file_read, OnFileNow
<1>2. CASE UNCHANGED <<node, stream>> /\ Silent
  BY <1>2, OtherStep
<1>3. ASSUME UNCHANGED node, NEW k \in 1 .. f.size - pos,
             out' = SubSeq(f.content, pos + 1, pos + k),
             stream' = [stream EXCEPT ![s].pos = @ + k]
      PROVE  FS!Next
  <2>1. \A j \in Ids : node'[j].type = node[j].type /\ FileData(j)' = FileData(j)
    BY <1>3 DEF FileData
  <2>2. stream' = [stream EXCEPT ![s].pos = pos + k]
    BY <1>3
  <2>3. fileData[i] = DataOf(f)
    BY <1>0, <1>1, DataIs
  <2>4. CASE Intact(f)
    <3>1. fileStream' = [fileStream EXCEPT ![s].pos = pos + k]
      BY <1>1, <2>1, <2>2, MoveIs
    <3>2. /\ s \in FS!Open /\ fileStream[s].file = i /\ fileStream[s].pos = pos
      BY <1>0, <1>1, StreamIs
    <3> DEFINE d == DataOf(f)
               c == f.content
    <3>3. /\ d \in Seq(Bytes) /\ Len(d) = f.size /\ d # Lost
          /\ \A l \in 1 .. f.size : d[l] = c[l]
      BY <1>1, <2>4, DataOfIs, BytesAreData
    <3>4. c \in Seq(Bytes \cup {JUNK}) /\ Len(c) >= f.size
      BY <1>1, <2>4 DEF ProperNode, Intact
    <3>5. FS!Here(s) = d
      BY <2>3, <3>2 DEF FS!Here
    <3>6. out' = SubSeq(c, pos + 1, pos + k)
      BY <1>3
    <3>7. pos + k <= Len(d) /\ k \in Nat /\ k \in 1 .. Len(d) - pos
      BY <1>1, <3>3
    <3>8. d \in Seq(Bytes \cup {JUNK}) /\ Len(d) <= Len(c) /\ \A l \in 1 .. Len(d) : d[l] = c[l]
      BY <1>1, <3>3, <3>4
    <3> HIDE DEF d, c, pos
    <3>9. out' = SubSeq(d, pos + 1, pos + k)
      BY <1>1, <3>4, <3>6, <3>7, <3>8, SamePart, ZenonT(30)
    <3>10. fileStream' = [fileStream EXCEPT ![s].pos = @ + k]
      BY <3>1, <3>2
    <3>11. UNCHANGED fileData
      BY <2>1 DEF fileData
    <3>12. FS!Read(s)
      BY <3>2, <3>3, <3>5, <3>7, <3>9, <3>10, <3>11 DEF FS!Read, Lost
    <3> QED
      BY <3>12 DEF FS!Next
  <2>5. CASE ~Intact(f)
    <3>1. fileData[i] = Lost
      BY <1>1, <2>3, <2>5, DataOfIs
    <3> QED
      BY <1>1, <2>1, <2>2, <3>1, LostMoves
  <2> QED
    BY <2>4, <2>5
<1> QED
  BY <1>2, <1>3, ReadIs

LEMMA SeekStep ==
  ASSUME Sane, NEW s \in Streams, NEW off \in -1 .. 1,
         NEW origin \in {"begin", "current", "end"}, vfs_file_seek(s, off, origin)
  PROVE  FS!Next
<1> DEFINE i == stream[s].node
           f == node[i]
<1>0. Nodes /\ Opens
  BY DEF Sane
<1>1. OnFileNow(s) /\ IsOpen(stream[s]) /\ i \in Ids /\ f.type = "file" /\ ProperNode(f)
  BY OnFileIs DEF vfs_file_seek, OnFileNow
<1>2. Silent /\ UNCHANGED node
  BY SeekIs
<1>3. CASE UNCHANGED stream
  BY <1>2, <1>3, OtherStep
<1>4. ASSUME NEW p \in 0 .. f.size, stream' = [stream EXCEPT ![s].pos = p] PROVE FS!Next
  <2>1. \A j \in Ids : node'[j].type = node[j].type /\ FileData(j)' = FileData(j)
    BY <1>2 DEF FileData
  <2>2. fileData[i] = DataOf(f)
    BY <1>0, <1>1, DataIs
  <2>3. CASE Intact(f)
    <3>1. fileStream' = [fileStream EXCEPT ![s].pos = p]
      BY <1>1, <1>4, <2>1, MoveIs, ZenonT(30)
    <3>2. s \in FS!Open /\ fileStream[s].file = i
      BY <1>0, <1>1, StreamIs
    <3>3. DataOf(f) \in Seq(Bytes) /\ Len(DataOf(f)) = f.size
      BY <1>1, <2>3, DataOfIs
    <3>4. FS!Here(s) = DataOf(f) /\ FS!Here(s) # Lost
      BY <2>2, <3>2, <3>3, BytesAreData DEF FS!Here
    <3>5. p \in 0 .. Len(FS!Here(s))
      BY <3>3, <3>4
    <3>6. UNCHANGED fileData
      BY <2>1 DEF fileData
    <3>7. FS!Seek(s)
      BY <1>2, <3>1, <3>2, <3>4, <3>5, <3>6 DEF FS!Seek, FS!Quiet, Silent, Lost
    <3> QED
      BY <3>7 DEF FS!Next
  <2>4. CASE ~Intact(f)
    <3>1. fileData[i] = Lost
      BY <1>1, <2>2, <2>4, DataOfIs
    <3> QED
      BY <1>1, <1>4, <2>1, <3>1, LostMoves
  <2> QED
    BY <2>3, <2>4
<1> QED
  BY <1>3, <1>4, SeekIs

(* What a write makes of the data of a file *)
LEMMA Overwrites ==
  ASSUME NEW f, ProperNode(f), f.type = "file", Intact(f), NEW block \in Seq(Bytes),
         NEW pos \in Nat, pos <= f.size, NEW r, ProperNode(r), r.type = "file",
         r.size = (IF pos + Len(block) > f.size THEN pos + Len(block) ELSE f.size),
         Len(r.content) >= r.size,
         \A k \in 1 .. Len(r.content) : r.content[k] = Covered(f, pos, block, k)
  PROVE  DataOf(r) = FS!Overwritten(DataOf(f), pos, block)
<1> DEFINE n == Len(block)
           d == DataOf(f)
           size == f.size
           end == r.size
           e == DataOf(r)
           w == FS!Overwritten(d, pos, block)
<1>0. /\ n \in Nat /\ size \in Nat /\ end \in Nat
      /\ Len(f.content) \in Nat /\ Len(r.content) \in Nat
      /\ end = (IF pos + n > size THEN pos + n ELSE size) /\ pos <= size
  BY DEF ProperNode
<1>1. /\ d \in Seq(Bytes) /\ Len(d) = size
      /\ \A k \in 1 .. size : d[k] = f.content[k] /\ f.content[k] \in Bytes
  BY DataOfIs
<1>2. Len(f.content) >= size
  BY DEF Intact
<1> DEFINE new(k) == IF k \in pos + 1 .. pos + n THEN block[k - pos] ELSE d[k]
<1>3. ASSUME NEW k \in 1 .. end PROVE r.content[k] = new(k) /\ new(k) \in Bytes
  <2>1. k \in 1 .. Len(r.content)
    BY <1>0
  <2>2. r.content[k] = Covered(f, pos, block, k)
    BY <2>1
  <2>3. CASE k \in pos + 1 .. pos + n
    <3>1. k - pos \in 1 .. Len(block)
      BY <1>0, <2>3
    <3>2. block[k - pos] \in Bytes
      BY <3>1, ElementOfSeq
    <3> QED
      BY <2>2, <2>3, <3>2 DEF Covered
  <2>4. CASE k \notin pos + 1 .. pos + n
    <3>1. k \in 1 .. size /\ k <= Len(f.content)
      BY <1>0, <1>2, <2>4
    <3>2. r.content[k] = f.content[k]
      BY <2>2, <2>4, <3>1 DEF Covered
    <3> QED
      BY <1>1, <2>4, <3>1, <3>2
  <2> QED
    BY <2>3, <2>4
<1>4. Intact(r)
  <2>1. \A k \in 1 .. end : r.content[k] # JUNK
    BY <1>3, VfsAssumption
  <2> QED
    BY <2>1 DEF Intact
<1>5. e \in Seq(Bytes) /\ Len(e) = end /\ \A k \in 1 .. end : e[k] = r.content[k]
  BY <1>4, DataOfIs
<1>6. w = [k \in 1 .. end |-> new(k)]
  <2>1. (IF pos + Len(block) > Len(d) THEN pos + Len(block) ELSE Len(d)) = end
    BY <1>0, <1>1
  <2> HIDE DEF d, end
  <2> QED
    BY <2>1 DEF FS!Overwritten
<1> HIDE DEF d, end, e, w
<1>7. w \in [1 .. end -> Bytes] /\ \A k \in 1 .. end : w[k] = new(k)
  <2>1. \A k \in 1 .. end : new(k) \in Bytes
    BY <1>3
  <2> HIDE DEF new
  <2> QED
    BY <1>6, <2>1
<1>8. w \in Seq(Bytes) /\ Len(w) = end
  <2> HIDE DEF new
  <2>1. w \in [1 .. end -> Bytes] /\ end \in Nat
    BY <1>0, <1>7
  <2> QED
    BY <2>1
<1>9. \A k \in 1 .. end : e[k] = w[k]
  <2> HIDE DEF new
  <2> QED
    BY <1>3, <1>5, <1>7
<1>10. e = w
  BY <1>5, <1>8, <1>9, SeqEqual
<1> QED
  BY <1>10 DEF e, w, d

LEMMA WriteStep ==
  ASSUME Sane, NEW s \in Streams, NEW block \in Blocks, NEW oom, vfs_file_write(s, block, oom)
  PROVE  FS!Next
<1>i. PICK i \in Ids : i = stream[s].node
  BY OnFileIs DEF vfs_file_write
<1> DEFINE f == node[i]
           pos == stream[s].pos
           need == pos + Len(block)
<1>0. Nodes /\ Opens /\ DOMAIN node = Ids
  BY DEF Sane, Nodes
<1>1. /\ OnFileNow(s) /\ IsOpen(stream[s]) /\ i \in Ids /\ f.type = "file" /\ ProperNode(f)
      /\ pos \in Nat /\ pos <= f.size /\ f.size \in Nat /\ Len(f.content) \in Nat
  <2>1. /\ OnFileNow(s) /\ IsOpen(stream[s]) /\ f.type = "file" /\ ProperNode(f)
        /\ pos \in Nat /\ pos <= f.size /\ f.size \in Nat
    BY <1>i, OnFileIs DEF vfs_file_write, OnFileNow
  <2> QED
    BY <2>1 DEF ProperNode
<1>2. block \in Seq(Bytes) /\ Len(block) \in Nat
  BY VfsAssumption
<1>3. Silent
  BY WriteIs
<1>4. s \in FS!Open /\ fileStream[s].file = i /\ fileStream[s].pos = pos
  BY <1>0, <1>1, <1>i, StreamIs
<1>5. fileData[i] = DataOf(f)
  BY <1>0, <1>1, DataIs
<1>6. CASE UNCHANGED <<node, stream>>
  BY <1>3, <1>6, OtherStep
<1>7. CASE UNCHANGED stream /\ node' = [node EXCEPT ![i].content = <<>>]
  <2> DEFINE r == [f EXCEPT !.content = <<>>]
  <2>1. r.type = f.type /\ r.size = f.size /\ r.content = <<>>
    BY <1>1 DEF ProperNode, Fields
  <2>2. node'[i] = r /\ \A j \in Ids : j # i => node'[j] = node[j]
    BY <1>0, <1>1, <1>7
  <2> HIDE DEF r
  <2>3. \A j \in Ids : node'[j].type = node[j].type
    BY <2>1, <2>2
  <2>4. UNCHANGED fileStream
    BY <1>0, <1>7, <2>3, StreamsStay
  <2>5. \A j \in Ids : j # i => FileData(j)' = FileData(j)
    BY <2>2, DataStays
  <2>6. FileData(i)' = DataOf(r)
    BY <2>2 DEF FileData, DataOf, Absent, Lost
  <2>7. Len(r.content) = 0
    BY <2>1, EmptySeq
  <2>8. CASE f.size = 0
    <3>1. DataOf(r) = <<>>
      <4>1. ~(Len(r.content) < r.size \/ \E k \in 1 .. r.size : r.content[k] = JUNK)
        BY <2>1, <2>7, <2>8
      <4>2. DataOf(r) = SubSeq(r.content, 1, 0)
        BY <1>1, <2>1, <2>8, <4>1 DEF DataOf
      <4> QED
        BY <4>2, SubSeqEmpty
    <3>2. DataOf(f) = <<>>
      <4>1. ~(Len(f.content) < f.size \/ \E k \in 1 .. f.size : f.content[k] = JUNK)
        BY <1>1, <2>8
      <4>2. DataOf(f) = SubSeq(f.content, 1, 0)
        BY <1>1, <2>8, <4>1 DEF DataOf
      <4> QED
        BY <4>2, SubSeqEmpty
    <3>3. \A j \in Ids : FileData(j)' = FileData(j)
      BY <1>5, <2>5, <2>6, <3>1, <3>2 DEF fileData
    <3>4. UNCHANGED fileData
      BY <3>3 DEF fileData
    <3> QED
      BY <1>3, <2>4, <3>4 DEF FS!Next, FS!Other, FS!Quiet, Silent
  <2>9. CASE f.size # 0
    <3>1. DataOf(r) = Lost
      BY <1>1, <2>1, <2>7, <2>9 DEF DataOf
    <3>2. fileData' = [fileData EXCEPT ![i] = Lost]
      BY <1>1, <2>5, <2>6, <3>1 DEF fileData
    <3>3. FS!Lose(s)
      BY <1>3, <1>4, <2>4, <3>2 DEF FS!Lose, FS!Quiet, Silent, Lost
    <3> QED
      BY <3>3 DEF FS!Next
  <2> QED
    BY <2>8, <2>9
<1>8. CASE /\ (f.content = <<>> /\ f.cap > 0 => need > f.cap)
           /\ node' = [node EXCEPT ![i] = Put(Buffer(f, need, Len(block)), pos, block)]
           /\ stream' = [stream EXCEPT ![s].pos = need]
  <2> DEFINE r == Put(Buffer(f, need, Len(block)), pos, block)
  <2>1. /\ ProperNode(r) /\ r.type = f.type
        /\ r.size = (IF need > f.size THEN need ELSE f.size) /\ Len(r.content) >= r.size
        /\ \A k \in 1 .. Len(r.content) : r.content[k] = Covered(f, pos, block, k)
    <3> DEFINE g == f
               x == pos
    <3>1. /\ ProperNode(g) /\ g.type = "file" /\ x \in Nat /\ x <= g.size
          /\ (g.content = <<>> /\ g.cap > 0 => x + Len(block) > g.cap)
      BY <1>1, <1>8
    <3> HIDE DEF g, x
    <3>2. LET b == Put(Buffer(g, x + Len(block), Len(block)), x, block) IN
          /\ ProperNode(b) /\ b.type = g.type
          /\ b.size = (IF x + Len(block) > g.size THEN x + Len(block) ELSE g.size)
          /\ Len(b.content) >= b.size
          /\ \A k \in 1 .. Len(b.content) : b.content[k] = Covered(g, x, block, k)
      BY <1>2, <3>1, PutIs
    <3> QED
      BY <3>2 DEF g, x
  <2>2. node'[i] = r /\ \A j \in Ids : j # i => node'[j] = node[j]
    BY <1>0, <1>1, <1>8
  <2> HIDE DEF r
  <2>3. \A j \in Ids : node'[j].type = node[j].type
    BY <2>1, <2>2
  <2>4. \A j \in Ids : j # i => FileData(j)' = FileData(j)
    BY <2>2, DataStays
  <2>5. FileData(i)' = DataOf(r)
    BY <2>2 DEF FileData, DataOf, Absent, Lost
  <2>6. stream' = [stream EXCEPT ![s].pos = need]
    BY <1>8
  <2>7. CASE Intact(f)
    <3>1. fileStream' = [fileStream EXCEPT ![s].pos = need]
      BY <1>1, <2>3, <2>6, MoveIs
    <3>2. DataOf(r) = FS!Overwritten(DataOf(f), pos, block)
      <4> HIDE DEF f, pos
      <4> QED
        BY <1>1, <1>2, <2>1, <2>7, Overwrites
    <3>3. fileData' = [fileData EXCEPT ![i] = FS!Overwritten(@, pos, block)]
      BY <1>1, <1>5, <2>4, <2>5, <3>2 DEF fileData
    <3>4. DataOf(f) # Lost
      BY <1>1, <2>7, DataOfIs, BytesAreData
    <3>5. FS!Here(s) # Lost
      BY <1>4, <1>5, <3>4 DEF FS!Here
    <3>6. fileStream' = [fileStream EXCEPT ![s].pos = @ + Len(block)]
      BY <1>4, <3>1
    <3>7. FS!Write(s, block)
      BY <1>3, <1>4, <3>3, <3>5, <3>6 DEF FS!Write, FS!Quiet, Silent, Lost
    <3> QED
      BY <3>7 DEF FS!Next
  <2>8. CASE ~Intact(f)
    <3>1. fileData[i] = Lost
      BY <1>1, <1>5, <2>8, DataOfIs
    <3> QED
      BY <1>1, <1>i, <2>3, <2>4, <2>6, <3>1, LostMoves
  <2> QED
    BY <2>7, <2>8
<1> QED
  BY <1>6, <1>7, <1>8, <1>i, WriteIs

(* Files are sequences of bytes with a position per stream: a read returns  *)
(* what was last written there, on whatever stream, and nothing else, until *)
(* memory runs out while the file grows.                                    *)
THEOREM FilesAreBytes == Spec => FilesKeepData
<1>1. Init => FS!Init
  BY FilesInit
<1>2. Sane /\ [Next]_vars => [FS!Next]_FS!vars
  <2> SUFFICES ASSUME Sane, [Next]_vars PROVE [FS!Next]_FS!vars
    OBVIOUS
  <2>1. CASE \E path \in Paths, rwe, fails \in BOOLEAN :
               vfs_mkdir(path, rwe, fails) \/ vfs_create(path, rwe, fails)
    BY <2>1, MkdirStep, AddAtStep DEF vfs_create
  <2>2. CASE \E path \in Paths, fails \in BOOLEAN :
               vfs_mount_device(path, fails) \/ vfs_mount_fs(path, fails)
    BY <2>2, AddAtStep DEF vfs_mount_device, vfs_mount_fs
  <2>3. CASE \E path \in Paths : vfs_unmount_device(path) \/ vfs_unmount_fs(path)
    BY <2>3, UnmountStep
  <2>4. CASE \E path \in Paths : \E s \in Streams, mode \in Modes, fault \in Faults :
               vfs_open(s, path, mode, fault)
    BY <2>4, OpenStep
  <2>5. CASE \E s \in Streams, fails \in BOOLEAN : vfs_close(s, fails)
    BY <2>5, CloseStep
  <2>6. CASE \E s \in Streams : \E n \in 1 .. 2 : vfs_file_read(s, n)
    BY <2>6, ReadStep
  <2>7. CASE \E s \in Streams : \E block \in Blocks, oom \in BOOLEAN : vfs_file_write(s, block, oom)
    BY <2>7, WriteStep
  <2>8. CASE \E s \in Streams : \E off \in -1 .. 1, origin \in {"begin", "current", "end"} :
               vfs_file_seek(s, off, origin)
    BY <2>8, SeekStep
  <2>9. CASE UNCHANGED vars
    <3>1. UNCHANGED fileStream /\ UNCHANGED fileData /\ UNCHANGED out
      BY <2>9 DEF vars, fileStream, fileData, FileData
    <3> QED
      BY <3>1 DEF FS!vars
  <2> QED
    BY <2>1, <2>2, <2>3, <2>4, <2>5, <2>6, <2>7, <2>8, <2>9 DEF Next
<1> QED
  BY <1>1, <1>2, AlwaysSane, PTL DEF Spec, FilesKeepData, FS!Spec

-----------------------------------------------------------------------------
(* Ancestors and paths.  Both recursive functions follow parents, which     *)
(* come before their children.                                              *)
LEMMA ParentsFirst ==
  ASSUME Nodes, Tree, NEW j \in Ids
  PROVE  node[j].parent \in 0 .. MaxNodes /\ node[j].parent < j
<1>1. CASE ~Used(j)
  <2>1. node[j].parent = 0
    BY <1>1, UnusedIs DEF Nodes, ProperNode, Used
  <2> QED
    BY <2>1, Numbers
<1>2. CASE j = 1
  BY <1>2, Numbers DEF Tree
<1>3. CASE Used(j) /\ j # 1
  BY <1>3, Numbers DEF Tree
<1> QED
  BY <1>1, <1>2, <1>3

Above(u, j) == IF j = 0 THEN {} ELSE {j} \cup u[node[j].parent]

LEMMA AncestorsAre ==
  ASSUME Nodes, Tree
  PROVE  \E u : /\ \A j \in 0 .. MaxNodes : u[j] = Above(u, j)
                /\ \A i \in Ids : Ancestors(i) = u[node[i].parent]
<1> USE Numbers
<1> DEFINE F(u) == [j \in 0 .. MaxNodes |-> Above(u, j)]
           Upto(m, u) == DOMAIN u = 0 .. MaxNodes /\ u = [j \in 0 .. MaxNodes |-> u[j]]
                           /\ \A j \in 0 .. m : u[j] = Above(u, j)
           Bad == {m \in 0 .. MaxNodes : \A u : ~Upto(m, u)}
           up == CHOOSE u : u = F(u)
<1>1. Bad = {}
  <2> SUFFICES ASSUME Bad # {} PROVE FALSE
    OBVIOUS
  <2>1. PICK m \in Bad : \A n \in Bad : m <= n
    <3>1. Bad \in SUBSET Nat
      OBVIOUS
    <3> HIDE DEF Bad
    <3> QED
      BY <3>1, LeastExists
  <2>2. m \in 0 .. MaxNodes /\ \A u : ~Upto(m, u)
    BY <2>1
  <2>3. CASE m = 0
    <3> DEFINE u == [j \in 0 .. MaxNodes |-> {}]
    <3>1. \A j \in 0 .. 0 : u[j] = Above(u, j)
      BY DEF Above
    <3>2. u = [j \in 0 .. MaxNodes |-> u[j]] /\ DOMAIN u = 0 .. MaxNodes
      OBVIOUS
    <3> HIDE DEF u
    <3>3. Upto(0, u)
      BY <3>1, <3>2
    <3> QED
      BY <2>2, <2>3, <3>3
  <2>4. CASE m # 0
    <3>1. m - 1 \in 0 .. MaxNodes /\ ~(m <= m - 1) /\ m \in Ids
      BY <2>2, <2>4
    <3>2. m - 1 \notin Bad
      BY <2>1, <3>1
    <3>3. PICK w : Upto(m - 1, w)
      BY <3>1, <3>2
    <3> DEFINE u == [j \in 0 .. MaxNodes |-> IF j = m THEN Above(w, m) ELSE w[j]]
    <3>4. \A j \in 0 .. MaxNodes : j # m => u[j] = w[j]
      OBVIOUS
    <3>5. u = [j \in 0 .. MaxNodes |-> u[j]] /\ DOMAIN u = 0 .. MaxNodes /\ u[m] = Above(w, m)
      BY <2>2
    <3> HIDE DEF u
    <3>6. ASSUME NEW j \in 0 .. m PROVE u[j] = Above(u, j)
      <4>1. j \in 0 .. MaxNodes /\ (j # 0 => j \in Ids)
        BY <2>2
      <4>2. Above(u, j) = Above(w, j)
        <5>1. CASE j = 0
          BY <5>1 DEF Above
        <5>2. CASE j # 0
          <6>1. node[j].parent \in 0 .. MaxNodes /\ node[j].parent < j
            BY <4>1, <5>2, ParentsFirst
          <6>2. node[j].parent # m
            BY <2>2, <6>1
          <6> QED
            BY <3>4, <6>1, <6>2 DEF Above
        <5> QED
          BY <5>1, <5>2
      <4>3. CASE j = m
        BY <3>5, <4>2, <4>3
      <4>4. CASE j # m
        <5>1. j \in 0 .. m - 1
          BY <2>2, <4>4
        <5> QED
          BY <3>3, <3>4, <4>1, <4>2, <4>4, <5>1
      <4> QED
        BY <4>3, <4>4
    <3>7. Upto(m, u)
      BY <3>5, <3>6
    <3> QED
      BY <2>2, <3>7
  <2> QED
    BY <2>3, <2>4
<1>2. PICK u : Upto(MaxNodes, u)
  <2>1. MaxNodes \in 0 .. MaxNodes
    OBVIOUS
  <2> QED
    BY <1>1, <2>1
<1>3. u = F(u)
  BY <1>2
<1> HIDE DEF F
<1>4. up = F(up)
  BY <1>3, Zenon
<1>5. \A i \in Ids : Ancestors(i) = up[node[i].parent]
  BY DEF Ancestors, up, F, Above
<1> HIDE DEF up
<1>6. \A j \in 0 .. MaxNodes : up[j] = Above(up, j)
  BY <1>4 DEF F
<1> QED
  BY <1>5, <1>6

Named(u, j) ==
  IF node[j].parent = 0 THEN <<>> ELSE Append(u[node[j].parent], node[j].name)

LEMMA PathsAre ==
  ASSUME Nodes, Tree
  PROVE  \E u : /\ \A j \in Ids : u[j] = Named(u, j)
                /\ \A i \in Ids : PathOf(i) = u[i]
<1> USE Numbers
<1> DEFINE F(u) == [j \in Ids |-> Named(u, j)]
           Upto(m, u) == DOMAIN u = Ids /\ u = [j \in Ids |-> u[j]]
                           /\ \A j \in Ids : j <= m => u[j] = Named(u, j)
           Bad == {m \in 0 .. MaxNodes : \A u : ~Upto(m, u)}
           up == CHOOSE u : u = F(u)
<1>1. Bad = {}
  <2> SUFFICES ASSUME Bad # {} PROVE FALSE
    OBVIOUS
  <2>1. PICK m \in Bad : \A n \in Bad : m <= n
    <3>1. Bad \in SUBSET Nat
      OBVIOUS
    <3> HIDE DEF Bad
    <3> QED
      BY <3>1, LeastExists
  <2>2. m \in 0 .. MaxNodes /\ \A u : ~Upto(m, u)
    BY <2>1
  <2>3. CASE m = 0
    <3> DEFINE u == [j \in Ids |-> {}]
    <3>1. \A j \in Ids : ~(j <= 0)
      BY DEF Ids
    <3>2. u = [j \in Ids |-> u[j]] /\ DOMAIN u = Ids
      OBVIOUS
    <3> HIDE DEF u
    <3>3. Upto(0, u)
      BY <3>1, <3>2
    <3> QED
      BY <2>2, <2>3, <3>3
  <2>4. CASE m # 0
    <3>1. m - 1 \in 0 .. MaxNodes /\ ~(m <= m - 1) /\ m \in Ids
      BY <2>2, <2>4
    <3>2. m - 1 \notin Bad
      BY <2>1, <3>1
    <3>3. PICK w : Upto(m - 1, w)
      BY <3>1, <3>2
    <3> DEFINE u == [j \in Ids |-> IF j = m THEN Named(w, m) ELSE w[j]]
    <3>4. \A j \in Ids : j # m => u[j] = w[j]
      OBVIOUS
    <3>5. u = [j \in Ids |-> u[j]] /\ DOMAIN u = Ids /\ u[m] = Named(w, m)
      BY <3>1
    <3> HIDE DEF u
    <3>6. ASSUME NEW j \in Ids, j <= m PROVE u[j] = Named(u, j)
      <4>1. node[j].parent \in 0 .. MaxNodes /\ node[j].parent < j /\ node[j].parent # m
        BY <3>6, ParentsFirst
      <4>2. Named(u, j) = Named(w, j)
        BY <3>4, <4>1 DEF Named
      <4>3. CASE j = m
        BY <3>5, <4>2, <4>3
      <4>4. CASE j # m
        <5>1. j <= m - 1
          BY <2>2, <3>6, <4>4
        <5> QED
          BY <3>3, <3>4, <4>2, <4>4, <5>1
      <4> QED
        BY <4>3, <4>4
    <3>7. Upto(m, u)
      BY <3>5, <3>6
    <3> QED
      BY <2>2, <3>7
  <2> QED
    BY <2>3, <2>4
<1>2. PICK u : Upto(MaxNodes, u)
  <2>1. MaxNodes \in 0 .. MaxNodes
    OBVIOUS
  <2> QED
    BY <1>1, <2>1
<1>3. u = F(u)
  <2>1. \A j \in Ids : j <= MaxNodes
    BY DEF Ids
  <2> QED
    BY <1>2, <2>1
<1> HIDE DEF F
<1>4. up = F(up)
  BY <1>3, Zenon
<1>5. \A i \in Ids : PathOf(i) = up[i]
  BY DEF PathOf, up, F, Named
<1> HIDE DEF up
<1>6. \A j \in Ids : up[j] = Named(up, j)
  BY <1>4 DEF F
<1> QED
  BY <1>5, <1>6

(* No node has a mount point further up than its parent. *)
LEMMA MountsAreNear ==
  ASSUME Nodes, Tree, NEW i \in Ids, Used(i)
  PROVE  (\E a \in Ancestors(i) : node[a].type = "mount")
           <=> i # 1 /\ node[node[i].parent].type = "mount"
<1> USE Numbers
<1>1. PICK u : /\ \A j \in 0 .. MaxNodes : u[j] = Above(u, j)
               /\ \A j \in Ids : Ancestors(j) = u[node[j].parent]
  BY AncestorsAre
<1>2. u[0] = {} /\ \A j \in Ids : u[j] = {j} \cup u[node[j].parent]
  <2>1. 0 \in 0 .. MaxNodes /\ \A j \in Ids : j \in 0 .. MaxNodes /\ j # 0
    OBVIOUS
  <2>2. Above(u, 0) = {} /\ \A j \in Ids : Above(u, j) = {j} \cup u[node[j].parent]
    BY <2>1 DEF Above
  <2> QED
    BY <1>1, <2>1, <2>2
<1> DEFINE Clear(j) == \A a \in u[node[j].parent] : node[a].type # "mount"
           Bad == {j \in Ids : Used(j) /\ Outside(j) /\ ~Clear(j)}
<1>3. ASSUME NEW j \in Ids, Used(j), j # 1
      PROVE  LET p == node[j].parent IN p \in Ids /\ ~(j <= p) /\ Used(p) /\ Outside(p)
  <2> DEFINE p == node[j].parent
  <2>1. p \in Ids /\ p < j
    BY <1>3 DEF Tree
  <2>a. ~(j <= p)
    <3> HIDE DEF p
    <3> QED
      BY <2>1
  <2>2. Used(p)
    BY <1>3, <2>1 DEF Tree
  <2>3. p # 1 => node[p].parent \in Ids
    BY <2>1, <2>2 DEF Tree
  <2>4. p # 1 => node[node[p].parent].type # "mount"
    BY <1>3, <2>1, <2>2, <2>3 DEF Tree
  <2> QED
    BY <2>1, <2>a, <2>2, <2>4 DEF Outside
<1>4. Bad = {}
  <2> SUFFICES ASSUME Bad # {} PROVE FALSE
    OBVIOUS
  <2>1. PICK j \in Bad : \A k \in Bad : j <= k
    <3>1. Bad \in SUBSET Nat
      OBVIOUS
    <3> HIDE DEF Bad
    <3> QED
      BY <3>1, LeastExists
  <2>2. j \in Ids /\ Used(j) /\ Outside(j) /\ ~Clear(j)
    BY <2>1
  <2>3. j # 1
    BY <1>2, <2>2 DEF Tree
  <2> DEFINE p == node[j].parent
  <2>4. p \in Ids /\ ~(j <= p) /\ Used(p) /\ Outside(p)
    BY <1>3, <2>2, <2>3
  <2>5. Clear(p)
    <3> HIDE DEF Clear, p
    <3>1. p \notin Bad
      <4> HIDE DEF Bad
      <4> QED
        BY <2>1, <2>4
    <3> QED
      BY <2>4, <3>1
  <2>6. node[p].type # "mount"
    BY <2>2, <2>3 DEF Outside
  <2>7. u[p] = {p} \cup u[node[p].parent]
    BY <1>2, <2>4
  <2> QED
    BY <2>2, <2>5, <2>6, <2>7
<1>5. CASE i = 1
  BY <1>1, <1>2, <1>5 DEF Tree
<1>6. CASE i # 1
  <2> DEFINE p == node[i].parent
  <2>1. p \in Ids /\ Used(p) /\ Outside(p)
    BY <1>3, <1>6
  <2>2. Ancestors(i) = {p} \cup u[node[p].parent]
    BY <1>1, <1>2, <2>1
  <2>3. Clear(p)
    <3> HIDE DEF Clear, p
    <3> QED
      BY <1>4, <2>1
  <2> QED
    BY <1>6, <2>2, <2>3
<1> QED
  BY <1>5, <1>6

(* The walk over its path finds a node that no mount point hides. *)
LEMMA OutsideIsFound ==
  ASSUME Nodes, Tree, NEW i \in Ids, Used(i), Outside(i)
  PROVE  Walked(PathOf(i)) = FoundAt(i)
<1> USE Numbers
<1>1. PICK u : /\ \A j \in Ids : u[j] = Named(u, j)
               /\ \A j \in Ids : PathOf(j) = u[j]
  BY PathsAre
<1> DEFINE Good(j) == u[j] \in Seq(STRING) /\ Walked(u[j]) = FoundAt(j)
           Bad == {j \in Ids : Used(j) /\ Outside(j) /\ ~Good(j)}
<1>2. Good(1)
  <2>1. u[1] = <<>>
    BY <1>1 DEF Named, Tree
  <2>2. <<>> \in Seq(STRING)
    BY EmptySeq
  <2> QED
    BY <2>1, <2>2, RootIsFound
<1>3. Bad = {}
  <2> SUFFICES ASSUME Bad # {} PROVE FALSE
    OBVIOUS
  <2> HIDE DEF Good
  <2>1. PICK j \in Bad : \A k \in Bad : j <= k
    <3>1. Bad \in SUBSET Nat
      OBVIOUS
    <3> HIDE DEF Bad
    <3> QED
      BY <3>1, LeastExists
  <2>2. j \in Ids /\ Used(j) /\ Outside(j) /\ ~Good(j) /\ j # 1
    BY <1>2, <2>1
  <2> DEFINE p == node[j].parent
             x == node[j].name
  <2>3. p \in Ids /\ p < j /\ x \in STRING
    BY <2>2 DEF Tree
  <2>4. Used(p)
    BY <2>2, <2>3 DEF Tree
  <2>5. Outside(p)
    <3>1. p # 1 => node[p].parent \in Ids
      BY <2>3, <2>4 DEF Tree
    <3>2. p # 1 => node[node[p].parent].type # "mount"
      BY <2>2, <2>3, <2>4, <3>1 DEF Tree
    <3> QED
      BY <3>2 DEF Outside
  <2>6. p \notin Bad
    BY <2>1, <2>2, <2>3
  <2>7. Good(p)
    BY <2>3, <2>4, <2>5, <2>6
  <2>8. node[p].type # "mount" /\ j \in Child(p, x)
    BY <2>2 DEF Outside, Child, Children, Used
  <2>9. u[j] = Append(u[p], x)
    BY <1>1, <2>2, <2>3 DEF Named
  <2> DEFINE q == u[p]
  <2>10. q \in Seq(STRING) /\ Walked(q) = FoundAt(p)
    BY <2>7 DEF Good
  <2> HIDE DEF q, p, x
  <2>11. Walked(Append(q, x)) = FoundAt(j)
    BY <2>3, <2>8, <2>10, LongerPath
  <2>12. Append(q, x) \in Seq(STRING)
    BY <2>3, <2>10, AppendIs
  <2> QED
    BY <2>2, <2>9, <2>11, <2>12 DEF Good, q
<1>4. Good(i)
  <2> HIDE DEF Good
  <2> QED
    BY <1>3
<1> QED
  BY <1>1, <1>4

(* Whatever is made, mounted and unmounted: a path leads to the node made   *)
(* for it and to no other, but for the directories that mkdir puts below a  *)
(* mount point and for a child of the root without a name, which has the    *)
(* root's path.                                                             *)
THEOREM NodesAreFound == Spec => []PathsResolve
<1>1. Sane => PathsResolve
  <2> SUFFICES ASSUME Sane, NEW i \in Ids, node[i].type # "none"
               PROVE  IF \E a \in Ancestors(i) : node[a].type = "mount"
                      THEN node[i].type = "dir"
                      ELSE vfs_parse_url(PathOf(i)) =
                             FoundAt(IF PathOf(i) = <<"">> THEN 1 ELSE i)
    BY DEF PathsResolve, FoundAt
  <2>0. Nodes /\ Tree /\ Used(i)
    BY DEF Sane, Used
  <2>1. CASE i # 1 /\ node[node[i].parent].type = "mount"
    <3>1. node[i].type = "dir"
      BY <2>0, <2>1 DEF Tree
    <3> QED
      BY <2>0, <2>1, <3>1, MountsAreNear
  <2>2. CASE ~(i # 1 /\ node[node[i].parent].type = "mount")
    <3>1. Outside(i) /\ ~ \E a \in Ancestors(i) : node[a].type = "mount"
      BY <2>0, <2>2, MountsAreNear DEF Outside
    <3>2. CASE PathOf(i) = <<"">>
      <4>1. Names(PathOf(i)) = <<>>
        BY <3>2 DEF Names
      <4>2. vfs_parse_url(PathOf(i)) = Walked(<<>>)
        BY <4>1 DEF vfs_parse_url
      <4> QED
        BY <2>0, <3>1, <3>2, <4>2, RootIsFound
    <3>3. CASE PathOf(i) # <<"">>
      <4>1. vfs_parse_url(PathOf(i)) = Walked(PathOf(i))
        BY <3>3 DEF vfs_parse_url, Names
      <4> QED
        BY <2>0, <3>1, <3>3, <4>1, OutsideIsFound
    <3> QED
      BY <3>2, <3>3
  <2> QED
    BY <2>1, <2>2
<1> QED
  BY <1>1, AlwaysSane, PTL
=============================================================================
