-------------------------------- MODULE Malloc --------------------------------
(***************************************************************************)
(* The kernel's malloc (libc/stdlib_memory.c).  A heap is a sequence of    *)
(* blocks, each behind a control block; a control block that a merge has   *)
(* swallowed counts as overwritten.  All calls run under ctx->lock, and a  *)
(* contended mutex stops the machine (Mutex), so malloc and free are one   *)
(* step each; realloc is a malloc and a free, and other calls may come     *)
(* between them.                                                           *)
(***************************************************************************)
EXTENDS Integers, FiniteSets, Functions

CONSTANTS
  MAX_HEAPS,
  HeapBytes,    \* DEFAULT_HEAP_SIZE
  HDR,          \* sizeof(MM_CONTROL_BLOCK)
  MaxSize,      \* largest request (bounds the model)
  MaxMoving,    \* reallocations at a time (bounds the model)
  Data          \* contents of blocks

ASSUME MallocAssumption ==
  /\ MAX_HEAPS \in Nat \ {0} /\ MaxSize \in Nat
  /\ HeapBytes \in Nat /\ HDR \in Nat \ {0} /\ HeapBytes > HDR

HeapIds == 0 .. MAX_HEAPS - 1

NULL == -1

VARIABLES
  heap_count,
  heap,     \* heap[h]: the control block at each address: [size, free]
  blocks,   \* what the callers own, as Allocator has it
  moving,   \* reallocations under way: [old, new], new is {} if there was no room
  answer    \* what the last call returned: "null", "block", "freed", "refused"

vars == <<heap_count, heap, blocks, moving, answer>>

Init ==
  /\ heap_count = 0 /\ heap = [h \in HeapIds |-> <<>>]
  /\ blocks = {} /\ moving = {} /\ answer = "null"

-----------------------------------------------------------------------------
(* Behind the block at a. *)
Behind(hp, a) == a + HDR + hp[a].size

Fits(b, n) == b.free /\ b.size >= n + HDR

(* The walk of mm_allocate_block_from_heap; a missing magic ends it. *)
FindBlock(hp, n) ==
  LET walk[a \in 0 .. 2 * HeapBytes] ==
        IF a = HeapBytes \/ a \notin DOMAIN hp THEN NULL
        ELSE IF Fits(hp[a], n) THEN a ELSE walk[Behind(hp, a)]
  IN walk[0]

(* Mutant: the second part keeps the bytes of its control block. *)
Split_no_header(hp, a, n) ==
  LET rest == [size |-> hp[a].size - n, free |-> TRUE]
  IN [x \in DOMAIN hp \cup {a + HDR + n} |->
        CASE x = a -> [size |-> n, free |-> FALSE] [] x = a + HDR + n -> rest [] OTHER -> hp[x]]

(* A fitting block is never equal to the request: it is always split, and   *)
(* the second part may be empty.                                            *)
Split(hp, a, n) ==
  LET rest == [size |-> hp[a].size - n - HDR, free |-> TRUE]
  IN [x \in DOMAIN hp \cup {a + HDR + n} |->
        CASE x = a -> [size |-> n, free |-> FALSE] [] x = a + HDR + n -> rest [] OTHER -> hp[x]]

(* Mutant: swallows the next block without a look at it. *)
MergeEnd_any(hp, a) ==
  LET b == Behind(hp, a) IN IF b \in DOMAIN hp THEN Behind(hp, b) ELSE b

(* The first address behind the free blocks that follow a. *)
MergeEnd(hp, a) ==
  LET from[x \in 0 .. 2 * HeapBytes] ==
        IF x = HeapBytes \/ x \notin DOMAIN hp THEN x
        ELSE IF hp[x].free THEN from[Behind(hp, x)] ELSE x
  IN from[Behind(hp, a)]

(* A block that does not end at a control block or the end of the heap is  *)
(* left allocated.                                                         *)
Release(hp, a) ==
  LET e == MergeEnd(hp, a)
  IN IF e # HeapBytes /\ e \notin DOMAIN hp THEN hp
     ELSE [x \in {y \in DOMAIN hp : y <= a \/ y >= e} |->
             IF x = a THEN [size |-> e - a - HDR, free |-> TRUE] ELSE hp[x]]

(* mm_create_heap *)
Fresh == [a \in {0} |-> [size |-> HeapBytes - HDR, free |-> TRUE]]

-----------------------------------------------------------------------------
(* The state after a search of all heaps and, if they have no room and the  *)
(* virtual memory manager gives one, of a new heap.  at is NULL on failure. *)
Try(h, n, hs, count) ==
  LET a == FindBlock(hs[h], n)
  IN [h |-> h, at |-> a, count |-> count,
      heap |-> IF a = NULL THEN hs ELSE [hs EXCEPT ![h] = Split(@, a, n)]]

(* Mutant: looks at the newest heap only. *)
Searched_newest == {heap_count - 1} \cap HeapIds

Searched == 0 .. heap_count - 1

Malloc(n, granted) ==
  LET fit == {h \in Searched : FindBlock(heap[h], n) # NULL}
  IN IF fit # {} THEN Try(CHOOSE h \in fit : \A g \in fit : h <= g, n, heap, heap_count)
     ELSE IF heap_count < MAX_HEAPS - 1 /\ granted
     THEN Try(heap_count, n, [heap EXCEPT ![heap_count] = Fresh], heap_count + 1)
     ELSE [h |-> 0, at |-> NULL, heap |-> heap, count |-> heap_count]

Owned(m, n, d) == [heap |-> m.h, at |-> m.at + HDR, size |-> n, data |-> d]

(* d is what happens to be in the memory of the block. *)
malloc(n, granted) ==
  /\ UNCHANGED moving
  /\ IF n = 0 THEN answer' = "null" /\ UNCHANGED <<heap, heap_count, blocks>>
     ELSE LET m == Malloc(n, granted) IN
       /\ heap' = m.heap /\ heap_count' = m.count
       /\ IF m.at = NULL THEN answer' = "null" /\ UNCHANGED blocks
          ELSE answer' = "block" /\ \E d \in Data : blocks' = blocks \cup {Owned(m, n, d)}

(* free validates the size: a block of size 0 would be refused. *)
Accepted(hp, a) == a \in DOMAIN hp /\ hp[a].size # 0

GiveBack(b) ==
  /\ heap' = IF Accepted(heap[b.heap], b.at - HDR)
             THEN [heap EXCEPT ![b.heap] = Release(@, b.at - HDR)] ELSE heap
  /\ UNCHANGED heap_count

Involved(p) == {p.old} \cup p.new

free(b) ==
  /\ b \in blocks /\ \A p \in moving : b \notin Involved(p)
  /\ GiveBack(b)
  /\ answer' = IF Accepted(heap[b.heap], b.at - HDR) THEN "freed" ELSE "refused"
  /\ blocks' = blocks \ {b}
  /\ UNCHANGED moving

(* The first half of realloc, its call of malloc. *)
realloc_allocate(b, n, granted) ==
  LET m == Malloc(n, granted) IN
  /\ b \in blocks /\ \A p \in moving : b \notin Involved(p)
  /\ Cardinality(moving) < MaxMoving
  /\ heap' = m.heap /\ heap_count' = m.count
  /\ IF m.at = NULL
     THEN moving' = moving \cup {[old |-> b, new |-> {}]} /\ UNCHANGED blocks
     ELSE \E d \in Data : /\ blocks' = blocks \cup {Owned(m, n, d)}
                          /\ moving' = moving \cup {[old |-> b, new |-> {Owned(m, n, d)}]}
  /\ UNCHANGED answer

Copied(b, c) == [c EXCEPT !.data = b.data]

(* The other half: what fits is copied, and the old block is freed whether  *)
(* or not there is a new one.                                              *)
realloc_free(p) ==
  /\ p \in moving /\ moving' = moving \ {p}
  /\ GiveBack(p.old)
  /\ blocks' = (blocks \ Involved(p)) \cup {Copied(p.old, c) : c \in p.new}
  /\ answer' = IF p.new = {} THEN "null" ELSE "block"

Next ==
  \/ \E n \in 0 .. MaxSize, granted \in BOOLEAN : malloc(n, granted)
  \/ \E b \in blocks :
       free(b) \/ \E n \in 1 .. MaxSize, granted \in BOOLEAN : realloc_allocate(b, n, granted)
  \/ \E p \in moving : realloc_free(p)

Spec == Init /\ [][Next]_vars

-----------------------------------------------------------------------------
TypeOK ==
  /\ heap_count \in 0 .. MAX_HEAPS
  /\ \A h \in HeapIds : \A a \in DOMAIN heap[h] :
       a \in 0 .. HeapBytes /\ heap[h][a].size \in Nat /\ heap[h][a].free \in BOOLEAN
  /\ \A p \in moving : Involved(p) \subseteq blocks
  /\ answer \in {"null", "block", "freed", "refused"}

(* The walks of malloc and free meet every control block and end exactly at *)
(* the end of the heap: no call of either is ever stopped by a wrong magic. *)
HeapsTiled ==
  \A h \in 0 .. heap_count - 1 :
    LET walk[a \in 0 .. 2 * HeapBytes] ==
          IF a = HeapBytes THEN {} ELSE IF a \notin DOMAIN heap[h] THEN {NULL}
          ELSE {a} \cup walk[Behind(heap[h], a)]
    IN walk[0] = DOMAIN heap[h]

(* The blocks in use are exactly those the callers own: nothing leaks, and  *)
(* no free, merge or reallocation takes a block from its owner.             *)
InUseIsOwned ==
  \A h \in HeapIds :
    {<<a + HDR, heap[h][a].size>> : a \in {x \in DOMAIN heap[h] : ~heap[h][x].free}}
      = {<<b.at, b.size>> : b \in {c \in blocks : c.heap = h}}

(* The heaps are intact. *)
HeapsIntact == TypeOK /\ HeapsTiled /\ InUseIsOwned

(* A heap with a block that fits is found, whichever heap that is: NULL     *)
(* means that no heap has one and no new heap could be had.                 *)
NullOnlyIfFull ==
  [][\A n \in 1 .. MaxSize :
       malloc(n, TRUE) /\ answer' = "null" =>
         /\ heap_count >= MAX_HEAPS - 1 \/ n + 2 * HDR > HeapBytes
         /\ \A h \in 0 .. heap_count - 1 : \A a \in DOMAIN heap[h] :
              ~(heap[h][a].free /\ heap[h][a].size >= n + HDR)]_vars

(* malloc, free and realloc keep blocks disjoint, inside their heap and     *)
(* with their data.                                                         *)
A == INSTANCE Allocator

Allocates == A!Spec
=============================================================================
