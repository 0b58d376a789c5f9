------------------------------- MODULE PhysMem -------------------------------
(***************************************************************************)
(* The physical memory manager (mm_phys.c): a bitmap of blocks, here the   *)
(* set of marked blocks, kept in words of W bits.  Its functions take no   *)
(* lock; Memory decides where callers can be preempted between them.       *)
(***************************************************************************)
EXTENDS Integers, FiniteSets, FiniteSetsExt

CONSTANTS
  W,        \* BITS_PER_ELEMENT
  Words     \* MEMORY_BITMAP_LENGTH

ASSUME PhysAssumption == W \in Nat \ {0} /\ Words \in Nat \ {0}

Blocks == 0 .. W * Words - 1

NoBlock == -1

Run(b, n) == b .. b + n - 1

Word(i) == Run(i * W, W)

(* Mutant: finds a run that begins within a word. *)
kpmm_find_free_region_any_block(bm, n) ==
  LET fits == {b \in Blocks : Run(b, n) \subseteq Blocks \ bm}
  IN IF fits = {} THEN NoBlock ELSE Min(fits)

(* The scan by words: icnt blocks are still needed, from word start on. *)
kpmm_find_free_region(bm, n) ==
  LET scan[i \in 0 .. Words] ==
        [start \in 0 .. Words |-> [icnt \in 0 .. n |->
          IF i = Words THEN NoBlock
          ELSE IF icnt >= W
          THEN IF Word(i) \cap bm # {} THEN scan[i + 1][i + 1][n] ELSE scan[i + 1][start][icnt - W]
          ELSE IF Run(i * W, icnt) \cap bm # {} THEN scan[i + 1][i + 1][n] ELSE start * W]]
  IN scan[0][0][n]

(* What the scan means: the first word from which n blocks are free and     *)
(* that leaves a word of the bitmap to look at behind the full ones.        *)
FirstFit(bm, n) ==
  LET fits == {i \in 0 .. Words - 1 : i + n \div W < Words /\ Run(i * W, n) \cap bm = {}}
  IN IF fits = {} THEN NoBlock ELSE W * Min(fits)

(* The blocks one iteration of kpmm_mark_blocks tests and sets: a whole    *)
(* word if the place is aligned and enough are left, one block otherwise.  *)
MarkChunk(b, left) == IF left >= W /\ b % W = 0 THEN Run(b, W) ELSE {b}

(* The debug test of kpmm_unmark_blocks lets a clear bit pass as long as a  *)
(* higher bit of its word is set.                                           *)
UnmarkRefused(bm, x) == \A y \in bm : y < x \/ y \div W # x \div W
=============================================================================
