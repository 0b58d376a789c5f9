-------------------------------- MODULE Memory --------------------------------
(***************************************************************************)
(* Virtual memory (mm_virt.c) over PhysMem, driven by its callers: the ELF *)
(* loader, the heaps of malloc, the buffers of the drivers and the stacks  *)
(* of new threads.  Addresses count pages.  sched_create_thread and the    *)
(* temporary mappings run with interrupts off and are one step; the other  *)
(* callers take no lock and may be preempted between looking for blocks,   *)
(* testing, setting and clearing their bits, and testing for room, filling *)
(* and counting a region.                                                  *)
(***************************************************************************)
EXTENDS PhysMem, Sequences

CONSTANTS
  KThreads,     \* threads of the kernel process that allocate memory
  Users,        \* processes the ELF loader can still create
  KERNEL,       \* the kernel process
  MaxRegions,   \* MAX_VM_REGIONS
  Reserved,     \* blocks kpmm_init marks: the first megabytes and the kernel
  KBASE, KSIZE, \* where the kernel is mapped in every process
  TEMP,         \* KERNEL_TEMP_START
  STACK,        \* pages of a thread's stack
  HEAP,         \* pages of a malloc heap
  DMA,          \* pages of a driver's DMA buffer
  Limit,        \* first block out of reach of ISA DMA
  LFB,          \* pages of the linear frame buffer
  TOP,          \* no buffer begins at or above it: the end of the address space
  PAGE,         \* bytes of a page, for the rounding of segments
  Images        \* executables: sequences of [va, bytes], ascending, on different pages

ASSUME MemoryAssumption ==
  /\ KERNEL \notin Users
  /\ Reserved \in 0 .. W * Words
  /\ {KBASE, KSIZE, STACK, HEAP, DMA, LFB, PAGE} \subseteq Nat \ {0}
  /\ TEMP \in Nat /\ KBASE + KSIZE + HEAP + DMA <= TEMP

VARIABLES
  mem,          \* bitmap, regions and page tables of every process, halt
  job,          \* what each thread is allocating, and where it is in it
  strayed,      \* a driver has chosen a place that Strays (history)
  clash         \* two threads have changed the same word of the bitmap or
                \* the same table of regions at once (history)

vars == <<mem, job, strayed, clash>>

Procs == Users \cup {KERNEL}

Idle == [pc |-> "idle"]

AutoFree == {"stack", "image", "fdc", "sb16"}   \* USAGE_AUTOFREE

-----------------------------------------------------------------------------
(* Regions *)

PagesOf(r) == {<<r.va + i, r.pa + i>> : i \in 0 .. r.n - 1}

(* Mutant: forgets that an old region may begin before the new one. *)
Overlaps_starts_only(rs, va, n) == \E r \in rs : r.va >= va /\ r.va < va + n

(* The test misses a new region strictly inside an old one. *)
Overlaps(rs, va, n) ==
  \E r \in rs : \/ r.va >= va /\ r.va < va + n
                \/ r.va + r.n > va /\ r.va + r.n <= va + n

Full(m, p) == Cardinality(m.regs[p]) = MaxRegions

Halt(m, why) == [m EXCEPT !.halt = why]

PutPages(m, p, r) ==
  [m EXCEPT !.pages[p] = {e \in @ : e[1] \notin Run(r.va, r.n)} \cup PagesOf(r)]

DropPages(m, p, va, n) == [m EXCEPT !.pages[p] = {e \in @ : e[1] \notin Run(va, n)}]

(* Another thread has filled the next entry of p and not counted it. *)
Filling(k, p) == \E q \in KThreads \ {k} : job[q].pc = "count" /\ job[q].p = p

(* Words in which another thread is clearing bits *)
Clearing(k) ==
  UNION {{b \div W : b \in Run(job[q].r.pa, job[q].r.n)} :
           q \in {q \in KThreads \ {k} : job[q].pc \in {"free", "undo"}}}

(* The blocks in S are to be marked, and another thread has marked one of   *)
(* them, or is clearing bits in a word of theirs.                           *)
Collides(k, S) == S \cap mem.used # {} \/ {b \div W : b \in S} \cap Clearing(k) # {}

(* Another thread is in a section that the stacks and temporary mappings of *)
(* m break into.                                                            *)
Interferes(k, m) == Filling(k, KERNEL) \/ Collides(k, m.used \ mem.used)

(* vmm_map_region with interrupts off *)
MapRegion(m, p, r) ==
  IF Full(m, p) THEN Halt(m, "regions")
  ELSE IF Overlaps(m.regs[p], r.va, r.n) THEN Halt(m, "overlap")
  ELSE PutPages([m EXCEPT !.regs[p] = @ \cup {r}], p, r)

vmm_get_address_space_end(m) ==
  Max({r.va : r \in m.regs[KERNEL]}) +
    (CHOOSE r \in m.regs[KERNEL] : \A s \in m.regs[KERNEL] : s.va <= r.va).n

(* The address in the temporary area: behind whatever is in the way. *)
TempPlace(rs, n) ==
  LET inWay(a) == {r \in rs : Overlaps({r}, a, n)}
      from[a \in Nat] == IF inWay(a) = {} THEN a
                         ELSE LET r == CHOOSE x \in inWay(a) : TRUE IN from[r.va + r.n]
  IN from[TEMP]

(* vmm_temp_map_region, the use of the mapping and vmm_unmap_region: what   *)
(* the current process keeps of it are the cleared page table entries.      *)
TempMap(m, n) ==
  IF m.halt # "no" THEN m
  ELSE IF Full(m, KERNEL) THEN Halt(m, "regions")
  ELSE DropPages(m, KERNEL, TempPlace(m.regs[KERNEL], n), n)

(* Mutant: looks for the highest region. *)
StackPlace_highest(rs) == Max({r.va : r \in rs} \cup {KBASE - 1}) - STACK - 1

(* sched_find_proper_stack_location: below every region, a page apart. *)
StackPlace(rs) == Min({r.va : r \in rs} \cup {KBASE - 1}) - STACK - 1

(* vmm_alloc_and_map for a stack; every failure panics. *)
AddStack(m, p) ==
  LET b == kpmm_find_free_region(m.used, STACK)
      r == [va |-> StackPlace(m.regs[p]), pa |-> b, n |-> STACK, use |-> "stack"]
  IN IF m.halt # "no" THEN m
     ELSE IF b = NoBlock THEN Halt(m, "memory")
     ELSE IF r.va < 0 THEN Halt(m, "place")
     ELSE MapRegion([m EXCEPT !.used = @ \cup Run(b, STACK)], p, r)

-----------------------------------------------------------------------------
KernelRegion == [va |-> KBASE, pa |-> 0, n |-> KSIZE, use |-> "kernel"]

Empty == [used |-> 0 .. Reserved - 1, halt |-> "no",
          regs |-> [p \in Procs |-> {}], pages |-> [p \in Procs |-> {}]]

(* sched_initialize: the kernel, and the stacks of the main and idle threads. *)
Init ==
  /\ mem = LET k == MapRegion(Empty, KERNEL, KernelRegion)
           IN AddStack(AddStack(k, KERNEL), KERNEL)
  /\ job = [k \in KThreads |-> Idle]
  /\ strayed = FALSE /\ clash = FALSE

Running(k, at) == mem.halt = "no" /\ job[k].pc = at

Goto(k, at) == job' = [job EXCEPT ![k].pc = at]

Leave(k) == job' = [job EXCEPT ![k] = Idle]

Stop(why) == mem' = Halt(mem, why) /\ UNCHANGED job

Region(va, n, use) == [va |-> va, pa |-> NoBlock, n |-> n, use |-> use]

Start(k, at, p, r, rest) ==
  job' = [job EXCEPT ![k] = [pc |-> at, p |-> p, r |-> r, rest |-> rest, i |-> 0]]

(* sched_create_thread in the kernel process *)
sched_create_thread(k) ==
  /\ Running(k, "idle")
  /\ mem' = TempMap(AddStack(mem, KERNEL), STACK)
  /\ clash' = (clash \/ Interferes(k, mem'))
  /\ UNCHANGED job

(* vmm_get_address_space_end_ks: it knows only what vmm_init has mapped. *)
HeapPlace(m) == KBASE + KSIZE

(* Called under malloc's mutex. *)
vmm_create_heap(k) ==
  /\ Running(k, "idle")
  /\ \A q \in KThreads : job[q].pc # "idle" => job[q].r.use # "heap"
  /\ Start(k, "find", KERNEL, Region(HeapPlace(mem), HEAP, "heap"), <<>>)
  /\ UNCHANGED mem

HasRegion(use) ==
  \/ \E r \in mem.regs[KERNEL] : r.use = use
  \/ \E k \in KThreads : job[k].pc # "idle" /\ job[k].r.use = use

(* Drivers are installed after vfs_init, which has allocated the root. *)
HeapExists == \E r \in mem.regs[KERNEL] : r.use = "heap"

(* The buffers of the Sound Blaster, below the temporary area, and of the   *)
(* floppy driver, behind the last region.                                   *)
driver_dma(k) ==
  /\ Running(k, "idle") /\ HeapExists
  /\ \E u \in {"sb16", "fdc"} :
       /\ ~HasRegion(u)
       /\ u = "fdc" => vmm_get_address_space_end(mem) < TOP
       /\ Start(k, "find", KERNEL,
                Region(IF u = "sb16" THEN TEMP - DMA ELSE vmm_get_address_space_end(mem), DMA, u), <<>>)
  /\ UNCHANGED mem

(* The video driver maps its frame buffer behind the last region. *)
driver_lfb(k) ==
  /\ Running(k, "idle") /\ HeapExists /\ ~HasRegion("lfb")
  /\ vmm_get_address_space_end(mem) < TOP
  /\ Start(k, "map", KERNEL,
           [Region(vmm_get_address_space_end(mem), LFB, "lfb") EXCEPT !.pa = W * Words], <<>>)
  /\ UNCHANGED mem

(* elf_load_from_memory: the process with its main thread's two stacks, then *)
(* the kernel and the segments.                                              *)
elf_load_from_memory(k) ==
  /\ Running(k, "idle")
  /\ \E p \in Users, image \in Images :
       /\ mem.regs[p] = {}
       /\ mem' = TempMap(AddStack(AddStack(mem, p), p), STACK)
       /\ clash' = (clash \/ Interferes(k, mem'))
       /\ Start(k, "map", p, KernelRegion, image)

-----------------------------------------------------------------------------
Chunk(j) == MarkChunk(j.r.pa + j.i, j.r.n - j.i)

(* A failure is a panic in the loader, E_FAIL elsewhere. *)
Fails(k, why) ==
  IF job[k].r.use = "image" THEN Stop(why) ELSE Leave(k) /\ UNCHANGED mem

alloc_find(k) ==
  /\ Running(k, "find")
  /\ LET b == kpmm_find_free_region(mem.used, job[k].r.n)
     IN IF b # NoBlock
        THEN job' = [job EXCEPT ![k].pc = "test", ![k].r.pa = b] /\ UNCHANGED mem
        ELSE IF job[k].r.use = "heap" THEN Stop("memory") ELSE Fails(k, "memory")

ChunkTaken(j) == Chunk(j) \cap mem.used # {}

alloc_test(k) ==
  /\ Running(k, "test")
  /\ IF ChunkTaken(job[k]) THEN Fails(k, "lost race") ELSE Goto(k, "set") /\ UNCHANGED mem

(* Mutant: the word at once sets only its lowest bit. *)
Marked_lowest(j) == {j.r.pa + j.i}

Marked(j) == Chunk(j)

(* A word is loaded, changed and stored: when another thread changes it at  *)
(* the same time, its change stays or is undone.                            *)
Outcomes(k) ==
  LET j == job[k]
      word == Word((j.r.pa + j.i) \div W)
  IN IF Collides(k, Chunk(j))
     THEN {mem.used \cup Marked(j), (mem.used \ word) \cup Marked(j), mem.used \cup word}
     ELSE {mem.used \cup Marked(j)}

(* The bits are set whatever they have become since they were tested. *)
alloc_set(k) ==
  /\ Running(k, "set")
  /\ LET j == job[k]
         i == j.i + Cardinality(Chunk(j))
     IN /\ \E used \in Outcomes(k) : mem' = [mem EXCEPT !.used = used]
        /\ clash' = (clash \/ Collides(k, Chunk(j)))
        /\ job' = [job EXCEPT ![k].i = i, ![k].pc = IF i < j.r.n THEN "test" ELSE "map"]

(* vmm_alloc_and_map_limited *)
OverLimit(r) == r.use \in {"fdc", "sb16"} /\ r.pa + r.n > Limit

alloc_limit(k) ==
  /\ Running(k, "map") /\ OverLimit(job[k].r)
  /\ job' = [job EXCEPT ![k].pc = "undo", ![k].i = 0]
  /\ UNCHANGED mem

(* Mutant: the last block stays marked. *)
Cleared_one_less(j) == j.i + 1 >= j.r.n - 1

(* The last iteration of kpmm_unmark_blocks *)
Cleared(j) == j.i + 1 = j.r.n

(* An iteration of kpmm_unmark_blocks, for a region that is unmapped or     *)
(* given up.  A refused block ends it, and vmm_unmap_region with it.  A     *)
(* thread that has marked blocks of the word in between may lose its marks. *)
free_block(k) ==
  LET j == job[k]
      b == j.r.pa + j.i
  IN
  /\ j.pc \in {"free", "undo"} /\ mem.halt = "no"
  /\ \/ UnmarkRefused(mem.used, b) /\ Leave(k) /\ UNCHANGED mem
     \/ /\ ~UnmarkRefused(mem.used, b)
        /\ \E undone \in IF clash THEN {{}, {x \in Word(b \div W) : x < b}} ELSE {{}} :
             mem' = [mem EXCEPT !.used = @ \ ({b} \cup undone)]
        /\ IF ~Cleared(j) THEN job' = [job EXCEPT ![k].i = j.i + 1]
           ELSE IF j.pc = "free" THEN Goto(k, "unlink") ELSE Leave(k)

(* vmm_map_region: the tests.  The blocks of a refused region stay marked. *)
map_test(k) ==
  LET j == job[k] IN
  /\ Running(k, "map") /\ ~OverLimit(j.r)
  /\ IF Full(mem, j.p) THEN Stop("regions")
     ELSE IF Overlaps(mem.regs[j.p], j.r.va, j.r.n)
     THEN IF j.r.use = "kernel" THEN Stop("overlap") ELSE Fails(k, "overlap")
     ELSE Goto(k, "fill") /\ UNCHANGED mem

(* The entry behind the last one and the page tables.  Since the tests,     *)
(* another thread may have filled that entry or counted a region in the way.*)
map_fill(k) ==
  LET j == job[k] IN
  /\ Running(k, "fill")
  /\ mem' = PutPages(mem, j.p, j.r)
  /\ clash' = (clash \/ Filling(k, j.p) \/ Full(mem, j.p) \/ Overlaps(mem.regs[j.p], j.r.va, j.r.n))
  /\ Goto(k, "count")

(* Mutant: rounds up twice. *)
SegmentPages_two_more(s) == s.bytes \div PAGE + 2

(* The loader's rounding: a segment that fills its pages gets one more. *)
SegmentPages(s) == s.bytes \div PAGE + 1

(* Where the stacks of a process's main thread end. *)
UserTop == KBASE - 2 * STACK - 3

(* Segments of an executable ascend, as ELF asks of them, share no page and *)
(* stay below the stacks: USER_CODE_START is at 1 MB, the kernel at 3 GB.   *)
WellFormed(image) ==
  /\ image \in Seq([va : Nat, bytes : Nat])
  /\ \A i \in 1 .. Len(image) :
       /\ image[i].va + SegmentPages(image[i]) <= UserTop
       /\ \A j \in i + 1 .. Len(image) :
            /\ image[i].va < image[j].va
            /\ image[i].va + (image[i].bytes - 1) \div PAGE < image[j].va

ASSUME ImagesAssumption == \A image \in Images : WellFormed(image)

(* Once two threads have met in a table, an entry is any that was there, or *)
(* one that was never written.                                              *)
Blank == [va |-> 0, pa |-> 0, n |-> 0, use |-> "none"]

Entries(p, r) ==
  IF clash THEN {Blank, r} \cup mem.regs[p] \cup {job[q].r : q \in {q \in KThreads : job[q].pc = "count"}}
  ELSE {r}

(* The counter; the loader then copies the segment through a temporary     *)
(* mapping and goes on with the next one.                                  *)
map_count(k) ==
  LET j == job[k]
      counted(r) == [mem EXCEPT !.regs[j.p] = @ \cup {r}]
      copies == j.r.use = "image"
  IN
  /\ Running(k, "count")
  /\ \E r \in Entries(j.p, j.r) :
       mem' = IF copies THEN TempMap(counted(r), j.r.n) ELSE counted(r)
  /\ clash' = (clash \/ (copies /\ Filling(k, KERNEL)))
  /\ IF j.rest = <<>> THEN Leave(k)
     ELSE Start(k, "find", j.p, Region(Head(j.rest).va, SegmentPages(Head(j.rest)), "image"), Tail(j.rest))

(* vmm_unmap_region by a driver that is finalized: the pages, then the      *)
(* blocks, then the entry, found at the beginning.                          *)
unmap_pages(k) ==
  /\ Running(k, "idle")
  /\ \E r \in mem.regs[KERNEL] :
       /\ r.use \in {"fdc", "sb16", "lfb"}
       /\ \A q \in KThreads : job[q].pc \in {"free", "unlink"} => job[q].r # r
       /\ mem' = DropPages(mem, KERNEL, r.va, r.n)
       /\ Start(k, IF r.use \in AutoFree THEN "free" ELSE "unlink", KERNEL, r, <<>>)

(* Removing an entry moves the ones behind it. *)
unmap_unlink(k) ==
  /\ Running(k, "unlink")
  /\ \E r \in Entries(KERNEL, job[k].r) : mem' = [mem EXCEPT !.regs[KERNEL] = @ \ {r}]
  /\ clash' = (clash \/ Filling(k, KERNEL) \/ \E q \in KThreads \ {k} : job[q].pc \in {"free", "unlink"})
  /\ Leave(k)

Alone(k) ==
  \/ vmm_create_heap(k) \/ driver_dma(k) \/ driver_lfb(k)
  \/ alloc_find(k) \/ alloc_test(k) \/ alloc_limit(k) \/ free_block(k)
  \/ map_test(k) \/ unmap_pages(k)

Step(k) ==
  \/ Alone(k) /\ UNCHANGED clash
  \/ sched_create_thread(k) \/ elf_load_from_memory(k)
  \/ alloc_set(k) \/ map_fill(k) \/ map_count(k) \/ unmap_unlink(k)

(* Behind the last region, but on the place of the Sound Blaster's buffer,  *)
(* which is not there, or across the beginning of the temporary area.       *)
Strays(j) ==
  j.pc # "idle" /\ j.r.use \in {"fdc", "lfb"} /\ Run(j.r.va, j.r.n) \cap Run(TEMP - DMA, DMA) # {}

Next == \E k \in KThreads : Step(k) /\ strayed' = (strayed \/ Strays(job'[k]))

Spec == Init /\ [][Next]_vars

-----------------------------------------------------------------------------
Uses == AutoFree \cup {"kernel", "heap", "lfb", "none"}

RegionType == [va : Nat, pa : Nat \cup {NoBlock}, n : Nat, use : Uses]

JobType ==
  {Idle} \cup
  [pc : {"find", "test", "set", "map", "fill", "count", "free", "undo", "unlink"}, p : Procs, r : RegionType,
   rest : Seq([va : Nat, bytes : Nat]), i : Nat]

(* The machine stops for one of these reasons. *)
TypeOK ==
  /\ mem.used \subseteq Blocks
  /\ \A p \in Procs : \A r \in mem.regs[p] : r \in RegionType
  /\ \A p \in Procs : \A e \in mem.pages[p] : e \in Nat \X Nat
  /\ mem.halt \in {"no", "memory", "regions", "overlap", "place", "lost race"}
  /\ \A k \in KThreads : job[k] \in JobType
  /\ strayed \in BOOLEAN /\ clash \in BOOLEAN

(* The scan of kpmm_find_free_region, which jumps over whatever it has seen *)
(* when a run ends, misses no earlier place that fits.                      *)
FindIsFirstFit ==
  \A n \in 1 .. 2 * W + 1 : kpmm_find_free_region(mem.used, n) = FirstFit(mem.used, n)

(* What is promised of the address space of p ends with the first clash.    *)
(* Freeing and making buffers in turn moves the end of the kernel's regions *)
(* up, and when it comes to the place of the sound buffer, there is no      *)
(* telling either what is mapped inside what.                               *)
Settled(p) == ~clash /\ (p = KERNEL => ~strayed)

(* The overlap test of vmm_map_region is one-sided, but the ways regions    *)
(* are placed (stacks below everything, a well-formed executable, buffers   *)
(* behind the last region, although another thread may have moved it since) *)
(* never offer it a region inside another one.                              *)
RegionsDisjoint ==
  \A p \in Procs : Settled(p) =>
    \A r, s \in mem.regs[p] : r # s => Run(r.va, r.n) \cap Run(s.va, s.n) = {}

Unlinking == {job[k].r : k \in {q \in KThreads : job[q].pc \in {"free", "unlink"}}}

Live(p) == IF p = KERNEL THEN mem.regs[p] \ Unlinking ELSE mem.regs[p]

(* Page tables hold the regions and nothing else, temporary mappings and    *)
(* unmapping included, except the one a thread has not counted yet.         *)
PagesMatchRegions ==
  mem.halt = "no" =>
    \A p \in Procs : Settled(p) =>
      mem.pages[p] = UNION {PagesOf(r) : r \in Live(p) \cup
        {job[k].r : k \in {q \in KThreads : job[q].pc = "count" /\ job[q].p = p}}}

(* Regions and page tables describe the same address spaces. *)
AddressSpaces == TypeOK /\ RegionsDisjoint /\ PagesMatchRegions

(* What owns physical blocks: counted regions, allocations under way with   *)
(* what they have marked, and regions given back with what they have not    *)
(* cleared: the blocks from the from-th to the to-th of a region.           *)
Holder(p, r, from, to) == [p |-> p, va |-> r.va, pa |-> r.pa, from |-> from, to |-> to]

Holders ==
  (UNION {{Holder(p, r, 0, r.n) : r \in {x \in Live(p) : x.use \in AutoFree \cup {"heap"}}} : p \in Procs})
  \cup {LET j == job[k]
        IN Holder(j.p, j.r, IF j.pc \in {"free", "undo"} THEN j.i ELSE 0,
                            IF j.pc \in {"test", "set"} THEN j.i ELSE j.r.n) :
          k \in {q \in KThreads : /\ job[q].pc \in {"test", "set", "map", "fill", "count", "free", "undo"}
                                  /\ job[q].r.use \notin {"lfb", "kernel"}}}

WordsOf(h) == {b \div W : b \in Run(h.pa, h.to)}

(* Every region begins with a word of its own and owns it whole, so that    *)
(* the unlocked updates of the bitmap by two threads, which load, change    *)
(* and store a word, do not touch the same word; in particular no block has *)
(* two owners, and the boot and kernel blocks have none.                    *)
WordsNotShared ==
  \A g \in Holders :
    /\ WordsOf(g) \cap {b \div W : b \in 0 .. Reserved - 1} = {}
    /\ \A h \in Holders : g # h => WordsOf(g) \cap WordsOf(h) = {}

Held == UNION {Run(h.pa + h.from, h.to - h.from) : h \in Holders}

(* No frame that is mapped somewhere is free for another allocation. *)
MappedIsMarked == Held \subseteq mem.used

(* Physical blocks belong to those who were given them, until two threads   *)
(* that have tested the same clear bit both set it, or one sets a bit of a  *)
(* word in which the other is still clearing bits: stale results of the     *)
(* search alone, tests that find a bit set and mappings that are refused    *)
(* harm nobody else.                                                        *)
FramesKept == ~clash => WordsNotShared /\ MappedIsMarked

(* Marked blocks that nobody will ever give back *)
Lost == mem.used \ (Held \cup 0 .. Reserved - 1)

(* Until a clash blocks are lost only by an allocation that meets another   *)
(* one while marking, or whose mapping is refused: of a heap or a buffer,   *)
(* never of a stack or a segment, and never by giving back a region or      *)
(* exceeding the DMA limit.                                                 *)
LeakCause ==
  [][mem'.halt = "no" /\ ~clash' /\ ~(Lost' \subseteq Lost) =>
       \E k \in KThreads :
         /\ job[k].pc \in {"test", "map"} /\ job'[k] = Idle
         /\ job[k].r.use \in {"heap", "fdc", "sb16"}
         /\ job[k].pc = "map" => Overlaps(mem.regs[KERNEL], job[k].r.va, job[k].r.n)]_vars

(* No thread's creation panics because of an overlap, and no executable is  *)
(* refused for it, but for a segment that follows one which fills its last  *)
(* page: that one has been given a page more than it needs.                 *)
OverlapPanicCause ==
  mem.halt = "overlap" /\ ~clash =>
    \E k \in KThreads : /\ job[k].pc = "map" /\ job[k].r.use = "image"
                        /\ \E r \in mem.regs[job[k].p] :
                             r.use = "image" /\ r.va + r.n - 1 = job[k].r.va
=============================================================================
