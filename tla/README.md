# A verification project for the ANTONIX kernel

ANTONIX is a preemptive kernel for one IA-32 processor, written in C with a
little assembly. This directory holds TLA+ models of its core, the TLC
configurations that check them, and TLAPS proofs of what matters most. It is
built with `-O0` and with `debug` defined (`src/Makefile.inc`,
`src/include/types.h`); the models follow that build.

`PROJECT.json` maps every definition to the lines it stands for, and lists the
runs, mutants, findings, hazards and theorems. This file explains them.

## 1. Inventory

| part | state | operations | used by / uses | hard behaviour | what makes it correct |
|---|---|---|---|---|---|
| scheduler (`scheduler.c`) | run queue, current thread, process table, thread and region tables | create/exit thread, create process, yield, enable, timer interrupt | everything; uses spinlocks, `mm_virt` | preemption at any instruction with IF set, lists edited from an interrupt without the lock | no thread lost or queued twice, holders of spinlocks stay on the CPU, every thread runs |
| spinlocks (`syncobjs.c`) | a flag, the IF state of the caller | acquire, release | all kernel data | on one CPU contention is a hang | only a holder with interrupts on can be met |
| mutexes (`syncobjs.c`) | owner, depth | lock, unlock, destroy | `malloc`, ATA, Henjin, ring buffers | contention, recursion, misuse, destruction during use | mutual exclusion, waiting instead of stopping |
| events, timer (`syncobjs.c`, `timer.c`) | counter, auto-reset flag; tick counter | signal (interrupt handlers), reset, wait with timeout; tick, sleep | disk drivers, Henjin | timeout racing a signal, several waiters, clock wrap | no signal lost or used twice, no early or missing timeout |
| ELF loader (`elf.c`) | the image being mapped | load, execute | console command `exec`; scheduler, `mm_virt` | the main thread exists before its image does | a thread runs only when its process is mapped |
| ring buffer (`libc/ringbuffer.c`, copy in `sound_blaster16.c`) | bytes, two pointers | write, read, read up to | sound driver, Henjin message and mouse queues | wrap-around, full against empty, two locked sections in one call | a bounded FIFO |
| interrupt dispatch (`desctables.c`, `isr.asm`) | handler table, PIC masks | register, unregister, dispatch | all drivers | unregistering a live line | a line without a handler is masked |
| keyboard (`ps2.c`) | 256 keys, lock state | interrupt handler, `getch`, `readch` | kernel console | shifting the buffer while the interrupt appends | every key is delivered once, in order |
| physical memory (`mm_phys.c`) | block bitmap | mark, unmark, find, alloc | `mm_virt` | no lock, word boundaries | no block has two owners |
| static heap (`mm_skheap.c`) | block bitmap, control structures | malloc, aligned malloc, free | page tables | search by bitmap bytes, the last block | regions disjoint and inside the heap |
| virtual memory (`mm_virt.c`) | regions, page tables | map, unmap, temporary maps, heaps | scheduler, loader, DMA drivers | overlap, partial failure, the region limit | regions disjoint, physical blocks returned |
| `malloc` (`libc/stdlib_memory.c`) | up to 64 heaps of blocks | malloc, free, realloc | the whole kernel (`kmalloc`) | splitting, merging, mutex contention | blocks tile a heap and do not overlap |
| VFS (`vfs.c`) | node tree, reference counts, mounts | open, close, read, write, seek, mkdir, mount | drivers, console | failed or half-done operations, use after unmount | counts match streams, reads return what was written |
| floppy, ISA DMA (`floppy.c`, `isa_dma.c`) | drive position, motor, DMA buffer | read/write sector with retries | VFS, FAT; events, timer | late interrupts, retries, no lock although one exists | data belongs to the requested sector |
| ATA (`ata.c`) | selected drive, nIEN, event | identify, read, write, packet read | VFS, ISO9660 | polling and timeouts, pending interrupts | as for the floppy |
| sound (`sound_blaster16.c`, `nxa.c`) | player state, DMA halves, ring buffer | begin, stop, write, interrupt | console `play` | interrupt handler against stop | halves alternate, no sample lost |
| mouse (`ps2mouse.c`) | packet bytes, button states, callbacks | interrupt handler, init, fini, (un)register | Henjin | packet resynchronization, teardown | events decode whole packets, buttons alternate |
| Henjin (`subsystems/henjin*.c`) | control tree, message queues, locks, framebuffer | queue/get/process message, drag, paint | mouse, NXGI | a server, a desktop and a thread per window that repaint each other; nested mutexes, which stop the machine when contended | drags follow the pointer, the screen catches up with the windows, queues drain |
| FAT, ISO9660, NXGI, VGA/VESA, PCI, console, strings, boot | - | - | - | sequential parsing, pixels, port I/O, text | - |

Interrupt handlers, threads and the loader interact through shared memory only.
There is no persistence beyond the disks, which the FAT and ISO9660 drivers only
read, and no network; crashes are panics and are final.

## 2. Modules

| module | models |
|---|---|
| `Scheduler` | `scheduler.c`, spinlocks, `hal_flush_pagedir`, the scheduling part of `elf.c` |
| `Mutex` | `K_MUTEX` |
| `Event` | `K_EVENT`, the tick clock, `timer_sleep` |
| `ByteFifo`, `RingBuffer` | a bounded queue of bytes (abstract); `libc/ringbuffer.c` |
| `PhysMem`, `Memory` | `mm_phys.c`; `mm_virt.c` over it, with the threads that call it |
| `Allocator`, `Malloc` | a set of disjoint owned blocks (abstract); `libc/stdlib_memory.c` |
| `FileStore`, `Vfs` | files as sequences of bytes (abstract); `vfs.c` |
| `Irq`, `Keyboard`, `Mouse`, `Input` | `desctables.c`; `ps2.c`; `ps2mouse.c`; the three composed |
| `BlockDevice`, `Floppy` | a disk (abstract); `floppy.c` with its controller and `isa_dma.c` |
| `Henjin` | the window system, from the mouse callback to the framebuffer |
| `SchedulerProofs`, `MemoryProofs`, `MallocProofs`, `VfsProofs`, `InputProofs`, `FloppyProofs`, `HenjinProofs` | theorems about the modules they are named after |
| `PrimitivesProofs` | theorems about `Event`, `Mutex` and `RingBuffer` |
| `MC*` | instances for TLC |

The modules meet where the code meets. `Scheduler` justifies taking a section
under a spinlock as one step everywhere else and the fairness of threads;
`Mutex` shows that a contended mutex stops the machine, which is why calls
under one are one step in `RingBuffer`, `Malloc` and `Henjin`; `Memory`
composes `PhysMem` and says when `Malloc` is granted a heap; `Input` composes
`Irq` with the devices on its lines; `Floppy` has the event of `Event` reduced
to a flag.

Where an operator of the code has a second form named after it
(`Closed_unless_late` next to `Closed`), marked "Mutant", the second form is a
plausible bug. It is used by no specification; substituted for the first, it
makes the property that guards it fail.

### Scheduler

State corresponds to `sched_state` (run queue, current, lock), the process
table, `K_THREAD.process` and the counters of `K_PROCESS`, plus the CPU: which
thread's code it executes, its IF bit, and the IF bit saved for each suspended
thread. A list of descriptors is a sequence. The step that matters most is
`timer_irq_handler`: it may happen between any two steps of a thread while IF
is set, and performs the round-robin switch of `sched_update`. Operations of a
thread (`sched_create_thread`, `sched_create_process`, `sched_exit_thread`,
`sched_add_thread_to_run_queue`, the readers) are split where a lock is taken
or released, where IF changes, and where a value read earlier is used later;
`pc` holds the place. A `spinlock_acquire` of a held lock never ends on one
CPU, and a panic executes `hlt`: `halt` records why the machine stopped.

Left out: thread ids, priorities (unused by the code), register contents, FPU
state, the idle thread's `hlt`. `mapped` abstracts the page tables of a process
to whether the loader has mapped kernel and image. Allocation of descriptors
always succeeds while a free address is left.

Properties: `NoThreadLost` relates the run queue, the current thread and the
threads under construction. `HaltCause` collects the three ways in which the
machine may stop: `HangOnlyAfterFlush` (a spinlock), `PanicOnlyOnFullRegions`
and `FaultOnlyWhileLoading`.

### Mutex, Event

A section under the inner spinlock is one step, which `Scheduler` justifies:
apart from the window that `HaltCause` describes, no holder of a spinlock is
preempted. `mutex_destroy` and `event_waitfor` leave their sections and are
several steps. `Event` keeps the arithmetic of the clock: the product of 1000
and the tick counter is cut to 32 bits, the waiting loop subtracts in 64.
`WORD` stands for 2^32, `Scale` for 1000 and `Rate` for the timer rate, which
divides a second (`RateAssumption`: it is 20 in the code). The two modules share
no name, so that one module can prove about both; a mutex's threads are its
`Callers`. The
thread that sleeps and the thread that waits use the same clock. `held`,
`signals`, `wakes` and `unseen` are history variables; no action tests them
except the caller's obligation `InUse` not to use a mutex that is being
destroyed.

`SignalsKept`: a signal, even one that comes between a waiter's look at the
state and its timeout, stays in the event until some wait succeeds or the event
is reset, and an auto-reset event releases at most one waiter per signal.
`TimeoutNotEarly` and `WaitReturns` bound a wait from both sides, and both name
the one exception, a clock that starts again from 0 meanwhile.

### RingBuffer

The two pointers, the buffer and the last result. Every call is one step,
because every buffer in the kernel is used under its own lock, a control's
`message_lock` or the driver's spinlock, except `rb_read_upto`, which takes the
buffer's lock twice. `Contents`, the bytes between the pointers, is the
refinement mapping to `ByteFifo`.

### Memory over PhysMem

The block bitmap is the set of marked blocks; the word-wise search and the
chunks in which bits are tested and set are those of the code. An address space
is a set of regions and a set of (page, frame) pairs; addresses count pages.
`MemoryAssumption` says of the constants what the kernel's layout says (the
kernel is no user process, the boot blocks are in the bitmap, sizes are not 0,
the kernel, its heap and the sound buffer fit below the temporary mappings: 3
GB, a few MB and 64 KB below `KERNEL_TEMP_START`), and `ImagesAssumption` that an
executable is well formed: its segments ascend, share no page and end below the
stacks.
What calls the memory manager is part of the model, because the manager relies
on how it is called: the loader, stacks of new threads, heaps of `malloc`, DMA
buffers, the frame buffer. `sched_create_thread` and everything under a
temporary mapping run with interrupts off and are one step. The others can be
preempted between `alloc_find`, `alloc_test`, `alloc_set`, `alloc_limit`,
`map_fill`, `map_count` and, for unmapping, `unmap_pages` and `unmap_unlink`.
When two threads meet in such an unlocked section (both fill the same region
entry, or find a tested bit set), `halt` becomes "race" and the behaviour is
followed no further; what the model says is how far the address spaces are
right up to then. Drivers are installed after `vfs_init`, hence with a heap
(`HeapExists`).

`strayed` is a history variable: it guards nothing and changes nothing, and
remembers that a driver has once chosen a place for its buffer on the sound
buffer's or across the beginning of the temporary area (`Strays`). The drivers
put their buffers behind the kernel's last region, and removing and installing
the floppy's and the frame buffer in turn moves that end up, step by step, until
it comes there. After that the one-sided overlap test no longer sees everything
and TLC finds regions inside one another; `Settled` leaves the kernel's address
space out from then on, never a user's.

`AddressSpaces`: regions of a process are disjoint although the overlap test of
`vmm_map_region` is one-sided, and page tables hold the regions and nothing
else, in the kernel as long as it is `Settled`. `FramesKept`: no two owners share a word of the bitmap (so that unlocked
load-change-store updates do not undo each other), and mapped frames are
marked. `FindIsFirstFit` compares the search with its meaning. `LeakCause` and
`OverlapPanicCause` say exactly where frames are lost and when a load panics.

### Malloc

A heap is a function from the addresses of its control blocks to their size and
flag; a control block that a merge has swallowed leaves the domain, so that
meeting it would be meeting a wrong magic. `malloc`, `free` and `realloc` are
one step each. `HeapsIntact`: the blocks tile the heap, and the blocks in use
are the ones that callers own. `Allocates` is the refinement of `Allocator`.

### Vfs

Nodes with parent, type, reference count and content; streams with a position;
paths are sequences of names. Every call that changes any of them is one
action, one call at a time; memory may run out in `vfs_open` and
`vfs_file_write`. `wild` records when the code would panic or run through a bad
pointer, and the behaviour stops there. `VfsAssumption`: there are finitely
many streams, and a byte is none of the marks the models use (`JUNK` for memory
never written, `FileStore`'s two for a file that is absent or lost).
`StreamsAndNodes`: reference counts
equal the number of streams, no position is behind the end of its file and no
size exceeds the buffer. `PathsResolve`: each node is found under its own path.
`CrossingIsLive`: no driver is freed while paths lead to it. `FilesKeepData` is
the refinement of `FileStore`, in which a write that runs out of memory may
lose the file and nothing else.

### Irq, Keyboard, Mouse, Input

`Irq` has the table of handlers, the masks of both controllers, requests,
interrupts in service and the registration calls, whose read and write of a
mask are two steps. A handler runs with interrupts off: `Taken` is joined with
the handler's effect into one step. `Keyboard` has `kbd_buffer` and the two
readers, split at each access to `kbd_ptr`; `Mouse` the assembly of packets,
the callbacks, `mouse_init` and the three steps of `mouse_fini`. `Input` puts
them on one set of lines together with a driver that registers its line when it
starts and unregisters it when it stops, as the sound driver does.

`KeysDelivered`: keys come out once and in order, and each key that arrives in
the middle of a read costs at most one. `MouseHeard`: a packet starts with a
byte marked so, and callbacks hear presses and releases in turn.
`LinesStayOpen` and `HandlerStops` name the exceptions the code makes: an
unregistration, two drivers between the same read and write, the middle of
`mouse_fini`.

### Floppy

The controller is a part of the model: commands, seeks that end on any
cylinder, transfers that fail, a pending interrupt. Every wait of the driver
may end by its timeout, and what the controller was doing goes on; it may
finish during a later command, or never. Failures are not counted or bounded.
The driver follows `fdc_read_sector` and `fdc_write_sector` down to motor,
seek, recalibration, DMA channel, command, result bytes and retries.
`TransfersSafe`: the DMA channel is open only during a transfer
(`ChannelClosed`), and the head is in place for one as long as nothing has
timed out (`HeadInPlace`). `IsBlockDevice` is the refinement of `BlockDevice`.

### Henjin

The threads are the server, the desktop and one per window; the queues between
them are bounded, and what each sender does with a full queue is kept (dropped,
or a panic). The screen is a row of cells, a window a title bar and two
buttons: this is enough for windows that overlap, buttons pressed, a window
dragged over another one, and repaints that overtake positions. `DragsFollow`:
the dragged window is as far from where it was as the pointer is, and the drag
ends with the release. `ScreenCurrent`: every cell shows what it should or a
repaint of it is under way. `FreedUntouched`: freed memory is used only after
the server's wait has failed. The constants are what `demo1_init` and the headers
make them: at least one window, registered on the screen, and room for more
than one message in a queue (`HenjinAssumption`). `Drained`: repaints of buttons, windows and desktop
call each other forth, but not for ever.

## 3. Runs

| run | question | bounds |
|---|---|---|
| `sched_safety` | Do run queue, locks, limits and panics behave under every placement of the timer interrupt? | 7 descriptors, 3 processes, 6 regions: enough for two loads and creations in progress at once, exits, reuse of descriptors, full tables; spare descriptors are symmetric |
| `sched_live` | Does every queued thread run and every call return? | 4 descriptors, 2 processes; no symmetry |
| `mutex` | Does the recursive mutex exclude, and is it free when destroyed? | 3 threads, depth 6 |
| `mutex_contention` (violation) | Does a thread that meets a held mutex wait? | 2 threads, depth 2 |
| `event` | Are signals lost, used twice, or waits cut short; does a wait end? | 2 threads, waits of 0 and 3 ms, 2 signals, 3 ticks of 2 ms, of which the last one makes a clock of WORD = 10 start again |
| `ring` | Is the ring a FIFO, at every fill level and wrap position? | capacity 3, transfers of up to 3, two byte values, two readers |
| `memory` | Do bitmap, regions and page tables agree while two threads allocate? | 7 words of 4 bits, 2 threads, 1 process to load, 7 regions, DMA limit inside the memory, two executables, one with a segment that fills its page; room for buffers that stray and for some behind the temporary area, up to the end TOP |
| `malloc` | Do heaps stay tiled and blocks owned? | MAX_HEAPS 3, of which the code uses two; heaps of 7 units with headers of 1, requests up to 3, two contents: splits without remainder, merges of three blocks, full heaps |
| `vfs` | Do counts, positions, paths and data survive any calls? | the root, two names and one path of two, 3 nodes, 2 streams, files of up to 6 bytes written 5 at a time: rewriting, growing a buffer, seeking past what is written |
| `input` | Are keys, packets and lines served, whatever drivers and readers do? | a buffer of 2 keys; three keys with a driver coming and going; six mouse bytes with two mouse_init; one of each |
| `floppy` | Does the driver read and write what it is asked to, and always return? | 2 sectors on 2 cylinders, 1 retry, 2 calls of 1 or 2 sectors; unboundedly many failures and timeouts |
| `henjin` | Do drags, screen and queues catch up? | 4 cells, 2 overlapping windows, a ring of 1, queues of 3, 2 mouse events: a press and a move, a press and a release, a full ring, full queues, panics |

Deadlock is checked in `malloc` only, where every state has a call. Elsewhere
behaviours end: at a panic (`Scheduler`, `Memory`, `Floppy`, `Vfs`, ...) or at
the bounds (ticks, signals, depth, calls, events).

The bounds are named constants and appear only in guards (`MaxTicks`,
`MaxSignals`, `MaxDepth`, `MaxLen`, `MaxNodes`, `MaxFile`, `MaxCalls`,
`MaxEvents`, `Budgets`); the limits of the kernel are constants with the
relation they have in the source (`MAX_VM_REGIONS <= MAX_THREADS`).
`HeadInPlace` speaks of behaviours without a timeout, and the instance has
them: calls of two sectors with failed seeks and recalibrations.

### Where the code departs from what it promises

`mutex_contention` shows that `mutex_lock` panics where its comment says it
switches to the next thread. The other departures are part of the properties
that hold, as their named exceptions, or of the models:

* `hal_flush_pagedir` ends in `sti`, so `sched_create_thread` holds
  `sched_state.lock` with interrupts enabled. A thread preempted there makes
  every other acquirer spin forever (`HaltCause`).
* Regions of dead threads' stacks are never unmapped and the region table has
  as many entries as the thread table, so creating a thread panics before the
  thread limit is reached (`HaltCause`, `ThreadLimit`).
* A new process's main thread is queued before the loader maps the kernel into
  its address space; a timer interrupt in between faults (`HaltCause`).
* The 32-bit clock wraps after about 60 hours (at 20 Hz) and ends every wait
  that is in progress, infinite ones included (`TimeoutNotEarly`).
* `timer_sleep` has its comparison inverted: it returns at once, or, if a tick
  falls between its two statements, loops until the clock wraps.
* `rb_read_upto` releases the lock between asking for the size and reading, so
  it may fail although bytes are there; it loses none (`ImplementsFifo`).
* Keys that arrive while `getch` or `readch` shifts the buffer are lost, or one
  is delivered twice in place of another (`KeysDelivered`); a 257th key, or
  even a release then, panics.
* `unregister_isr_callback` masks line 1 (the keyboard) instead of its own and
  leaves its own open without a handler (`LinesStayOpen`, `HandlerStops`).
* `mouse_fini` frees the context before it detaches the handler
  (`HandlerStops`); `mouse_init` leaves its context behind when the mouse does
  not answer, and every later attempt fails.
* `vmm_map_region` misses a region inside an old one. No caller makes one until
  a driver has put its buffer where the sound buffer belongs or across the
  beginning of the temporary area, which installing and removing drivers often
  enough does (`AddressSpaces`, `Strays`). Every
  malloc heap is placed right behind the kernel, so the second one is refused;
  the refused blocks are not given back, and `malloc` asks again on every call,
  until no memory is left and the kernel panics (`LeakCause`).
* The loader gives a segment that fills its last page one more page, which
  panics if the next segment begins there (`OverlapPanicCause`).
* `realloc` frees the old block also when it has no new one; a file that cannot
  grow loses its data (`FilesKeepData` allows it).
* `vfs_mkdir` puts directories below mount points, where nobody finds them
  (`PathsResolve`), and writes through an uninitialized pointer when the name
  is taken. `vfs_unmount_fs` refuses every mount point (`CrossingIsLive`
  depends on it).
* After a floppy transfer has timed out, its result bytes stay in the
  controller and the next command panics (`PanicOnlyAfterTimeout`). The driver
  has a lock that it does not use.
* Henjin drops mouse events when its ring is full, a lost release leaves the
  window on the pointer (`DragsFollow`); a second button pressed on another
  window drags both; the first button of a window never gets a mouse message
  (`henjin_window.c:132`); a full queue of a window panics; the title bar of a
  new window is not painted until something else asks for it (`ScreenCurrent`);
  an event is freed after 5 seconds while a message points to it
  (`FreedUntouched`).

### Fairness

`Scheduler`: weak fairness of the timer interrupt (the PIT is periodic), and
strong fairness of a thread's steps inside the kernel: a thread that gets the
CPU again and again makes progress there, because a timer period is far longer
than any such stretch of code. Weak fairness would not do, since preemption
disables the step each time. Nothing is assumed about a thread's own code. Both
liveness properties allow for a stopped machine and for `sched_enable(FALSE)`.
`Event`: weak fairness of the tick and of each thread's step, which is what
`EveryThreadRuns` provides. `Input`: the processor takes interrupts when they
are on, and a thread in the middle of a read goes on; nothing about devices,
drivers or further reads. `Floppy`: the driver's thread only; the controller
may never answer. `Henjin`: the server, the desktop and each window poll their
queues; nothing about the mouse.

## 4. Proofs

`SchedulerProofs` (constants arbitrary under `SchedAssumption`: the two
permanent threads differ, the limits are at least what boot needs, and the
region table is no larger than the thread table):

* `TypeCorrect`, `QueueCorrect`, `LockHolderSafe`, `ThreadLimitHolds`;
* `HangCause`, `SchedulerNeverPanics`, `FaultCause`, and from them
  `StopCauses`: the machine stops for the three reasons of `HaltCause` and no
  other.

None of these is inductive. `IInv` adds to the types: **Control**, what a
program counter implies about the thread, its process, IF and the locals;
**Unlisted**, that a process outside the process table has no thread except the
one its creator is making (otherwise the thread limit could end
`sched_create_process` with `process_array_lock` held); **Locks**, who holds
each lock; **Queue**, the shape of the run queue; and **ThreadLimit**. The
central point is in Queue: `elf_load_from_memory` enqueues the main thread of a
process a second time, and linking a thread that is in the list cuts off
whatever follows it. It is harmless because the new thread was appended while
its creator was running, so in round-robin order it comes right before its
creator (`LoadedPrecedes`); whenever the loader runs again, that thread is the
last of the queue, and linking it behind itself changes nothing. Preemption
rotates the queue and preserves this; a thread created meanwhile is appended
and could come between the two only while the new thread itself is running,
which is a user thread and creates none.

The proof has one step per action for each part. `ThreadLimitHolds` rests on
every thread keeping at least one region, so the unlocked test of the thread
limit does no harm. `FaultCause` adds **Mapped**: a process that has a thread
is mapped, or its creator is still between `sched_create_process` and the end
of the load.

`PrimitivesProofs`, ring buffers (any capacity above 0, any transfer length, any
set of bytes and readers): `RingTypeCorrect`, `RingOneByteFree`, `RingImplementsFifo` and
`RingRefinesByteFifo`. The argument is arithmetic of places around the ring: a
pointer advanced by n sees n places further on (`AtAdvance`), the writer's
place is the one behind the contents (`AtWriter`), fewer than `Capacity` places
are different slots (`AtSlots`). So a write leaves the contents alone and
stores its data behind them (`StoredIs`), and a read returns a prefix
(`FetchedIs`), although both may happen in two pieces and a pointer may rest at
`Capacity` itself.

`PrimitivesProofs`, mutexes (any set of threads, any depth): `MutexTypeCorrect`,
`MutexExcludes` and `MutexFreeWhenDestroyed`. Mutual exclusion is inductive
with the types; what `mutex_destroy` promises is not. `MutexInv` adds
**LeftFree**: from the moment the destroyer leaves its loop, before it returns,
the counter stays at 0, because then only a thread already inside would still
call `mutex_lock` (an assumption on the callers, `InUse`) and, by mutual
exclusion, there is none.

`PrimitivesProofs`, events (any set of threads, any timeouts, rate and word
size): `EventKeepsSignals` and `WaitsAreNotCutShort`. At most one wake per
signal is not inductive, since a waiter that has read the state has not
returned yet. **SignalsPaid** counts such waiters too: wakes, waiters on their
way to S_OK and the signal in the event together never exceed the signals. That
a wait lasts its timeout needs `RateAssumption`: only where a tick is a whole
number of milliseconds is the difference of two readings the time between them,
as long as the clock has not started again (**WaitInv**).

`MemoryProofs` (any bitmap, any numbers of processes, threads and regions, any
sizes and places under `PhysAssumption`, `MemoryAssumption` and
`ImagesAssumption`): `MemoryTypeCorrect`, `AddressSpacesAgree`,
`FindsFirstFit`, `FramesStayKept`, `PanicsForOneCause` and
`BlocksAreLostForOneCause`.

* The search walks the bitmap word by word, remembers where its candidate
  begins and counts what is still needed. Its meaning (`ScanIsFirstFit`) is a
  statement about each position of the walk, proved by the least position at
  which it fails (`LeastExists`).
* Frames are kept because of **Claims**: the counted regions and the
  allocations under way, each with the blocks it has marked so far. Claims are
  aligned to words, marked, and disjoint from each other and from the boot
  blocks (`Kept`). An operation, or one preemptible step of it, exchanges some
  claims for others (`Exchange`, and for one claim `Grant`, `Revoke`, `Trade`),
  and an exchange either keeps every block that was claimed or says which ones
  are lost: this gives `FramesKept` and `LeakCause` at once.
* The panic needs **Loading**: the segments still to come lie behind every
  region of the process except its stacks and the kernel, but for the page too
  many of a segment that fills its last page. **Proper** and **BuffersOnce**
  say what a preempted thread may hold: one region of each buffer, counted or
  under way.
* Address spaces agree because of **Arranged**, a plan of the kernel's address
  space that holds for its regions and for the places threads have chosen and
  not mapped yet: stacks below the kernel, then the kernel, the heap and, with
  gaps, the sound buffer; each of the two buffers behind the last region lies in
  a `Slot`, at the end of the heap or of the sound buffer or with room there for
  the other one, and the two are at the same place or apart. So a stale choice
  either has the address of what has been mapped in the meantime, which the
  overlap test sees, or meets nothing (`TestedIsApart`). In a user process
  `Loads` says as much. **Space** then follows the page tables step by step:
  what is filled and not counted, unmapped and not unlinked. A temporary
  mapping takes part in this with the place that `vmm_temp_map_region` walks
  to: a recursive function, which exists because the walk ends at the greatest
  place it reaches (`EndOfWalk`, `GoingEnds`); its place meets nothing because
  it is the beginning of the area or the end of a region (`TempPlaceApart`).

`MallocProofs` (any number and size of heaps, any size of a control block, any
requests): `HeapsStayIntact`, `ImplementsAllocator` and `NullMeansFull`. A heap
in use is `Tiled`: it begins with a block, and every block ends where the next
one begins or where the heap ends. There are three walks over a heap: for a
block that fits, over the free blocks behind one, and the one by which
`HeapsIntact` meets every block. Each is a recursive function, whose value is
given in closed form and proved by the highest address at which the two differ.
`Split` and `Release` keep a heap tiled; **Owners** says that the blocks in use
and the blocks of callers correspond one to one. Then a block handed out
overlaps no other one, which is what `Allocator` demands.

`VfsProofs` (any streams, paths, blocks, modes, number of nodes and length of
files under `VfsAssumption`): `OpensAreCounted`, `NodesAreFound`, `DriversStay`
and `FilesAreBytes`. The invariant `Sane` has four parts: **Nodes**, that an
unused node is empty, an end of a file is within its buffer and a mount point
has a driver; **Tree**, that nodes in use come first, a child behind its
parent, no two children of one name, and below a mount point only directories
with nothing below them; **Opens**, that a stream is on a file or device,
within its size, and a node counts its streams; and **Calm**, that neither a
count nor a position has panicked.

* A path leads to a node in use that no mount point hides, or nowhere
  (`ParseIs`), and a path that is one name longer leads to the child of that
  name or across the same mount (`LongerPath`). With `Tree` this makes each
  node the one its own path finds. It also shows why no driver is ever freed
  early: `vfs_unmount_fs` looks its mount point up and is told that the path
  crosses it, which is what it refuses.
* For `FileStore`, a file is **Intact** (its buffer holds all its bytes, none
  of them never written) or lost. `PutIs` and `Overwrites` say what a write
  leaves in a buffer, grown or not, against what it should leave in a file.
  A call on a lost file is `Whatever`. Running out of memory is `Lose`; of an
  empty file there is nothing to lose.

`FloppyProofs` (any medium, any number of sectors per cylinder, retries and
calls): `TransfersAreSafe`, `PanicCause` and `ImplementsBlockDevice`. To the
types `IInv` adds **CallArgs**; **Accepted**, that once the controller has
taken a command since the motor went on it is not busy with a transfer of an
earlier call; **Channel**, that an open channel belongs to the call in progress
and a transfer that can use it is that call's; **Panic**; **Punctual** and
**Located**, that without timeouts an interrupt belongs to the command waited
for and `cur_cylinder` to the head; **Outcome**, that a successful result has
moved the data; and **Contents**, what the sectors done so far have delivered.
The point of the refinement is **Channel** with `CanTransfer`: a transfer that
finishes late, after its call has given up, finds the channel closed; and if
the next call has opened it, the controller has first taken that call's seek,
so the late transfer was over before.

`InputProofs` (any drivers on any lines, any size of the keyboard buffer, any
keys, bytes and callbacks): `NoLineIsLost`, `StopsAreKnown`, `PacketsAreHeard`
and `KeysArrive`, the safety properties of `Input`. The invariant has a part
for each device:

* lines: **SeenIsMask**, that until two drivers have met between a read and a
  write of one mask, the mask a driver has read is the mask it changes; and
  **OpenIsKnown**, that a line which is open, or which a driver is about to
  write as open, has or had a handler;
* mouse: **HeardIsState**, that the last event a callback heard is the button
  state the driver compares the next packet with; and **AttachedIsLive**, that
  a handler without a context is one that `mouse_fini` is detaching;
* keyboard: **KeyIsThere**, that a call which takes a key has one to take;
  **Counted**, the count of `LossBounded` in the middle of a call, when
  `kbd_ptr` has been loaded but not stored; and **InOrder**, where each unread
  key is while the others are being shifted (`Cell`). `getch` shifts before it
  decrements and `readch` after, which is why the two need different clauses.

`HenjinProofs` (any width of the screen, any windows at any places, any mouse
ring, queues of two messages or more, any number of events):
`TypeCorrect`, `DragsFollowPointer`, `ScreenStaysCurrent` and
`NothingFreedIsUsed`. A message is sent in one state of the desktop and taken
in another, so each part of the invariant says what the messages still in a
queue are going to do:

* **Following**, that the moves in the desktop's queue lead from the pointer the
  desktop knows to the pointer of the server, and a press lies where the pointer
  will be when it is taken (`Moved`, `Follows`): so a drag that begins there, and
  every move after it, keeps the window on the pointer;
* **Releasing**, that when no button is held every press in a queue has its
  release behind it, in the mouse ring, in the desktop's queue, or else nothing is
  dragged;
* **Current**, that each cell is right, or has a repaint in the desktop's queue,
  or belongs to a window whose thread is about to ask for that cell, or to a
  title bar that is new (`Right`), and this from the server's first repaint on,
  while windows are still being registered and `ScreenCurrent` does not yet look;
* **Surfaces** and **Drawing**, on which Current rests: a window that has still
  to resize its surface has not painted it, a button is painted as it is or its
  repaint is in the window's queue, and drawing is enabled, or the message that
  enables it lies before every repaint;
* **Starting** and **Answering**: before the server's first repaint the desktop
  has nothing to paint, windows not yet registered are untouched, and there is at
  most one message that the desktop answers with the server's event. So the
  event is used after it was freed only when the server's wait has failed.

Following, Releasing, Drawing and Current hold until something is dropped
(`lost`), as the properties do.

Induction over data appears in these proofs only as the least (or highest)
place at which a recursive function and its meaning would differ; the library's
induction theorems take an operator, which the provers cannot instantiate. So
the models use recursive functions and no recursive operators.

Only model-checked:

* liveness (`EveryThreadRuns`, `CallsReturn`, `WaitReturns`, `LinesServed`,
  `KeyReachesReader`, `CallEnds`, `Drained`), which the prover does not cover;
* that a thread which meets a held mutex does not wait for it
  (`mutex_contention`): it is a counterexample to the documentation.

## 5. Not modelled

* The static heap (`mm_skheap.c`) keeps page tables and buffers, which `Memory`
  does not look into. Reading it shows that a region that ends exactly at the
  end of the heap is found, then refused with a panic (`mm_skheap.c:251`); that
  the aligned allocation has room for its caller's size only because all
  callers ask for pages; and that `skheap_realloc`, which nobody calls, returns
  the block it has freed.
* The ATA driver is polling and port I/O around one event; its waiting is that
  of `Event` and `Floppy`. A pending interrupt between the reset of the event
  and the write that disables interrupts (`ata.c:873`) leaves a signal for the
  next command; the PIO transfer looks at the wrong mode; block writes use a
  pointer that was never set.
* Sound (`sound_blaster16.c`, `nxa.c`): port I/O and DMA halves around one
  interrupt. Its ring is `RingBuffer`'s code, its line `Input`'s second driver,
  its buffer one of `Memory`'s.
* Calls into the VFS by several threads at once: reference counts and the tree
  have no lock, so nothing but the data of one stream could be claimed.
* FAT and ISO9660 only parse what is on a medium; NXGI, VGA and VESA compute
  pixels; PCI, consoles and debug output are port I/O and text; the string
  library is pure functions; system calls are a table into the components
  above; boot is straight-line.
* `dev_muxer.c` and `pipe.c` are not part of the kernel's build. The linked
  list of `libc` is a sequence in the models of its users.
* An event's 32-bit counter that wraps after 2^32 unread signals.

Most of the repository's lines outside these models are data or vendored: the
initial ramdisk as an array (`initrd.c`), compiler intrinsics
(`include/std/*intrin.h`) and a table of PCI vendors (`pci_list.h`).
