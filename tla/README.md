# A verification project for the newbos kernel

newbos is a small i386 kernel in C and assembly. This directory holds TLA+
models of it, TLC configurations that check them on small instances, and proofs
that TLAPS checks for every instance. Line numbers refer to the repository;
`PROJECT.json` maps every definition to the lines it models.

Contents: [inventory](#inventory), [modules](#modules-and-the-code),
[runs](#runs), [bounds](#bounds), [fairness](#fairness), [proofs](#proofs),
[findings](#findings), [not modelled](#not-modelled), [plan](#plan).

## Inventory

One CPU runs `kernel_main` once: it sets up segments and gates, enables interrupts, clears the screen, reads
the boot loader's memory map, installs the keyboard handler, uses the heap,
creates a process, puts it on the scheduler's list and switches to it. The only
concurrency is the interrupt handler, which runs between any two instructions of
the kernel while interrupts are enabled; the gates are interrupt gates, so a
handler is never interrupted, except by an exception. Nothing is persistent: there is no recovery.

| Component | State | Operations | Talks to |
|---|---|---|---|
| page frame allocator (`paging.c`) | `mmap[]`, `page_frames` (one bit per frame) | `pfa_allocate`, `pfa_free`, `construct_bitmap` | called by page tables, heap, processes |
| boot memory map (`paging.c`, `multiboot.h`) | `mmap[]`, `mmap_len`, the place of the bitmap | `fill_memory_map`, `frames_init`, `construct_bitmap` | reads the boot loader's table; what it leaves is where the frame allocator starts |
| page tables (`paging.c`) | page directories and tables, the temporary slot `kernel_pt[1023]` | map, unmap, find a free virtual address, create and load a directory | frame allocator |
| kernel heap (`kmalloc.c`) | circular free list, `freep` | `kmalloc`, `kfree`, `acquire_more_heap` | frame allocator, page tables |
| processes (`process.c`) | `struct process`, the TSS | `process_create`, `tss_set_kernel_stack` | all of the above |
| scheduler (`scheduler.c`) | list of runnable processes | `scheduler_next_pid`, `scheduler_add_process`, `scheduler_schedule` | heap, processes, page tables |
| screen (`tty.c`, `printk.c`) | frame buffer, `cursor_pos`, cursor ports | `tty_write_byte`, `tty_clear`, ... | shared by kernel and keyboard handler |
| interrupts (`interrupts.c`, `.s`) | IDT, handler tables, interrupt flag, the two interrupt controllers, the frames on the stack | the stubs, `irq_handler`, `interrupt_handler`, registration | keyboard; exceptions of any code |
| segments (`gdt.c`, `.s`) | GDT, segment registers | `gdt_init` | the stubs and the switch load selectors by number |
| switch to user mode (`scheduler_assembler.s`) | registers, interrupt flag | `run_process_in_user_mode` | called by the scheduler |
| keyboard (`keyboard.c`) | layout, the controller's buffer | `keyboard_callback`, `keyboard_init` | screen |
| boot (`boot.s`, `kernel.c`) | first page directory and table | `kernel_main` | calls all the others |
| timer, tasks, library | | | see [not modelled](#not-modelled) |

What is hard here:

* *long sequences of calls*: the bitmap is flipped, never set; the free list is
  split and joined for ever; the scheduler's list is relinked at every switch;
* *failures half way*: out of frames, out of virtual addresses, out of heap, at
  each of the allocations of `process_create`, most of whose results are not
  looked at;
* *boundaries*: areas that the boot loader reports around 1 MB, around the kernel
  and around 4 GB; runs of free frames across two memory areas, the last cell of
  the bitmap, size arithmetic, the last row of the screen;
* *interleaving*: the keyboard handler prints through the same `cursor_pos` and
  the same ports that the interrupted code is using;
* *nesting*: an exception inside an interrupt handler, interrupts of the second
  controller that need two acknowledgements, requests that are withdrawn;
* *termination* of loops over circular or absent structures.

What makes each component correct: the memory map describes memory that is
there, in whole frames and apart from the kernel; frames are handed out once, contiguous and
inside one area, and are not lost; the interrupted code goes on as if nothing had
happened, and no line stays blocked; heap blocks are disjoint, stay where they are
and free memory is found; a process has its own pages, its code and stacks, and
the temporary slot is always restored; every process on the list runs in turn;
the screen shows what was printed.

## Modules and the code

| Module | What it is |
|---|---|
| `FramePool` | abstract pool of page frames |
| `FrameAllocator` | `pfa_allocate` and `pfa_free` on the bitmap; implements `FramePool` |
| `PfaScan` | the bit-by-bit loop of `pfa_allocate` as a recursive function, compared with the closed form `Found` of `FrameAllocator` |
| `MemoryMap` | `frames_init`: from the boot loader's table to the state in which `FrameAllocator` starts |
| `Heap` | abstract heap |
| `Kmalloc` | the free list; implements `Heap` |
| `Paging` | the operations of `paging.c` on directories and tables, as operators on one record |
| `Process` | `process_create` and the switch, composed of `Paging` and a heap that takes frames from the same pool |
| `RunQueue` | abstract queue of processes |
| `Scheduler` | the list with its pointers; implements `RunQueue` |
| `Console` | screen, keyboard and interrupt |
| `Interrupts` | segments, gates, stubs, exceptions and the two interrupt controllers, driven by the calls of `kernel_main` |
| `FrameAllocatorProofs`, `MemoryMapProofs`, `KmallocProofs`, `PagingProofs`, `ProcessProofs`, `SchedulerProofs`, `ConsoleProofs`, `InterruptsProofs` | the proofs about the module they are named after (`FrameAllocatorProofs` about `PfaScan`, too) |
| `MC*` | values for constants |

**FrameAllocator.** `bits` is the set of positions whose bit is 1; addresses and
lengths are counted in frames, because `frames_init` aligns both to 4 KB. `Init`
is the bitmap as `construct_bitmap` leaves it, including the swapped bytes of the
last cell (bytes are written in memory order, cells are read as little-endian
words from their most significant bit) and arbitrary values of the bytes that
are never written. `owned` is a history variable. No interrupt handler allocates,
so a call is one action. `idx_for_paddr` keeps the wrap-around of its unsigned
subtraction (`% AddrFrames`). `pdt_create_fails` is the one caller that gives back
something it did not get: `pdt_create` takes the 0 of a failed `pfa_allocate` for an
address and releases it. The index of address 0 wraps to a place far behind
the bitmap, so `bits` also has the positions behind the cells whose bit was flipped.

**MemoryMap.** Addresses and lengths are bytes, the kernel's arithmetic is modulo
`Word` (2^32), the boot loader's table is not. Each iteration of the loops of
`fill_memory_map`, `frames_init` and `construct_bitmap` is a step. Three states
stand for what the code does not handle: `overrun` (a write behind `mmap[]`),
`failed` (`construct_bitmap` has returned 1, which `frames_init` ignores) and
`wild` (`pfa_allocate` without a bitmap). `Regular` and `RoomForBitmap` say for
which tables none of this happens: `MapUsable` and `BitmapBeforeUse` are about such
tables and do not see what the code does with the others, `ScanInsideBitmap` is about
all. `MapUsable` says of `mmap[]`
what `FrameAllocator` assumes in `MmapAssumption`: `frames_init` establishes for regular
tables what the proofs about the allocator start from.

**Kmalloc.** An address is a multiple of `sizeof(header_t)`. `next` and `size`
are functions on the headers in memory; each iteration of each loop is a step.
`acquire_more_heap` may return pages at any free place or fail; it ends in
`kfree`, after which the scan goes on at `freep`, as in the code.

**Paging, Process.** Addresses are pages. The record `mem` holds the pool, the
directories and the tables, and for every entry whether it has the U/S bit (a
page is open to user mode if both of its entries have it). The bitmap's page has
it by mistake, because `construct_bitmap` passes `rw` and `pl` in the wrong order;
`Isolated` shows that the directory entries of the kernel keep user mode out. Mapping and unmapping go through the temporary slot
and restore it. The loop of `pdt_map_memory` is its iteration `pdt_map_table`
(`FindTable`, then `MapInTable`) applied three times: a request is at most as
long as a table, so it lies in two tables, and a third iteration can only find
the entry at which the second one stopped. The loop of `pdt_unmap_memory`, which is
only called for one page, ends after an iteration or never; for the last page of the
address space `end_vaddr` is 0 and there is no iteration, so that page
(`LastPage`) stays mapped. The identity page that `boot.s` leaves at address 0 is an entry
that is present but is no table. Mapping there looks at the first word of low
memory (`mem.low`), which the BIOS leaves in any state, an unmapping clears and a
NULL `struct process` overwrites with its id: it succeeds only if that word reads as absent.

`pfa_free` of address 0 flips a bit of the word with index 2^15 - a/32 from the start of
the bitmap, where a is the first frame of `mmap[]`. That area begins behind the
kernel's image; below 32 MB the word is in the last quarter of the page 31 pages
behind the bitmap. Two constants stand for it: `StrayIdx`, the entry of `kernel_pt`
that maps this page, and `StrayEntry`, the place of the word in it, which is among the
kernel's entries if the page is a page directory. `mem.flipped` says that the bit differs from
what the owner of the page wrote. When address 0 is released the kernel's pages are
used up, so the page is mapped. If it is a directory, the bit may be the one that makes an absent entry
present: the processor then finds a table at address 0 (`pde`, the entry as the
processor reads it), until `pdt_load_process_pdt` writes the entry. If it is a stack or part of the heap,
the word may be one that the kernel uses or one that it does not: both happen in
the model, and the first is the state `undefined`, from which nothing is claimed to follow.

`process_create` is one action per
block of its body. Its frames, page tables and heap pages come from one pool of
which TLC tries every size, so each allocation fails in some behaviour. A NULL
`struct process` (reported by `process_create` and then used) is a flag.
`pdt_unmap_memory`'s loop can fail to advance: the state is then `hung`.

**Scheduler.** `created` is the result of `process_create` between its return
and `scheduler_add_process`. `schedule_none` is the early return, `schedule` the
rotation and the switch.

**Console.** A call of `tty.c` is a program: a sequence of operations, each one
access to `cursor_pos`, the frame buffer or a port. The line that
`interrupts_init` prints comes first, with interrupts off; `Announcement` stands for it. The kernel executes one
operation per step; the handler executes all of its own program in one step
(`RunAll`), with registers of its own, because it cannot be interrupted. A branch
is a part of the program that its test skips (`Skip`) when it is not taken. `cursor_pos++` is a
load and a store, which is what the compiler makes of it. The rows of a scroll
are one operation each. Of video memory behind the screen, one row and one cell are
modelled, and a write further behind counts as one to that cell (`CellOf`), so that
`NoFarWrite` sees it. The string that the handler prints is any member of
`Strings`, since `keyboard_callback` passes a character where `printk` expects an
address (`keyboard.c:128`) and memory there belongs to the BIOS. `log`, `torn`, `dirty` and `early`
are histories that only the properties read. `%X` and `%u` are programs of
`tty_write_byte` calls for the digits that `tty_write_hex` and `tty_write_int`
compute; the log gets the numeral that a reader expects, found by its value.

**Interrupts.** A word of the stack or a register is a pair of its role and its
value, so that a frame that is shifted by one word is seen. The CPU pushes
`eflags`, `cs`, `eip` and for some exceptions an error code; `stub` is what
`isr<n>` or `irq<n>` and the common stub push on top, `stub_return` what they pop.
The eight registers of `pusha` are one word, the four data segment registers are
one word, because they are always pushed, loaded and popped together. The two
8259 controllers are modelled from the bytes that `init_irq` and `irq_handler`
write to them: requests, lines in service, masks, priorities, the cascade, and a
request that is withdrawn while the CPU asks for its vector, which is delivered
as line 7. Exceptions may occur in any C code, handlers included, also between the
acknowledgements of `irq_handler` and in the handler it calls (`irq_callback`), and any code may
register a handler for one. `OneAtATime` justifies that `Console` executes a
handler in one step.

## Runs

| Run | Shows |
|---|---|
| `frame_allocator` | frames are never handed out twice, never outside an area, never lost before the last cell, also when address 0 is given back, and one frame is found whenever one is free; the loop of `pfa_allocate` does what the action says; the bitmap implements `FramePool` |
| `memory_map` | for every regular table the map consists of whole, sorted, disjoint frames of available memory outside of the kernel and the bitmap, and `page_frames.len` is their number; for every table the scan of the bitmap stays in the pages reserved for it; with room for a bitmap and at most `MAX_NUM_MEMORY_MAP` areas the unhandled cases do not occur |
| `kmalloc` | blocks tile the arena; the list is one sorted cycle; free neighbours are joined; a block holds what was asked for; more pages are requested only if no gap is large enough; every call returns; the list implements `Heap` |
| `process` | the temporary slot is restored on every path; no mapped or owned frame is in the pool; in user mode a process reaches its code and its stack and no other page; a process that is returned is complete although half of the results are ignored; after the switch the kernel stack is mapped; nothing leaks without a failure; the endless loop of `pdt_unmap_memory` and the bit that the release of address 0 flips need a machine without a free frame |
| `scheduler` | the list stays one chain, pids are unique, round robin starves nobody; the list implements `RunQueue` |
| `console` | with a key at any moment: writes stay within one row below the screen, the cursor is on the screen between two bytes, the hardware cursor recovers with the next byte, the keyboard dies only through a key before `keyboard_init`; and while no key has come inside a byte, the screen is what a reference terminal shows, numbers included |
| `interrupts` | however interrupts and exceptions nest, each `registers_t` holds what its handler expects; a handler that returns leaves the CPU and the stack as they were; when interrupts are enabled no handler is under way and no line is in service; a request made while interrupts are enabled is taken |
| `frames_available`, `invalid_free`, `kmalloc_overflow`, `none_runnable`, `user_data_segment` | counterexamples, see [findings](#findings) |

## Bounds

* `frame_allocator`: 4-bit cells of 2-bit bytes and 9 frames in areas of 3, 1 and
  5: three cells, a partly used last byte, an area smaller than a request of 2
  or 3, runs of free bits across both borders.
* `memory_map`: frames of 4 bytes in an address space of 128 bytes, the kernel at 8
  to 12, two entries in `mmap[]`, bytes of 2 bits. All sorted tables of up to three
  areas from 84 kinds: below, at and above the limit of 1 MB, with and without a
  page boundary, too short to hold what is subtracted, ending behind the address
  space. Every early return, wrap-around and overrun happens.
* `kmalloc`: five pages of two units, requests of 2, 4 and 1 units (the last
  through the overflow, `WordSize` 64) and of zero bytes; at least two pages are
  acquired at a time. Pages appear in any order, so new memory joins above, below,
  both and neither.
* `process`: tables of 8 entries, two of four directory entries for the kernel,
  1 to 4 pages of kernel image, a heap with 0 to 4 objects left, up to 4 calls and
  30 frames. That is enough to use up frames, heap and
  virtual addresses, and to need a second kernel page table. The stray word is in
  the entry behind the bitmap of the fullest image, so that it falls into the heap, a
  directory or a kernel stack, according to the size of the image and of the heap.
* `scheduler`: four list elements; `MaxSwitches` is larger than the number of
  elements, so it does not hide a violation of `NoStarvation`.
* `console`: two rows of two columns, four bytes, two scancodes, location bytes
  of three values, so that both bytes of the cursor location change and a tab
  scrolls twice. Numbers are 0 and 2 in base 2 (`%u`) and base 3 with two digits
  (`%X`): one digit, two digits, a leading zero.
* `interrupts`: lines 1 and 7 of the master, 8 and 15 of the slave, one exception
  with and one without an error code, three requests and two exceptions: enough
  for a nested exception inside a handler of the slave while other requests are
  pending, and for a withdrawn request on either controller.

## Fairness

`Kmalloc` states `WF_vars(Step)`: a call that has begun goes on. The CPU executes
the kernel whenever no handler runs, and the handlers end and do not use the heap.
Nothing is assumed about callers. `Interrupts` states `WF_vars(CPU)`: the CPU
executes the next instruction or takes an interrupt as long as one of the two is
possible. Nothing is assumed about devices, which may never raise a line, or about
exceptions. Liveness is checked by
TLC and is not within the prover's reach.

## Proofs

Every theorem holds for all values of the constants that satisfy the
assumptions of its module. TLC evaluates those assumptions in every run, and has
checked each inductive invariant on the constants of the runs (for `MemoryMap` on
fewer kinds of areas, for `Console` with three bytes instead of four).

| Property | Theorem |
|---|---|
| `FrameAllocator`: `TypeOK`, `NoDoubleAllocation`, `NoFrameLost`, `OneFrameFound`, `PoolSpec` | `TypeCorrect`, `NeverTwice`, `NeverLost`, `OneFrameAlwaysFound`, `ImplementsPool` |
| `PfaScan`: `ScanAgrees` | `ScanAlwaysAgrees` (in `FrameAllocatorProofs`) |
| `MemoryMap`: `ScanInsideBitmap`, `MapUsable`, `BitmapBeforeUse` | `ScanStaysInside`, `MapIsUsable`, `NeverWithoutBitmap` |
| `Kmalloc`: `TypeOK`, `BlocksTile`, `FreeListSorted`, `Coalesced`, `RequestFits`, `NoGapMissed`, `HeapSpec` | `TypeCorrect`, `BlocksAlwaysTile`, `ListStaysSorted`, `NeighboursJoined`, `RequestsFit`, `NoGapIsMissed`, `ImplementsHeap` |
| `Process`: `TypeOK`, `TmpRestored`, `NoDanglingFrame`, `Isolated`, `ProcessBuilt`, `KernelStackReachable`, `NoLeak`, `HarmOnlyOutOfFrames` | `TypeCorrect`, `TmpAlwaysRestored`, `NoFrameDangles`, `ProcessesAreIsolated`, `ProcessesAreBuilt`, `KernelStackAlwaysReachable`, `NothingLeaks`, `HarmNeedsFullMachine` |
| `Scheduler`: `TypeOK`, `Chain`, `PidsUnique`, `NoStarvation`, `QueueSpec` | `TypeCorrect`, `AlwaysOneChain`, `PidsAreUnique`, `NobodyStarves`, `ImplementsQueue` |
| `Console`: `TypeOK`, `NoFarWrite`, `CursorOnScreen`, `HardwareCursorRecovers`, `DeadOnlyIfEarly` | `TypeCorrect`, `NeverFarWrite`, `CursorAlwaysOnScreen`, `HardwareCursorIsRight`, `KeyboardDeadOnlyIfEarly` |
| `Interrupts`: `FrameIntact`, `OneAtATime`, `Resumes` | `FramesStayIntact`, `AlwaysOneAtATime`, `HandlersResume` |

In each module one theorem (`InvHolds`, `ProcessInv`, `ConsoleInv`) is
`Spec => []Inv` for the inductive invariant `Inv`, proved with one lemma for each
action; the other theorems follow from it.

**FrameAllocator.** Assumed: areas sorted, disjoint, above frame 0 and within the
address space; any number of areas, any cell and byte size with whole bytes per
cell, any largest request. `NoDoubleAllocation` is not inductive by itself:
`pfa_free` flips a bit, which sets it only if it is clear, and it finds the bit
through `idx_for_paddr`. `Inv` adds that held frames lie in the areas and that
bits are positions, but for the one of address 0, which lies behind all cells: the
release of address 0 changes no bit that the scan reads. The lemmas `PaddrInEntry`, `IdxOfPaddr` and
`FrameHasIdx` show that `paddr_for_idx` and `idx_for_paddr` are inverse to each
other on the frames of the areas; they rest on `OffsetsGrow` and
`OffsetBelowAddr` (running sums of lengths never overtake addresses, so the
unsigned subtraction does not wrap). `AllocateEffect` and `FreeEffect` say what
the two calls do to the set of free frames; each action is then one step of the
invariant proof and one of the refinement. `FullCellsSet` is about the byte
order of the initial bitmap. `OneFrameRefused` (a request for one frame fails
only if none is free) needs that the scan tries every set bit when
`num_page_frames` is 1. Induction over indices goes through the well-founded
minimum `Smallest`.

**PfaScan.** The loop is a recursive function of the position. What it computes
is an induction over positions, which the library's induction theorems cannot be
used for here (they take a predicate as a parameter); `ScanInvariant` does it with `Smallest`: take the
first position at which the loop's state is not the one it should be. That state
(`Searching`) says that `frames_found` counts the free bits since `bit_idx`, what
is left over when the free bits since the last clear one are divided into requests
(a run that does not fit one area makes the count start again), and that no hit of
the closed form lies behind.
`SetBit` and the lemmas next to it are the iterations, `ScanFinds` is the result.

**MemoryMap.** Assumed: sorted tables of any length, a kernel above 1 MB and
below the last frame, and a page table with fewer free entries than a bitmap for
all of memory has pages (1024 against 2^17). `ScanStaysInside` is about
every table, also those for which areas, counts and lengths wrap around: it needs only that
`total_pfs` is a word, and what rounding up twice does to it. `DivCeil` describes
`div_ceil` with its wrap-around at 0; `CellsFit` shows that the bitmap was sized
large enough before its own frames were taken off; `NoFramesNoPages` excludes the
length 0, for which `div_ceil` gives 2^29 bytes. For regular tables `Inv` adds
`Mirror` (element by element `mmap[]` is the usable entries of the table, copied or already
aligned, and still sorted), `Counted` (`total_pfs` frames are as many bytes as the
union of the areas that were counted; a cardinality, so no induction over a sum is needed)
and `TooSmall` (the areas that were tried cannot hold the bitmap). `AllFrames` is the
number of whole frames of the table, and `Counted` says that the kernel arrives
at it.

**Kmalloc.** Assumed: positive sizes of a header, a page and a word; any number
of pages, any requests. What the properties need beyond
themselves is where a loop stands. `Scanning` says that the headers `kmalloc` has
passed (`Seen`, an interval of the circle) are too small, `Exhausted` that all are
when more pages are requested, `Walking` that `kfree` walks on the list with a
block that is on nobody's; `Owned`, `Disjoint` and `Covered` are `BlocksTile` in
parts that the actions disturb one by one. The lemma `Cycle` (a sorted cycle is
injective and turns back only at its highest element, to `base`) is what makes
`Between` find the two neighbours of the block (`PlaceFound`). `NoGapIsMissed`
goes from single blocks to gaps: a gap that is larger than the free block it
starts in would reach into a second one that `kfree` would have joined. In the
refinement the steps of the loops are stutters.

**Paging.** Assumed: at least three entries in a directory, two of them below the
kernel's, and a first table of the kernel in which boot leaves the temporary slot
free.
`PagingProofs` describes directories and tables in order (`MemOK`): the kernel's
own (`KernelOK`) with an empty temporary slot, those of processes (`DirsOK`), no
table in two places (`TablesUnique`) and no frame mapped twice, except one that the last page,
which is never unmapped, may show as well (`PagesUnique`),
nothing in the pool that is in use (`Apart`), and which entries are open to user
mode (`UserTables`). For each operation there is one lemma that says what it
returns, that it keeps this order on every way out, and (`Keeps`) that it changes
no page that is mapped already. `Accounted` (every frame is free or in use) is kept
by the successful ways only.

**Process.** Assumed: any number of frames, calls and heap objects, and heap
pages that fit one table. `Inv` adds to
`MemOK` what a finished process has (`Complete`) and how far an unfinished one is
(`Partial`). `ProcessBuilt` holds for a reason that is not in one place of
the code: the block for the code ignores its failures, but when its frame or its
page table is missing the pool is empty (each asks for one frame), so
the next block, which does look at its results, fails too; that is the clause of
`Partial` for the stack. `NoFrameDangles` needs that the ways that give a
frame back have unmapped it. For `Isolated`, `UserReach` shows that an
address that user mode can reach goes through entry 0 or the stack's
entry, the only ones of a directory with the U/S bit (`upde` in `Typed`), so the bit that
the bitmap's page has by mistake is never reached; `PagesUnique` then
separates the processes. The last page could show the code of a process to the
kernel; it does so only when the kernel has no page left (`KernelFull`), and then the
block for the kernel stack fails and no such process is returned (`LastFull` in
`Partial`, `OnLast` in `Complete`). `Harmed` is `HarmOnlyOutOfFrames`; it is inductive because nothing gives
a frame back once the pool is empty, and it confines the flipped bit to machines
on which no process is created any more. `KernelStackReachable` is `Loaded`: the switch copies
the kernel's entries, and no process is created afterwards.

**Scheduler.** Assumed: any finite set of list elements. `Chain` speaks about
`Walk`, a function defined along the next pointers. `Inv` states that `Walk` is a
bijection from places to elements (`Ordered`); `WalkUnique` shows that any function
with the right first element and the right successors is the `Walk`, so that the new
order after each action can be given explicitly (the old one with an element
appended, or rotated by one). `PidsBelow` bounds pids by the number of elements and
puts the one to be added above all of them. `Turns` bounds how often an element was
passed over by the places behind it; `NoStarvation` follows.

**Console.** Assumed: a screen of at least two rows whose cells two bytes can
number, any text, any first line that is not empty and any strings where the handler looks; numbers that fit
`reversed[]` and the digits of `%X`. `PowersAssumption` says that powers of the base are
positive: it is arithmetic, but the provers do not interpret `^`, so TLC
evaluates it. `Inv` is about what is left of the running program.
`InOrder` says which operation follows which (a register is
used right after it is loaded, `set_cursor` follows every move, the check with what it guards
follows everything that may take the cursor off the screen); as it relates an
operation to later ones only, it holds of every rest of a program
(`SuffixInOrder`). `Writing(t, M)` bounds the cursor: below `M`, or in the row
behind it with the check or a jump home still to come (`Lowering`). The limit is `Size`
for the kernel, which starts each byte on the screen, and a row more for a
handler, which may find the cursor there; a handler ends below `Size`
(`RunAllEnds`, since every operation shortens the program), so that the kernel may
resume with its own registers (`Resumes`). `NoFarWrite` follows because a write uses a
register below `M`. `Synced` gives the hardware cursor: it is right, or a part of `set_cursor`
is left that makes it so, or a move is still to come. `OperationWrites` and
`OperationSyncs` go through the operations once; the lemmas `...Program` show that
each function of `tty.c` is such a program (strings, tabs and digits of any
length included).

**Interrupts.** Assumed: any lines of the two controllers, any exceptions below
32, any number of requests and faults. `Frames` describes the stack word by word for each
handler that is under way, `HalfFrame` what the CPU has pushed before the stub
runs, with and without an error code. `Nesting` says that only the outermost
handler is one of a line, since gates clear the interrupt flag; `Remapped` that interrupts are
enabled only after the controllers have their vectors; `Acknowledged` which lines are in
service at each point of the outermost handler. `OneAtATime` needs the last three
together.

Only model-checked, and why:

* liveness (`CallReturns`, `Served`) is out of the prover's reach;
* `ScreenShowsOutput` compares the screen with what the reference terminal shows
  for the whole log: it needs induction over the log and over the digits of
  numbers, with `^` and `CHOOSE` in the definition of a numeral.

## Findings

* `frames_available`: with a multiple of 8 frames the last byte of the bitmap
  stays 0 (`paging.c:562`) and its frames are never allocated.
* `kmalloc_overflow`: `kmalloc` of nearly 2^32 bytes returns a block of one unit
  (`kmalloc.c:70`).
* `none_runnable`: a failed `process_create` leaves a NULL in the list that
  stops the scheduler for good when it reaches the head (`scheduler.c:77`).
* `invalid_free`: when no frame is free, `pdt_create` maps and, when that fails,
  releases address 0 (`paging.c:151`, `paging.c:160`). `pfa_free` means to report addresses that are
  not those of frames (`paging.c:618`), but the index of address 0 wraps around and is not the one it
  looks for: `toggle_bit` changes a word nearly 128 KB behind the start of the
  bitmap (`paging.c:628`). What that does to page directories, stacks and the heap is part of `Process`.
* `user_data_segment`: `run_process_in_user_mode` loads the data registers with
  0x18, the user code segment (`scheduler_assembler.s:24`); the next write faults
  and the kernel stops in `interrupt_handler`.

Seen while reading, not the subject of a run: `keyboard_callback` uses the character of a
key as the address of a string (`keyboard.c:128`), so no key is displayed as the comment at
`keyboard.c:121` says; `isr17` pushes a dummy on top of the
CPU's error code (`interrupts_assembler.s:152`), which cannot happen as nothing
enables alignment checks (`Interrupts` leaves exception 17 out);
`run_process_in_user_mode` returns with interrupts disabled, does not keep the
registers that its caller expects to be kept, and reads the value of `eax` through
an `eax` whose lower half it has overwritten; the limit of the GDT is one too large
(`gdt.c:60`); an area that starts at 1 MB, the usual place of the kernel, loses its
last megabyte (`paging.c:483`); `pdt_load_process_pdt` replaces entry 0 of the process and
with it the code at address 0; `construct_bitmap` passes its access flags in the
wrong order (`paging.c:550`); `tty_write_int` needs eleven bytes for ten digits.

Hazards that no property covers have a note in `PROJECT.json`: the frames that a failed
`acquire_more_heap` and a failed mapping lose (`NoLeak` is about the paths without a
failure), the digits behind `reversed[]` (`NumbersAssumption` admits shorter numbers only),
and the interrupts that wait for ever behind the `cli` of
`run_process_in_user_mode` (the kernel stops at its next write, and `Served` accepts that).
For tables that are not regular, and with more areas than `mmap[]` holds, the
model does what the code does, but only `ScanInsideBitmap` says something about it.

## Not modelled

* *timer*: `timer_init` is commented out in `kernel_main`.
* *tasks* (`task.c`, `task.s`): not compiled.
* *library*: `memset`, `memcpy`, port access; `abort` loops.
* *registers of a process* and the fields of the TSS other than `esp0`: the switch
  pops what it pushed and does not execute `iret`, so nothing reads them.
* *R/W bits and the TLB*: the kernel never clears a R/W bit it relies on, and
  `pt_map_memory` writes only entries that were absent, which are not cached.
* *instruction-level set-up* in `boot.s`: paging is enabled once, before any of the
  modelled state is used.
* *multiboot structures* other than the memory map and its flag: nothing reads
  them.

## Plan

Done, in this order: frame allocator with its refinement and proofs; heap;
page tables and processes; scheduler; screen and keyboard; boot memory map;
segments, exceptions and interrupt controllers; access to pages from user mode;
number formatting; proofs about the heap, the scheduler, the interrupts, the
boot memory map, the loop of `pfa_allocate`, page tables and processes, and the
screen.

What would come next: `ScreenShowsOutput` for all sizes of the screen, first for
text and new lines only, with an invariant that relates the rest of a program to the
terminal's step; and the timer, once `kernel_main` installs its handler.
