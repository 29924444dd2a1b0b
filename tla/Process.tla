------------------------------ MODULE Process ------------------------------
(***************************************************************************)
(* kernel/process.c on top of paging.c and kmalloc.c: process_create, one  *)
(* action per block of its body, with every allocation of a frame, a page  *)
(* table or heap memory that can fail on the way, and scheduler_schedule's *)
(* switch to a process.  kernel_main creates processes only before the     *)
(* first switch, while the kernel's own page directory is loaded.          *)
(***************************************************************************)
EXTENDS Paging, Sequences

CONSTANTS
  MaxFrames,     \* bound: the machine has 0 .. MaxFrames free frames
  MaxProcesses,  \* bound: calls of process_create
  HeapPages,     \* page frames that acquire_more_heap takes (2)
  HeapObjects    \* objects that fit into them

ASSUME ProcessAssumption ==
  /\ MaxFrames \in Nat /\ MaxProcesses \in Nat
  /\ HeapPages \in 1 .. PtEntries /\ HeapObjects \in Nat \ {0}

CodeVaddr == 0
StackVaddr == KernelStart - 1    \* PROC_INITIAL_STACK_VADDR

VARIABLES
  mem,      \* page tables and free frames, see Paging
  heap,     \* objects that kmalloc can hand out without more pages
  pc,       \* the block of process_create that is next
  p,        \* the struct process being filled
  procs,    \* the processes that process_create returned
  calls,    \* calls of process_create so far
  cr3,      \* the page directory in use
  esp0,     \* tss.esp0, the page of the kernel stack
  failed,   \* history: some allocation or mapping has failed
  installed \* the frames that the memory map describes

vars == <<mem, heap, pc, p, procs, calls, cr3, esp0, failed, installed>>

NoProcess == [null |-> FALSE, pdt |-> Absent, code |-> Absent, stack |-> Absent,
              kstack |-> Absent, kstack_vaddr |-> Absent]

Init ==
  /\ installed \in {1 .. n : n \in 0 .. MaxFrames}
  /\ \E pages \in 1 .. BootPages, low \in BOOLEAN :
       mem = BootMemory(installed, pages, low)
  /\ heap \in 0 .. (HeapObjects - 1)
  /\ pc = "idle"
  /\ p = NoProcess
  /\ procs = <<>>
  /\ calls = 0
  /\ cr3 = KernelPdt
  /\ esp0 = Absent
  /\ failed = FALSE

-----------------------------------------------------------------------------
(***************************************************************************)
(* kmalloc of a small object: from the free list, or from new pages.  The  *)
(* frames are not given back when one of the later steps fails.            *)
(***************************************************************************)
kmalloc(m, h) ==
  LET alloc == pfa_allocate(m, HeapPages)
      vaddr == pdt_kernel_find_next_vaddr(alloc.m, HeapPages)
      map   == pdt_map_kernel_memory(alloc.m, alloc.ret, vaddr, HeapPages)
  IN  CASE h > 0 -> [ok |-> TRUE, heap |-> h - 1, m |-> m]
        [] h = 0 /\ alloc.ret = 0 -> [ok |-> FALSE, heap |-> h, m |-> m]
        [] h = 0 /\ alloc.ret # 0 /\ vaddr = 0 ->
             [ok |-> FALSE, heap |-> h, m |-> alloc.m]
        [] h = 0 /\ alloc.ret # 0 /\ vaddr # 0 ->
             [ok   |-> map.ret = HeapPages,
              heap |-> IF map.ret = HeapPages THEN HeapObjects - 1 ELSE h,
              m    |-> map.m]

\* process_create returns NULL and forgets what it has.
ReturnNull ==
  /\ pc' = "idle" /\ p' = NoProcess /\ failed' = TRUE
  /\ UNCHANGED <<procs, calls, cr3, esp0>>

(***************************************************************************)
(* The struct.  A NULL from kmalloc is reported and then used: the struct  *)
(* lies at address 0, which boot.s has mapped, and the process's id is the *)
(* first word there.                                                       *)
(***************************************************************************)
create_struct ==
  /\ pc = "idle" /\ cr3 = KernelPdt /\ calls < MaxProcesses
  /\ LET k == kmalloc(mem, heap)
     IN  /\ IF k.ok THEN mem' = k.m
            ELSE \E low \in BOOLEAN : mem' = [k.m EXCEPT !.low = low]
         /\ heap' = k.heap
         /\ p' = [NoProcess EXCEPT !.null = ~k.ok]
         /\ failed' = (failed \/ ~k.ok)
  /\ calls' = calls + 1
  /\ pc' = "pdt"
  /\ UNCHANGED <<procs, cr3, esp0>>

(***************************************************************************)
(* The page directory.  When pdt_create flipped a bit of a page that is    *)
(* not a directory, that page is a stack or part of the heap, and the word *)
(* may be one that the kernel uses: no more is known then.                 *)
(***************************************************************************)
HitsHeap(m) ==
  mem.flipped # m.flipped /\ StrayPage(m) \in installed \ DOMAIN m.pdt

create_pdt ==
  /\ pc = "pdt"
  /\ LET c == pdt_create(mem)
     IN  /\ mem' = c.m
         /\ \/ c.ret \in {Absent, 0} /\ ReturnNull
            \/ /\ HitsHeap(c.m)
               /\ pc' = "undefined" /\ failed' = TRUE
               /\ UNCHANGED <<p, procs, calls, cr3, esp0>>
            \/ /\ c.ret \notin {Absent, 0}
               /\ p' = [p EXCEPT !.pdt = c.ret]
               /\ pc' = "code"
               /\ UNCHANGED <<procs, calls, cr3, esp0, failed>>
  /\ UNCHANGED heap

(***************************************************************************)
(* The code: a frame, mapped into the kernel and unmapped again, then      *)
(* mapped into the process.  No result of this block is acted upon: after  *)
(* a kmalloc that failed, the frame's address is stored at address 0.      *)
(***************************************************************************)
create_code ==
  /\ pc = "code"
  /\ LET alloc == pfa_allocate(mem, 1)
         vaddr == pdt_kernel_find_next_vaddr(alloc.m, 1)
         kmap  == pdt_map_kernel_memory(alloc.m, alloc.ret, vaddr, 1)
         unmap == pdt_unmap_kernel_memory(kmap.m, vaddr)
         map   == pdt_map_memory(unmap.m, p.pdt, alloc.ret, CodeVaddr, 1, PL3)
         k     == kmalloc(map.m, heap)
     IN  IF unmap.ret = "hung"
         THEN /\ pc' = "hung"
              /\ mem' = unmap.m
              /\ failed' = (failed \/ alloc.ret = 0 \/ kmap.ret < 1)
              /\ UNCHANGED <<heap, p>>
         ELSE /\ pc' = "stack"
              /\ mem' = IF k.ok THEN k.m ELSE [k.m EXCEPT !.low = FALSE]
              /\ heap' = k.heap
              /\ p' = [p EXCEPT !.code = alloc.ret]
              /\ failed' = (failed \/ alloc.ret = 0 \/ kmap.ret < 1
                              \/ map.ret < 1 \/ ~k.ok)
  /\ UNCHANGED <<procs, calls, cr3, esp0>>

create_stack ==
  /\ pc = "stack"
  /\ LET alloc == pfa_allocate(mem, 1)
         map   == pdt_map_memory(alloc.m, p.pdt, alloc.ret, StackVaddr, 1, PL3)
         k     == kmalloc(map.m, heap)
     IN  CASE alloc.ret = 0 ->
                ReturnNull /\ UNCHANGED <<mem, heap>>
           [] alloc.ret # 0 /\ map.ret < 1 ->
                ReturnNull /\ mem' = map.m /\ UNCHANGED heap
           [] alloc.ret # 0 /\ map.ret = 1 /\ ~k.ok ->
                ReturnNull /\ mem' = k.m /\ heap' = k.heap
           [] alloc.ret # 0 /\ map.ret = 1 /\ k.ok ->
                /\ mem' = k.m /\ heap' = k.heap
                /\ p' = [p EXCEPT !.stack = alloc.ret]
                /\ pc' = "kernel_stack"
                /\ UNCHANGED <<procs, calls, cr3, esp0, failed>>

create_kernel_stack ==
  /\ pc = "kernel_stack"
  /\ LET alloc == pfa_allocate(mem, 1)
         vaddr == pdt_kernel_find_next_vaddr(alloc.m, 1)
         map   == pdt_map_kernel_memory(alloc.m, alloc.ret, vaddr, 1)
         k     == kmalloc(map.m, heap)
         done  == [p EXCEPT !.kstack = alloc.ret, !.kstack_vaddr = vaddr]
     IN  CASE alloc.ret = 0 ->
                ReturnNull /\ UNCHANGED <<mem, heap>>
           [] alloc.ret # 0 /\ vaddr = 0 ->
                ReturnNull /\ mem' = alloc.m /\ UNCHANGED heap
           [] alloc.ret # 0 /\ vaddr # 0 /\ map.ret # 1 ->
                ReturnNull /\ mem' = map.m /\ UNCHANGED heap
           [] alloc.ret # 0 /\ vaddr # 0 /\ map.ret = 1 /\ ~k.ok ->
                ReturnNull /\ mem' = k.m /\ heap' = k.heap
           [] alloc.ret # 0 /\ vaddr # 0 /\ map.ret = 1 /\ k.ok ->
                /\ mem' = k.m /\ heap' = k.heap
                /\ procs' = IF p.null THEN procs ELSE Append(procs, done)
                /\ p' = NoProcess
                /\ pc' = "idle"
                /\ UNCHANGED <<calls, cr3, esp0, failed>>

\* pdt_unmap_memory does not return, or the kernel's data are destroyed.
hung ==
  /\ pc \in {"hung", "undefined"}
  /\ UNCHANGED vars

(***************************************************************************)
(* The switch to process q in scheduler_schedule.                          *)
(***************************************************************************)
switch_to(q) ==
  /\ pc = "idle"
  /\ esp0' = q.kstack_vaddr
  /\ mem' = pdt_load_process_pdt(mem, q.pdt)
  /\ cr3' = q.pdt
  /\ UNCHANGED <<heap, pc, p, procs, calls, failed>>

\* kernel_main's for (;;) when there is nothing to switch to.
idle ==
  /\ pc = "idle"
  /\ UNCHANGED vars

Next ==
  /\ \/ create_struct \/ create_pdt \/ create_code \/ create_stack
     \/ create_kernel_stack \/ hung \/ idle
     \/ \E k \in DOMAIN procs : switch_to(procs[k])
  /\ UNCHANGED installed

Spec == Init /\ [][Next]_vars

-----------------------------------------------------------------------------
(***************************************************************************)
(* Properties.                                                             *)
(***************************************************************************)
Frames == 1 .. MaxFrames
Entry == Frames \cup {0, Absent, ImagePage, BitmapPage}
Directory == Frames \cup {0, KernelPdt}
Processes == {procs[k] : k \in DOMAIN procs}

\* Page directories, page tables and the pool hold frames of the machine, and
\* what pfa_allocate hands out are frames that the memory map describes.
TypeOK ==
  /\ mem.pool \subseteq Frames
  /\ mem.pdt \in [DOMAIN mem.pdt ->
                    [PdtIdx -> Frames \cup {Absent, KernelPt, Identity}]]
  /\ DOMAIN mem.pdt \subseteq Directory
  /\ mem.pt \in [DOMAIN mem.pt -> [PtIdx -> Entry \cup {KernelPt, Identity}]]
  /\ DOMAIN mem.pt \subseteq Frames \cup {KernelPt}
  /\ heap \in 0 .. HeapObjects
  /\ pc \in {"idle", "pdt", "code", "stack", "kernel_stack", "hung", "undefined"}
  /\ cr3 \in Directory

\* The temporary slot through which page tables are edited is empty again
\* whenever no call is under way: every path out of map and unmap, the
\* failing ones too, restores the entry it found.
TmpRestored == kernel_get_temporary_entry(mem) = Absent

\* The page tables that the directories refer to, the pages they map and
\* the frames that processes own.
Tables == {pde(mem, d, i) : d \in DOMAIN mem.pdt, i \in PdtIdx} \cap Frames
Mapped == {mem.pt[t][j] : t \in Tables \cup {KernelPt}, j \in PtIdx} \cap Frames
Owned == (UNION {{q.pdt, q.code, q.stack, q.kstack} : q \in Processes}) \cap Frames

\* No frame that is still mapped, used as a page table or owned by a process
\* is in the pool, where the next pfa_allocate would hand it out again, and
\* a page table is never mapped as a page.
NoDanglingFrame ==
  /\ mem.pool \cap (Tables \cup Mapped \cup Owned) = {}
  /\ Tables \cap Mapped = {}

Addresses == 0 .. (PdtEntries * PtEntries - 1)

\* The pages that process q can reach in user mode, at any address.
UserPages(q) ==
  {Translate(mem, q.pdt, v) : v \in {a \in Addresses : UserMode(mem, q.pdt, a)}}

KernelPages ==
  {Translate(mem, KernelPdt, v) : v \in {a \in Addresses : a >= KernelStart}}

\* In user mode, a process reaches its own code and stack and nothing else:
\* no page of another process, no page directory, page table or kernel stack,
\* and none of the kernel's pages, though all of these are mapped in its page
\* directory once it is loaded and one of the kernel's entries, that of the
\* bitmap, has the U/S bit by mistake.
Isolated ==
  \A j, k \in DOMAIN procs :
    /\ j # k => UserPages(procs[j]) \cap UserPages(procs[k]) = {}
    /\ UserPages(procs[j]) \subseteq {procs[j].code, procs[j].stack}
    /\ UserPages(procs[j]) \cap (KernelPages \cup Tables) = {}

\* A process that process_create returned can run: its stack is mapped where
\* its esp points and open to user mode, its kernel stack is mapped in the
\* kernel, and its code is where its eip points, although process_create goes
\* on when the frame, the page table or the mapping for the code failed: a
\* later block notices.
\* (Loading the process replaces its entry 0, and with it the code.)
ProcessBuilt ==
  \A q \in Processes :
    /\ Translate(mem, q.pdt, StackVaddr) = q.stack
    /\ UserMode(mem, q.pdt, StackVaddr)
    /\ Translate(mem, KernelPdt, q.kstack_vaddr) = q.kstack
    /\ q.code # 0
    /\ cr3 = KernelPdt => /\ Translate(mem, q.pdt, CodeVaddr) = q.code
                          /\ UserMode(mem, q.pdt, CodeVaddr)

\* The kernel stack that an interrupt in user mode will switch to is mapped
\* in the page directory that is loaded then.
KernelStackReachable ==
  cr3 # KernelPdt =>
    \E q \in Processes : q.pdt = cr3 /\ Translate(mem, cr3, esp0) = q.kstack

\* As long as nothing failed and no process was loaded, every frame is in the
\* pool or in use: the success paths leak nothing.
NoLeak ==
  ~failed /\ cr3 = KernelPdt /\ pc = "idle" =>
    installed = mem.pool \cup Tables \cup Mapped \cup Owned

\* process_create does harm only on a machine that has run out of frames, and
\* that will not have a free one again: only then does it get stuck in
\* pdt_unmap_memory, taking back a mapping that failed, and only then does
\* pfa_free flip a bit of memory that is not the bitmap's.
HarmOnlyOutOfFrames ==
  pc \in {"hung", "undefined"} \/ mem.flipped => failed /\ mem.pool = {}
=============================================================================
