---------------------------- MODULE ProcessProofs ----------------------------
(***************************************************************************)
(* Proofs about process_create and the switch to a process, for every      *)
(* number of frames, calls, entries of tables and pages of the heap.       *)
(***************************************************************************)
EXTENDS Process, PagingProofs

-----------------------------------------------------------------------------
(***************************************************************************)
(* The inductive invariant.                                                *)
(***************************************************************************)
CodeBuilt(m, q) == OpenTo(m, q.pdt, 0, 0, q.code)

StackBuilt(m, q) == OpenTo(m, q.pdt, StackIdx, TmpIdx, q.stack)

KernelStackBuilt(m, q) ==
  \E i \in KernelIdxs : \E j \in PtIdx :
    /\ q.kstack_vaddr = (i * PtEntries) + j
    /\ m.pdt[KernelPdt][i] # Absent
    /\ m.pt[m.pdt[KernelPdt][i]][j] = q.kstack

Struct(F) ==
  [null : {FALSE}, pdt : F, code : F, stack : F, kstack : F, kstack_vaddr : Nat]

IsStruct(q) ==
  q = [null |-> q.null, pdt |-> q.pdt, code |-> q.code, stack |-> q.stack,
       kstack |-> q.kstack, kstack_vaddr |-> q.kstack_vaddr]

\* A process that process_create returned; loading it takes its code away.  The
\* last page of the kernel shows none of its pages.
Complete(m, q) ==
  /\ q.pdt \in Dirs(m)
  /\ {q.pdt, q.code, q.stack, q.kstack} \cap m.pool = {}
  /\ (CodeBuilt(m, q) /\ ~OnLast(m, q.code)) \/ m.pdt[q.pdt][0] = Identity
  /\ StackBuilt(m, q) /\ ~OnLast(m, q.stack)
  /\ KernelStackBuilt(m, q)

ProcsOK(m, s, F) ==
  /\ s \in Seq(Struct(F))
  /\ \A k \in DOMAIN s : Complete(m, s[k])
  /\ \A j, k \in DOMAIN s : j # k => s[j].pdt # s[k].pdt

CodesOK(m, s) == \A k \in DOMAIN s : CodeBuilt(m, s[k])

\* A directory that belongs to no process of s yet.
OwnDir(m, F, s, d) ==
  /\ d \in F /\ d \in Dirs(m) /\ d \notin m.pool
  /\ \A k \in DOMAIN s : s[k].pdt # d

\* The last page shows x only if the kernel has no page left.
LastFull(m, x) == OnLast(m, x) => KernelFull(m)

\* The process q that is being created, when c is the next block.  If its code
\* has no page, the pool is empty, and the next block will fail.  If the kernel
\* still sees its code, through the last page, the kernel has no page left for
\* the kernel stack.
Partial(m, F, s, c, q) ==
  /\ q.null \in BOOLEAN
  /\ c \in {"code", "stack", "kernel_stack"} => OwnDir(m, F, s, q.pdt)
  /\ c = "code" => m.pdt[q.pdt][0] = Absent
  /\ c \in {"code", "stack"} => m.pdt[q.pdt][StackIdx] = Absent
  /\ c = "stack" => m.pool = {} \/ (q.code \in F /\ CodeBuilt(m, q) /\ LastFull(m, q.code))
  /\ c = "kernel_stack" => /\ q.code \in F /\ CodeBuilt(m, q) /\ LastFull(m, q.code)
                           /\ q.stack \in F /\ StackBuilt(m, q) /\ ~OnLast(m, q.stack)

\* The kernel is stuck, or a bit is flipped, only without a free frame.
Harmed(m, c, f) == c \in {"hung", "undefined"} \/ m.flipped => f /\ m.pool = {}

\* The processor uses the kernel's directory or that of a process, which has
\* the kernel's entries then.
Loaded ==
  cr3 # KernelPdt =>
    /\ pc = "idle"
    /\ \E k \in DOMAIN procs :
         /\ cr3 = procs[k].pdt /\ esp0 = procs[k].kstack_vaddr
         /\ \A i \in KernelIdxs : mem.pdt[cr3][i] = mem.pdt[KernelPdt][i]

Inv ==
  /\ installed \subseteq Frames
  /\ heap \in 0 .. HeapObjects
  /\ pc \in {"idle", "pdt", "code", "stack", "kernel_stack", "hung", "undefined"}
  /\ failed \in BOOLEAN
  /\ IsStruct(p)
  /\ Harmed(mem, pc, failed)
  /\ MemOK(mem, installed)
  /\ ProcsOK(mem, procs, installed)
  /\ cr3 = KernelPdt => CodesOK(mem, procs)
  /\ Partial(mem, installed, procs, pc, p)
  /\ Loaded
  /\ (~failed /\ cr3 = KernelPdt) => Accounted(mem, installed)

-----------------------------------------------------------------------------
(***************************************************************************)
(* What stays when the memory changes.                                     *)
(***************************************************************************)

\* The frames are numbers from 1 on.
LEMMA FramesNat ==
  ASSUME installed \subseteq Frames
  PROVE  installed \in SUBSET (Nat \ {0})
BY ProcessAssumption DEF Frames

\* Entries 0 and StackIdx, and the entries of a table that processes use.
LEMMA UserEntries ==
  /\ 0 \in UserIdxs /\ StackIdx \in UserIdxs /\ StackIdx # 0
  /\ 0 \in PdtIdx /\ StackIdx \in PdtIdx /\ 0 \in PtIdx /\ TmpIdx \in PtIdx
  /\ KernelIdxs \subseteq PdtIdx
BY Sizes DEF UserIdxs, StackIdx, PdtIdx, PtIdx, TmpIdx, KernelIdxs

\* A page of a directory that is kept stays where it is, and the last page of the
\* kernel does not come to show it.
LEMMA KeepsOpen ==
  ASSUME NEW m, NEW n, NEW D, Keeps(m, n, D), NEW d \in D, NEW i \in UserIdxs,
         NEW j \in PtIdx, NEW x, OpenTo(m, d, i, j, x)
  PROVE  OpenTo(n, d, i, j, x) /\ (OnLast(n, x) => OnLast(m, x))
<1>1. i \in PdtIdx  BY UserEntries DEF UserIdxs
<1>2. PICK t : t = m.pdt[d][i]  OBVIOUS
<1>3. t \in DOMAIN m.pt /\ m.pt[t][j] = x /\ <<d, i>> \in m.upde /\ <<t, j>> \in m.upte
  BY <1>2 DEF OpenTo
<1>4. n.pdt[d][i] = t /\ <<d, i>> \in n.upde /\ t \in DOMAIN n.pt
  BY <1>1, <1>2, <1>3 DEF Keeps
<1>5. n.pt[t][j] = x /\ <<t, j>> \in n.upte /\ (OnLast(n, x) => OnLast(m, x))
  BY <1>2, <1>3 DEF Keeps
<1>. QED  BY <1>4, <1>5 DEF OpenTo

\* So does a kernel stack.
LEMMA KeepsKernelStack ==
  ASSUME NEW m, NEW n, NEW D, Keeps(m, n, D), NEW q, q.kstack # Absent,
         KernelStackBuilt(m, q)
  PROVE  KernelStackBuilt(n, q)
<1>1. PICK i \in KernelIdxs : \E j \in PtIdx :
        /\ q.kstack_vaddr = (i * PtEntries) + j /\ m.pdt[KernelPdt][i] # Absent
        /\ m.pt[m.pdt[KernelPdt][i]][j] = q.kstack
  BY DEF KernelStackBuilt
<1>2. PICK j \in PtIdx :
        /\ q.kstack_vaddr = (i * PtEntries) + j /\ m.pdt[KernelPdt][i] # Absent
        /\ m.pt[m.pdt[KernelPdt][i]][j] = q.kstack
  BY <1>1
<1>3. n.pdt[KernelPdt][i] = m.pdt[KernelPdt][i]
      /\ n.pt[m.pdt[KernelPdt][i]][j] = q.kstack
  BY <1>2 DEF Keeps
<1>. QED  BY <1>2, <1>3 DEF KernelStackBuilt

\* A complete process whose directory is kept stays complete.
LEMMA KeepsComplete ==
  ASSUME NEW F, F \in SUBSET (Nat \ {0}), NEW m, NEW n, NEW D, D \subseteq Dirs(m),
         Keeps(m, n, D), NEW q \in Struct(F), q.pdt \in D, Complete(m, q)
  PROVE  Complete(n, q) /\ (CodeBuilt(m, q) => CodeBuilt(n, q))
<1>1. q.kstack # Absent  BY FrameKinds DEF Struct
<1>2. KernelStackBuilt(n, q)  BY <1>1, KeepsKernelStack DEF Complete
<1>3. CodeBuilt(m, q) => CodeBuilt(n, q) /\ (OnLast(n, q.code) => OnLast(m, q.code))
  BY UserEntries, KeepsOpen DEF CodeBuilt
<1>4. StackBuilt(n, q) /\ ~OnLast(n, q.stack)
  BY UserEntries, KeepsOpen DEF StackBuilt, Complete
<1>5. n.pdt[q.pdt][0] = m.pdt[q.pdt][0]  BY UserEntries DEF Keeps
<1>6. q.pdt \in Dirs(n) /\ n.pool \subseteq m.pool  BY DEF Keeps, Dirs
<1>. QED  BY <1>2, <1>3, <1>4, <1>5, <1>6 DEF Complete

\* All processes stay as they are when their directories are kept.
LEMMA KeepsProcs ==
  ASSUME NEW F, F \in SUBSET (Nat \ {0}), NEW m, NEW n, NEW D, D \subseteq Dirs(m),
         Keeps(m, n, D), NEW s, ProcsOK(m, s, F), \A k \in DOMAIN s : s[k].pdt \in D
  PROVE  ProcsOK(n, s, F) /\ (CodesOK(m, s) => CodesOK(n, s))
<1>1. ASSUME NEW k \in DOMAIN s
      PROVE  Complete(n, s[k]) /\ (CodeBuilt(m, s[k]) => CodeBuilt(n, s[k]))
  <2>1. PICK q : q = s[k]  OBVIOUS
  <2>2. q \in Struct(F) /\ q.pdt \in D /\ Complete(m, q)  BY <1>1, <2>1 DEF ProcsOK
  <2>3. Complete(n, q) /\ (CodeBuilt(m, q) => CodeBuilt(n, q))  BY <2>2, KeepsComplete
  <2>. QED  BY <2>1, <2>3
<1>. QED  BY <1>1 DEF ProcsOK, CodesOK

\* The same when the directories of all processes are kept.
LEMMA KeepsAllProcs ==
  ASSUME NEW F, F \in SUBSET (Nat \ {0}), NEW m, NEW n, Keeps(m, n, Dirs(m)),
         NEW s, ProcsOK(m, s, F)
  PROVE  ProcsOK(n, s, F) /\ (CodesOK(m, s) => CodesOK(n, s))
<1>1. \A k \in DOMAIN s : s[k].pdt \in Dirs(m)  BY DEF ProcsOK, Complete
<1>2. PICK D : D = Dirs(m)  OBVIOUS
<1>. QED  BY <1>1, <1>2, KeepsProcs

\* The directory of the process that is being created, too.
LEMMA KeepsOwnDir ==
  ASSUME NEW m, NEW n, NEW D, Keeps(m, n, D), NEW F, NEW s, NEW d, OwnDir(m, F, s, d)
  PROVE  OwnDir(n, F, s, d)
BY DEF Keeps, OwnDir, Dirs

\* The whole of what is built of it.
LEMMA KeepsPartial ==
  ASSUME NEW m, NEW n, Keeps(m, n, Dirs(m)), NEW F, NEW s, NEW c, NEW q,
         Partial(m, F, s, c, q)
  PROVE  Partial(n, F, s, c, q)
<1>1. CASE c \in {"code", "stack", "kernel_stack"}
  <2>1. OwnDir(m, F, s, q.pdt) /\ OwnDir(n, F, s, q.pdt)
    BY <1>1, KeepsOwnDir DEF Partial
  <2>2. q.pdt \in Dirs(m)  BY <2>1 DEF OwnDir
  <2>3. /\ n.pdt[q.pdt][0] = m.pdt[q.pdt][0]
        /\ n.pdt[q.pdt][StackIdx] = m.pdt[q.pdt][StackIdx]
        /\ n.pool \subseteq m.pool
    BY <2>2, UserEntries DEF Keeps
  <2>4. /\ CodeBuilt(m, q) => CodeBuilt(n, q) /\ (OnLast(n, q.code) => OnLast(m, q.code))
        /\ StackBuilt(m, q) => StackBuilt(n, q) /\ (OnLast(n, q.stack) => OnLast(m, q.stack))
    BY <2>2, UserEntries, KeepsOpen DEF CodeBuilt, StackBuilt
  <2>5. KernelFull(m) => KernelFull(n)
    <3>1. PICK D : D = Dirs(m)  OBVIOUS
    <3>. QED  BY <3>1, FullKept
  <2>. QED  BY <2>1, <2>3, <2>4, <2>5 DEF Partial, LastFull
<1>2. CASE c \notin {"code", "stack", "kernel_stack"}
  BY <1>2 DEF Partial
<1>. QED  BY <1>1, <1>2

-----------------------------------------------------------------------------
(***************************************************************************)
(* kmalloc.                                                                *)
(***************************************************************************)
KmallocResult(m, k, F) ==
  /\ MemOK(k.m, F) /\ Keeps(m, k.m, Dirs(m)) /\ DOMAIN k.m.pdt = DOMAIN m.pdt
  /\ k.heap \in 0 .. HeapObjects /\ k.ok \in BOOLEAN
  /\ (Accounted(m, F) /\ k.ok) => Accounted(k.m, F)

\* kmalloc, whether or not it succeeds, leaves the memory in order, and takes
\* nothing that it does not use when it succeeds.
LEMMA KmallocOK ==
  ASSUME NEW F, F \in SUBSET (Nat \ {0}), NEW m, MemOK(m, F), NEW h \in 0 .. HeapObjects
  PROVE  KmallocResult(m, kmalloc(m, h), F)
<1>1. PICK k : k = kmalloc(m, h)  OBVIOUS
<1>2. PICK a : a = pfa_allocate(m, HeapPages)  OBVIOUS
<1>3. PICK b : b = a.m  OBVIOUS
<1>4. PICK f : f = a.ret  OBVIOUS
<1>5. PICK v : v = pdt_kernel_find_next_vaddr(b, HeapPages)  OBVIOUS
<1>6. PICK r : r = pdt_map_kernel_memory(b, f, v, HeapPages)  OBVIOUS
<1>7. /\ h > 0 => k = [ok |-> TRUE, heap |-> h - 1, m |-> m]
      /\ (h = 0 /\ f = 0) => k = [ok |-> FALSE, heap |-> h, m |-> m]
      /\ (h = 0 /\ f # 0 /\ v = 0) => k = [ok |-> FALSE, heap |-> h, m |-> b]
      /\ (h = 0 /\ f # 0 /\ v # 0) =>
           k = [ok   |-> r.ret = HeapPages,
                heap |-> IF r.ret = HeapPages THEN HeapObjects - 1 ELSE h,
                m    |-> r.m]
  BY <1>1, <1>2, <1>3, <1>4, <1>5, <1>6 DEF kmalloc
<1>8. HeapPages \in Nat /\ HeapPages > 0 /\ HeapPages <= PtEntries
      /\ HeapObjects \in Nat /\ HeapObjects > 0
  BY ProcessAssumption, Sizes
<1>9. AllocResult(m, a, F, HeapPages)  BY <1>2, <1>8, AllocOK
<1>10. Keeps(m, m, Dirs(m))  BY KeepsSelf
<1>11. CASE h > 0
  <2>1. k.m = m /\ k.heap = h - 1 /\ k.ok = TRUE  BY <1>7, <1>11
  <2>2. h - 1 \in 0 .. HeapObjects  BY <1>8, <1>11
  <2>. QED  BY <2>1, <2>2, <1>1, <1>10 DEF KmallocResult
<1>12. CASE h = 0 /\ f = 0
  <2>1. k.m = m /\ k.heap = h /\ k.ok = FALSE  BY <1>7, <1>12
  <2>. QED  BY <2>1, <1>1, <1>10 DEF KmallocResult
<1>13. CASE h = 0 /\ f # 0
  <2>1. PICK P : P = f .. (f + HeapPages - 1)  OBVIOUS
  <2>2. f \in Nat \ {0} /\ Taken(m, b, F, P)
    BY <2>1, <1>3, <1>4, <1>9, <1>13 DEF AllocResult
  <2>3. /\ MemOK(b, F) /\ Keeps(m, b, Dirs(m)) /\ Fresh(b, F, P) /\ b.pdt = m.pdt
        /\ Accounted(m, F) => AccountedBut(b, F, P)
    BY <2>2 DEF Taken, Shrunk
  <2>4. CASE v = 0
    <3>1. k.m = b /\ k.heap = h /\ k.ok = FALSE  BY <1>7, <1>13, <2>4
    <3>. QED  BY <3>1, <2>3, <1>1 DEF KmallocResult
  <2>5. CASE v # 0
    <3>1. KernelMapResult(b, r, F, f, v, HeapPages)
      BY <2>1, <2>2, <2>3, <2>5, <1>5, <1>6, <1>8, KernelMap
    <3>2. PICK n : n = r.m  OBVIOUS
    <3>3. k.m = n /\ k.ok \in BOOLEAN /\ (k.ok <=> r.ret = HeapPages)
          /\ k.heap = IF r.ret = HeapPages THEN HeapObjects - 1 ELSE h
      <4>1. PICK z : z = (r.ret = HeapPages)  OBVIOUS
      <4>2. z \in BOOLEAN /\ (z <=> r.ret = HeapPages)  BY <4>1, Zenon
      <4>3. k = [ok |-> z, heap |-> IF r.ret = HeapPages THEN HeapObjects - 1 ELSE h,
                 m |-> n]
        BY <4>1, <3>2, <1>7, <1>13, <2>5, Zenon
      <4>4. k.m = n /\ k.ok = z
            /\ k.heap = IF r.ret = HeapPages THEN HeapObjects - 1 ELSE h
        BY <4>3
      <4>. QED  BY <4>2, <4>4, Zenon
    <3>4. k.heap \in 0 .. HeapObjects  BY <3>3, <1>8
    <3>5. CASE r.ret = 0 /\ n = b
      <4>1. ~k.ok  BY <3>3, <3>5, <1>8
      <4>. QED  BY <4>1, <3>3, <3>4, <3>5, <2>3, <1>1 DEF KmallocResult
    <3>6. CASE ~(r.ret = 0 /\ n = b)
      <4>1. /\ MemOK(n, F) /\ Keeps(b, n, Dirs(b)) /\ DOMAIN n.pdt = DOMAIN b.pdt
            /\ AccountedBut(b, F, P) => Accounted(n, F)
        BY <3>1, <3>2, <3>6, <2>1, <2>5 DEF KernelMapResult
      <4>2. Dirs(m) = Dirs(b)  BY <2>3 DEF Dirs
      <4>3. Keeps(m, n, Dirs(m))  BY <4>1, <4>2, <2>3, KeepsTrans
      <4>. QED  BY <4>1, <4>3, <3>3, <3>4, <2>3, <1>1 DEF KmallocResult
    <3>. QED  BY <3>5, <3>6
  <2>. QED  BY <2>4, <2>5
<1>. QED  BY <1>8, <1>11, <1>12, <1>13

-----------------------------------------------------------------------------
(***************************************************************************)
(* The memory after booting.                                               *)
(***************************************************************************)

\* The page tables that boot.s and construct_bitmap leave are in order.
LEMMA BootOK ==
  ASSUME NEW F, F \in SUBSET (Nat \ {0}), NEW b \in 1 .. BootPages, NEW low,
         NEW m, m = BootMemory(F, b, low)
  PROVE  MemOK(m, F) /\ Accounted(m, F) /\ m.flipped = FALSE
<1>1. /\ b \in Nat /\ b < TmpIdx /\ b \in PtIdx /\ TmpIdx \in PtIdx
      /\ KernelIdx \in PdtIdx /\ KernelIdx # 0 /\ 0 \in PdtIdx
  BY PagingAssumption, Sizes DEF PtIdx, PdtIdx, TmpIdx
<1>2. /\ m.flipped = FALSE /\ m.pool = F /\ m.upde = {} /\ m.upte = {<<KernelPt, b>>}
      /\ IsRecord(m) /\ DOMAIN m.pdt = {KernelPdt} /\ DOMAIN m.pt = {KernelPt}
      /\ Matrix(m.pdt, PdtIdx) /\ Matrix(m.pt, PtIdx)
  <2>. DEFINE G(i) == CASE i = 0 -> Identity
                        [] i = KernelIdx -> KernelPt
                        [] i \notin {0, KernelIdx} -> Absent
              H(j) == CASE j < b -> ImagePage
                        [] j = b -> BitmapPage
                        [] j > b -> Absent
  <2>1. PICK r : r = [i \in PdtIdx |-> G(i)]  OBVIOUS
  <2>2. PICK s : s = [j \in PtIdx |-> H(j)]  OBVIOUS
  <2>3. m = [pool |-> F, pdt |-> [d \in {KernelPdt} |-> r], pt |-> [t \in {KernelPt} |-> s],
             upde |-> {}, upte |-> {<<KernelPt, b>>}, low |-> low, flipped |-> FALSE]
    BY <2>1, <2>2, Zenon DEF BootMemory
  <2>. HIDE DEF G, H
  <2>4. r = [i \in PdtIdx |-> r[i]] /\ s = [j \in PtIdx |-> s[j]]  BY <2>1, <2>2
  <2>5. Matrix(m.pdt, PdtIdx) /\ Matrix(m.pt, PtIdx)  BY <2>3, <2>4 DEF Matrix
  <2>. QED  BY <2>3, <2>5 DEF IsRecord
<1>3. /\ m.pdt[KernelPdt][0] = Identity /\ m.pdt[KernelPdt][KernelIdx] = KernelPt
      /\ \A i \in PdtIdx : i \notin {0, KernelIdx} => m.pdt[KernelPdt][i] = Absent
  BY <1>1 DEF BootMemory
<1>4. /\ \A j \in PtIdx : m.pt[KernelPt][j] \in {Absent, ImagePage, BitmapPage}
      /\ m.pt[KernelPt][b] = BitmapPage /\ m.pt[KernelPt][TmpIdx] = Absent
  <2>1. \A j \in PtIdx :
          /\ j < b => m.pt[KernelPt][j] = ImagePage
          /\ j = b => m.pt[KernelPt][j] = BitmapPage
          /\ j > b => m.pt[KernelPt][j] = Absent
    BY <1>1 DEF BootMemory, PtIdx
  <2>2. \A j \in PtIdx : j < b \/ j = b \/ j > b  BY <1>1 DEF PtIdx
  <2>3. TmpIdx > b  BY <1>1 DEF PtIdx
  <2>. QED  BY <2>1, <2>2, <2>3, <1>1
<1>5. Dirs(m) = {}  BY <1>2 DEF Dirs
<1>6. \A x \in F : x \notin {Absent, KernelPdt, KernelPt, Identity, ImagePage, BitmapPage}
  BY FrameKinds
<1>7. Typed(m, F)
  <2>1. \A i \in PdtIdx : m.pdt[KernelPdt][i] \in F \cup {Absent, KernelPt, Identity}
    BY <1>3
  <2>2. m.upte \subseteq (DOMAIN m.pt) \X PtIdx  BY <1>1, <1>2
  <2>. QED  BY <2>1, <2>2, <1>2, <1>4 DEF Typed
<1>8. KernelOK(m)
  <2>1. \A i \in PdtIdx : i < KernelIdx => i # KernelIdx  BY <1>1 DEF PdtIdx
  <2>2. \A i \in PdtIdx : i > KernelIdx => i # KernelIdx /\ i # 0  BY <1>1 DEF PdtIdx
  <2>. QED  BY <2>1, <2>2, <1>3, <1>4 DEF KernelOK
<1>9. DirsOK(m)  BY <1>5 DEF DirsOK
<1>10. TablesUnique(m)
  <2>1. Absent # KernelPt /\ Identity # KernelPt  BY DEF Absent, Identity, KernelPt
  <2>2. \A i \in PdtIdx : m.pdt[KernelPdt][i] = KernelPt => i = KernelIdx
    BY <2>1, <1>3
  <2>. QED  BY <2>2, <1>2 DEF TablesUnique
<1>11. PagesUnique(m, F)
  <2>1. \A j \in PtIdx : m.pt[KernelPt][j] \notin F  BY <1>4, <1>6
  <2>. QED  BY <2>1, <1>2 DEF PagesUnique
<1>12. Apart(m)
  <2>1. KernelPt \notin {Absent, ImagePage, BitmapPage}
    BY DEF KernelPt, Absent, ImagePage, BitmapPage
  <2>2. \A j \in PtIdx : m.pt[KernelPt][j] \in {Absent, ImagePage, BitmapPage}
    BY <1>4
  <2>3. \A t \in DOMAIN m.pt : \A j \in PtIdx : m.pt[t][j] \notin DOMAIN m.pt
    BY <2>1, <2>2, <1>2
  <2>4. \A y \in m.pool : Unused(m, y) /\ y \notin DOMAIN m.pdt
    <3>1. SUFFICES ASSUME NEW y \in m.pool PROVE Unused(m, y) /\ y \notin DOMAIN m.pdt
      OBVIOUS
    <3>2. y \notin {KernelPt, KernelPdt, Absent, ImagePage, BitmapPage}
      BY <3>1, <1>2, <1>6
    <3>. QED  BY <3>2, <2>2, <1>2 DEF Unused
  <2>. QED  BY <2>3, <2>4 DEF Apart
<1>13. UserTables(m)
  <2>1. BitmapPage # Absent  BY DEF BitmapPage, Absent
  <2>. QED  BY <2>1, <1>2, <1>4, <1>5 DEF UserTables
<1>14. Accounted(m, F)  BY <1>2 DEF Accounted
<1>. QED  BY <1>2, <1>7, <1>8, <1>9, <1>10, <1>11, <1>12, <1>13, <1>14 DEF MemOK

\* The invariant holds when kernel_main creates its first process.
LEMMA InitInv == Init => Inv
<1>. SUFFICES ASSUME Init PROVE Inv  OBVIOUS
<1>1. installed \subseteq Frames
  <2>1. PICK n \in 0 .. MaxFrames : installed = 1 .. n  BY DEF Init
  <2>. QED  BY <2>1, ProcessAssumption DEF Frames
<1>2. PICK b \in 1 .. BootPages, low \in BOOLEAN : mem = BootMemory(installed, b, low)
  BY DEF Init
<1>3. MemOK(mem, installed) /\ Accounted(mem, installed) /\ mem.flipped = FALSE
  <2>1. PICK m : m = mem  OBVIOUS
  <2>2. PICK F : F = installed  OBVIOUS
  <2>3. F \in SUBSET (Nat \ {0}) /\ m = BootMemory(F, b, low)
    BY <2>1, <2>2, <1>1, <1>2, FramesNat
  <2>4. MemOK(m, F) /\ Accounted(m, F) /\ m.flipped = FALSE  BY <2>3, BootOK
  <2>. QED  BY <2>1, <2>2, <2>4
<1>4. ProcsOK(mem, procs, installed) /\ CodesOK(mem, procs)
  BY DEF Init, ProcsOK, CodesOK
<1>5. IsStruct(p) /\ p.null \in BOOLEAN  BY DEF Init, NoProcess, IsStruct
<1>6. heap \in 0 .. HeapObjects  BY ProcessAssumption DEF Init
<1>7. Harmed(mem, pc, failed)  BY <1>3 DEF Init, Harmed
<1>. QED  BY <1>1, <1>3, <1>4, <1>5, <1>6, <1>7 DEF Init, Inv, Partial, Loaded

-----------------------------------------------------------------------------
(***************************************************************************)
(* The steps.                                                              *)
(***************************************************************************)

\* While a process is being created, the kernel's directory is in use.
LEMMA Creating ==
  ASSUME Inv, pc # "idle"
  PROVE  cr3 = KernelPdt /\ CodesOK(mem, procs) /\ (~failed => Accounted(mem, installed))
BY DEF Inv, Loaded

\* What a step of process_create has to leave.
LEMMA Rebuild ==
  ASSUME Inv, cr3 = KernelPdt, UNCHANGED <<cr3, installed>>,
         heap' \in 0 .. HeapObjects, failed' \in BOOLEAN, IsStruct(p'),
         pc' \in {"idle", "pdt", "code", "stack", "kernel_stack", "hung", "undefined"},
         Harmed(mem', pc', failed'), MemOK(mem', installed),
         ProcsOK(mem', procs', installed), CodesOK(mem', procs'),
         Partial(mem', installed, procs', pc', p'),
         ~failed' => Accounted(mem', installed)
  PROVE  Inv'
BY DEF Inv, Loaded

\* No bit is flipped and the kernel is not stuck when the memory is kept.
LEMMA KeepsHarmed ==
  ASSUME NEW m, NEW n, NEW D, Keeps(m, n, D), NEW c, NEW f, Harmed(m, c, f),
         NEW e, e \notin {"hung", "undefined"}, NEW g, f => g
  PROVE  Harmed(n, e, g) /\ (n.flipped => n.pool = {})
BY DEF Keeps, Harmed

\* process_create returns NULL: the processes are still there.
LEMMA ReturnNullStep ==
  ASSUME Inv, pc # "idle", ReturnNull, UNCHANGED installed, heap' \in 0 .. HeapObjects,
         mem'.flipped => mem'.pool = {},
         MemOK(mem', installed), ProcsOK(mem', procs, installed), CodesOK(mem', procs)
  PROVE  Inv'
<1>1. cr3 = KernelPdt  BY Creating
<1>2. /\ pc' = "idle" /\ p' = NoProcess /\ failed' = TRUE
      /\ UNCHANGED <<procs, calls, cr3, esp0>>
  BY DEF ReturnNull
<1>3. IsStruct(p') /\ p'.null \in BOOLEAN  BY <1>2 DEF NoProcess, IsStruct
<1>4. Partial(mem', installed, procs', pc', p')  BY <1>2, <1>3 DEF Partial
<1>5. heap' \in 0 .. HeapObjects /\ Harmed(mem', pc', failed')  BY <1>2 DEF Harmed
<1>. QED  BY <1>1, <1>2, <1>3, <1>4, <1>5, Rebuild

\* The first kmalloc of process_create keeps the invariant.
LEMMA StructStep ==
  ASSUME Inv, create_struct, UNCHANGED installed
  PROVE  Inv'
<1>1. PICK m : m = mem  OBVIOUS
<1>2. PICK F : F = installed  OBVIOUS
<1>3. PICK k : k = kmalloc(mem, heap)  OBVIOUS
<1>4. /\ pc = "idle" /\ cr3 = KernelPdt /\ heap' = k.heap
      /\ IF k.ok THEN mem' = k.m ELSE \E low \in BOOLEAN : mem' = [k.m EXCEPT !.low = low]
      /\ p' = [NoProcess EXCEPT !.null = ~k.ok] /\ failed' = (failed \/ ~k.ok)
      /\ pc' = "pdt" /\ UNCHANGED <<procs, cr3, esp0>>
  BY <1>3 DEF create_struct
<1>5. F \in SUBSET (Nat \ {0}) /\ MemOK(m, F) /\ heap \in 0 .. HeapObjects
      /\ ProcsOK(m, procs, F) /\ CodesOK(m, procs) /\ (~failed => Accounted(m, F))
  BY <1>1, <1>2, <1>4, FramesNat DEF Inv
<1>6. KmallocResult(m, k, F)  BY <1>1, <1>3, <1>5, KmallocOK
<1>7. PICK n : n = mem'  OBVIOUS
<1>8. /\ MemOK(n, F) /\ Keeps(m, n, Dirs(m)) /\ k.heap \in 0 .. HeapObjects
      /\ k.ok \in BOOLEAN /\ ((Accounted(m, F) /\ k.ok) => Accounted(n, F))
  <2>1. PICK o : o = k.m  OBVIOUS
  <2>2. /\ MemOK(o, F) /\ Keeps(m, o, Dirs(m)) /\ k.heap \in 0 .. HeapObjects
        /\ k.ok \in BOOLEAN /\ ((Accounted(m, F) /\ k.ok) => Accounted(o, F))
        /\ DOMAIN o.pdt = DOMAIN m.pdt
    BY <1>6, <2>1 DEF KmallocResult
  <2>3. SameTables(o, n)
    <3>1. IsRecord(o)  BY <2>2 DEF MemOK, Typed
    <3>2. CASE k.ok  BY <3>1, <3>2, <2>1, <1>4, <1>7 DEF SameTables
    <3>3. CASE ~k.ok
      <4>1. PICK low \in BOOLEAN : n = [o EXCEPT !.low = low]  BY <3>3, <2>1, <1>4, <1>7
      <4>. QED  BY <4>1, <3>1 DEF SameTables, IsRecord
    <3>. QED  BY <3>2, <3>3
  <2>4. MemOK(n, F) /\ Keeps(o, n, Dirs(o)) /\ (Accounted(o, F) => Accounted(n, F))
    BY <2>2, <2>3, SameOK
  <2>5. PICK D : D = Dirs(m)  OBVIOUS
  <2>6. D \subseteq D /\ Keeps(m, o, D) /\ Keeps(o, n, D)  BY <2>2, <2>4, <2>5 DEF Dirs
  <2>7. Keeps(m, n, D)  BY <2>6, KeepsTrans
  <2>. QED  BY <2>2, <2>4, <2>5, <2>7
<1>9. ProcsOK(n, procs, F) /\ CodesOK(n, procs)  BY <1>5, <1>8, KeepsAllProcs
<1>10. IsStruct(p') /\ p'.null \in BOOLEAN
  <2>1. PICK z : z = ~k.ok  OBVIOUS
  <2>2. z \in BOOLEAN  BY <2>1, <1>8, Zenon
  <2>3. p' = [NoProcess EXCEPT !.null = z]  BY <2>1, <1>4, Zenon
  <2>. QED  BY <2>2, <2>3 DEF NoProcess, IsStruct
<1>11. failed' \in BOOLEAN /\ (~failed' => ~failed /\ k.ok)
  BY <1>4, <1>8, Zenon DEF Inv
<1>12. Partial(n, F, procs, "pdt", p')  BY <1>10 DEF Partial
<1>13. heap' \in 0 .. HeapObjects  BY <1>4, <1>8
<1>14. mem' = n /\ procs' = procs  BY <1>4, <1>7
<1>16. Harmed(mem', pc', failed')
  <2>1. Harmed(m, pc, failed) /\ (failed => failed')  BY <1>1, <1>4, Zenon DEF Inv
  <2>2. pc' \notin {"hung", "undefined"}  BY <1>4
  <2>3. PICK D : D = Dirs(m)  OBVIOUS
  <2>. QED  BY <2>1, <2>2, <2>3, <1>8, <1>14, KeepsHarmed
<1>15. MemOK(mem', installed) /\ ProcsOK(mem', procs', installed)
       /\ CodesOK(mem', procs') /\ Partial(mem', installed, procs', pc', p')
       /\ (~failed' => Accounted(mem', installed))
  BY <1>2, <1>4, <1>5, <1>8, <1>9, <1>11, <1>12, <1>14
<1>. QED  BY <1>4, <1>10, <1>11, <1>13, <1>15, <1>16, Rebuild

\* The tables are all that processes depend on.
LEMMA FlipsProcs ==
  ASSUME NEW F, NEW m, NEW n, Flips(m, n), NEW s, ProcsOK(m, s, F), CodesOK(m, s)
  PROVE  ProcsOK(n, s, F) /\ CodesOK(n, s)
<1>1. /\ n.pool = m.pool /\ n.pdt = m.pdt /\ n.pt = m.pt /\ n.upde = m.upde
      /\ n.upte = m.upte
  BY DEF Flips
<1>2. \A d, i, j, x : OpenTo(m, d, i, j, x) => OpenTo(n, d, i, j, x)  BY <1>1 DEF OpenTo
<1>3. \A x : OnLast(n, x) => OnLast(m, x)  BY <1>1 DEF OnLast
<1>4. \A q : Complete(m, q) => Complete(n, q)
  BY <1>1, <1>2, <1>3 DEF Complete, CodeBuilt, StackBuilt, KernelStackBuilt, Dirs
<1>5. \A q : CodeBuilt(m, q) => CodeBuilt(n, q)  BY <1>2 DEF CodeBuilt
<1>. QED  BY <1>4, <1>5 DEF ProcsOK, CodesOK

\* The call of pdt_create in process_create keeps the invariant, also when it
\* returns address 0.
LEMMA PdtStep ==
  ASSUME Inv, create_pdt, UNCHANGED installed
  PROVE  Inv'
<1>1. PICK m : m = mem  OBVIOUS
<1>2. PICK F : F = installed  OBVIOUS
<1>3. PICK c : c = pdt_create(mem)  OBVIOUS
<1>4. /\ pc = "pdt" /\ mem' = c.m /\ UNCHANGED heap
      /\ \/ c.ret \in {Absent, 0} /\ ReturnNull
         \/ /\ mem.flipped # c.m.flipped /\ pc' = "undefined" /\ failed' = TRUE
            /\ UNCHANGED <<p, procs, calls, cr3, esp0>>
         \/ /\ c.ret \notin {Absent, 0} /\ p' = [p EXCEPT !.pdt = c.ret] /\ pc' = "code"
            /\ UNCHANGED <<procs, calls, cr3, esp0, failed>>
  BY <1>3 DEF create_pdt, HitsHeap
<1>5. F \in SUBSET (Nat \ {0}) /\ MemOK(m, F) /\ heap \in 0 .. HeapObjects
      /\ ProcsOK(m, procs, F) /\ CodesOK(m, procs) /\ (~failed => Accounted(m, F))
      /\ cr3 = KernelPdt /\ Harmed(m, "pdt", failed)
  BY <1>1, <1>2, <1>4, FramesNat, Creating DEF Inv
<1>6. CreateResult(m, c, F)  BY <1>1, <1>3, <1>5, CreateOK
<1>7. PICK n : n = c.m  OBVIOUS
<1>8. MemOK(n, F) /\ ((c.ret = Absent /\ Flips(m, n)) \/ Keeps(m, n, Dirs(m)))
  BY <1>5, <1>6, <1>7, FlipsOK DEF CreateResult
<1>9. ProcsOK(n, procs, F) /\ CodesOK(n, procs)  BY <1>5, <1>8, KeepsAllProcs, FlipsProcs
<1>12. /\ n.flipped => n.pool = {}
       /\ m.flipped # n.flipped => n.pool = {}
  BY <1>5, <1>8 DEF Flips, Keeps, Harmed
<1>10. CASE c.ret \in {Absent, 0} /\ ReturnNull
  <2>2. MemOK(mem', installed) /\ ProcsOK(mem', procs, installed) /\ CodesOK(mem', procs)
    BY <1>2, <1>4, <1>7, <1>8, <1>9
  <2>3. pc # "idle" /\ heap' \in 0 .. HeapObjects /\ (mem'.flipped => mem'.pool = {})
    BY <1>4, <1>5, <1>7, <1>12
  <2>. QED  BY <2>2, <2>3, <1>10, ReturnNullStep
<1>13. CASE /\ mem.flipped # c.m.flipped /\ pc' = "undefined" /\ failed' = TRUE
            /\ UNCHANGED <<p, procs, calls, cr3, esp0>>
  <2>1. mem' = n /\ procs' = procs /\ p' = p /\ heap' = heap  BY <1>4, <1>7, <1>13
  <2>2. IsStruct(p) /\ p.null \in BOOLEAN  BY DEF Inv, Partial
  <2>3. Partial(n, F, procs, "undefined", p)  BY <2>2 DEF Partial
  <2>4. Harmed(n, "undefined", TRUE)  BY <1>1, <1>7, <1>12, <1>13 DEF Harmed
  <2>5. MemOK(mem', installed) /\ ProcsOK(mem', procs', installed)
        /\ CodesOK(mem', procs') /\ Partial(mem', installed, procs', pc', p')
        /\ Harmed(mem', pc', failed')
    BY <2>1, <2>3, <2>4, <1>2, <1>8, <1>9, <1>13
  <2>. QED  BY <2>1, <2>2, <2>5, <1>5, <1>13, Rebuild
<1>11. CASE /\ c.ret \notin {Absent, 0} /\ p' = [p EXCEPT !.pdt = c.ret] /\ pc' = "code"
            /\ UNCHANGED <<procs, calls, cr3, esp0, failed>>
  <2>1. PICK d : d = c.ret  OBVIOUS
  <2>2. /\ d \in F /\ d \notin DOMAIN m.pdt /\ d \notin n.pool
        /\ DOMAIN n.pdt = DOMAIN m.pdt \cup {d}
        /\ \A i \in PdtIdx : n.pdt[d][i] = Absent
        /\ (Accounted(m, F) => Accounted(n, F))
    BY <2>1, <1>6, <1>7, <1>11 DEF CreateResult
  <2>3. /\ p' = [p EXCEPT !.pdt = d] /\ pc' = "code" /\ mem' = n
        /\ UNCHANGED <<procs, calls, cr3, esp0, failed, heap>>
    BY <2>1, <1>4, <1>7, <1>11
  <2>4. IsStruct(p) /\ p.null \in BOOLEAN  BY DEF Inv, Partial
  <2>5. IsStruct(p') /\ p'.null \in BOOLEAN /\ p'.pdt = d  BY <2>3, <2>4 DEF IsStruct
  <2>6. d # KernelPdt  BY <2>2, <1>5, FrameKinds
  <2>7. \A i \in DOMAIN procs : procs[i].pdt # d
    BY <2>2, <1>5 DEF ProcsOK, Complete, Dirs
  <2>8. OwnDir(n, F, procs, d)  BY <2>2, <2>6, <2>7 DEF OwnDir, Dirs
  <2>9. Partial(n, F, procs, "code", p')
    BY <2>2, <2>5, <2>8, UserEntries DEF Partial
  <2>10. failed \in BOOLEAN  BY DEF Inv
  <2>11. MemOK(mem', installed) /\ ProcsOK(mem', procs', installed)
         /\ CodesOK(mem', procs') /\ Partial(mem', installed, procs', pc', p')
         /\ (~failed' => Accounted(mem', installed))
    BY <2>2, <2>3, <2>9, <1>2, <1>5, <1>8, <1>9
  <2>12. Harmed(mem', pc', failed')
    <3>1. Keeps(m, n, Dirs(m))  BY <1>8, <1>11
    <3>. QED  BY <3>1, <2>3, <1>5 DEF Keeps, Harmed
  <2>. QED  BY <2>3, <2>5, <2>10, <2>11, <2>12, <1>5, Rebuild
<1>. QED  BY <1>4, <1>10, <1>11, <1>13

(***************************************************************************)
(* A page x of a process, mapped at entry j of place i of its directory d, *)
(* and the call of kmalloc that follows.                                   *)
(***************************************************************************)
UserPageResult(m, F, d, i, j, x, r, k) ==
  /\ MemOK(r.m, F) /\ Keeps(m, r.m, Dirs(m) \ {d})
  /\ MemOK(k.m, F) /\ Keeps(m, k.m, Dirs(m) \ {d})
  /\ k.heap \in 0 .. HeapObjects /\ k.ok \in BOOLEAN
  /\ \A l \in UserIdxs : l # i =>
       /\ k.m.pdt[d][l] = m.pdt[d][l]
       /\ \A o \in PtIdx : \A y : OpenTo(m, d, l, o, y) =>
            OpenTo(k.m, d, l, o, y) /\ (OnLast(k.m, y) => OnLast(m, y))
  /\ \/ r.ret = 0 /\ m.pool = {}
     \/ r.ret = 1 /\ OpenTo(k.m, d, i, j, x) /\ (OnLast(k.m, x) => OnLast(m, x))
  /\ (AccountedBut(m, F, {x}) /\ r.ret = 1 /\ k.ok) => Accounted(k.m, F)

\* The page is there unless no frame was left for its table, and the other
\* entries of the directory stay.
LEMMA UserPage ==
  ASSUME NEW F, F \in SUBSET (Nat \ {0}), NEW m, MemOK(m, F), NEW d \in Dirs(m),
         NEW i \in UserIdxs, m.pdt[d][i] = Absent, NEW j, j = IF i = 0 THEN 0 ELSE TmpIdx,
         NEW v \in Nat, pdt_idx(v) = i, pt_idx(v) = j, NEW x \in Nat, Fresh(m, F, {x}),
         NEW h \in 0 .. HeapObjects, NEW r, r = pdt_map_memory(m, d, x, v, 1, PL3),
         NEW k, k = kmalloc(r.m, h)
  PROVE  UserPageResult(m, F, d, i, j, x, r, k)
<1>1. UserMapResult(m, r, F, d, i, j, x)  BY UserMap
<1>2. PICK b : b = r.m  OBVIOUS
<1>3. PICK n : n = k.m  OBVIOUS
<1>4. /\ MemOK(b, F) /\ Keeps(m, b, Dirs(m) \ {d}) /\ DOMAIN b.pdt = DOMAIN m.pdt
      /\ \A l \in UserIdxs : l # i => KeepsEntry(m, b, d, l)
      /\ \A y : OnLast(b, y) => OnLast(m, y)
  <2>1. Keeps(m, m, Dirs(m) \ {d})  BY KeepsSelf
  <2>2. \A l : KeepsEntry(m, m, d, l)  BY DEF KeepsEntry
  <2>. QED  BY <2>1, <2>2, <1>1, <1>2 DEF UserMapResult
<1>5. KmallocResult(b, k, F)  BY <1>2, <1>4, KmallocOK
<1>6. /\ MemOK(n, F) /\ Keeps(b, n, Dirs(b)) /\ k.heap \in 0 .. HeapObjects
      /\ k.ok \in BOOLEAN /\ ((Accounted(b, F) /\ k.ok) => Accounted(n, F))
  BY <1>3, <1>5 DEF KmallocResult
<1>7. Dirs(b) = Dirs(m) /\ d \in Dirs(b)  BY <1>4 DEF Dirs
<1>8. Keeps(m, n, Dirs(m) \ {d})
  <2>1. PICK D : D = Dirs(m) \ {d}  OBVIOUS
  <2>2. PICK E : E = Dirs(b)  OBVIOUS
  <2>3. D \subseteq E /\ Keeps(m, b, D) /\ Keeps(b, n, E)
    BY <2>1, <2>2, <1>4, <1>6, <1>7
  <2>4. Keeps(m, n, D)  BY <2>3, KeepsTrans
  <2>. QED  BY <2>1, <2>4
<1>9. ASSUME NEW l \in UserIdxs, l # i
      PROVE  /\ n.pdt[d][l] = m.pdt[d][l]
             /\ \A o \in PtIdx : \A y : OpenTo(m, d, l, o, y) =>
                  OpenTo(n, d, l, o, y) /\ (OnLast(n, y) => OnLast(m, y))
  <2>1. l \in PdtIdx  BY <1>9, UserEntries DEF UserIdxs
  <2>2. KeepsEntry(m, b, d, l)  BY <1>4, <1>9
  <2>3. n.pdt[d][l] = m.pdt[d][l]  BY <2>1, <2>2, <1>6, <1>7 DEF Keeps, KeepsEntry
  <2>4. ASSUME NEW o \in PtIdx, NEW y, OpenTo(m, d, l, o, y)
        PROVE  OpenTo(n, d, l, o, y) /\ (OnLast(n, y) => OnLast(m, y))
    <3>1. OpenTo(b, d, l, o, y)  BY <2>2, <2>4 DEF KeepsEntry, OpenTo
    <3>2. PICK E : E = Dirs(b)  OBVIOUS
    <3>3. OpenTo(n, d, l, o, y) /\ (OnLast(n, y) => OnLast(b, y))
      BY <3>1, <3>2, <2>4, <1>6, <1>7, <1>9, KeepsOpen
    <3>. QED  BY <3>3, <1>4
  <2>. QED  BY <2>3, <2>4
<1>10. j \in PtIdx  BY UserEntries
<1>11. CASE r.ret = 0 /\ r.m = m /\ m.pool = {}
  BY <1>2, <1>3, <1>4, <1>6, <1>8, <1>9, <1>11 DEF UserPageResult
<1>12. CASE ~(r.ret = 0 /\ r.m = m /\ m.pool = {})
  <2>1. /\ r.ret = 1 /\ OpenTo(b, d, i, j, x)
        /\ AccountedBut(m, F, {x}) => Accounted(b, F)
    BY <1>1, <1>2, <1>12 DEF UserMapResult
  <2>2. PICK E : E = Dirs(b)  OBVIOUS
  <2>3. OpenTo(n, d, i, j, x) /\ (OnLast(n, x) => OnLast(b, x))
    BY <2>1, <2>2, <1>6, <1>7, <1>10, KeepsOpen, Zenon
  <2>4. OnLast(n, x) => OnLast(m, x)  BY <2>3, <1>4
  <2>. QED  BY <2>1, <2>3, <2>4, <1>2, <1>3, <1>4, <1>6, <1>8, <1>9 DEF UserPageResult
<1>. QED  BY <1>11, <1>12

(***************************************************************************)
(* The block for the code.  Whatever fails in it, either the code is in    *)
(* place at the end or no frame is left for the stack.                     *)
(***************************************************************************)
CodeResult(m, F, d, x, kmap, unmap, map, k) ==
  /\ MemOK(unmap.m, F) /\ Keeps(m, unmap.m, Dirs(m))
  /\ unmap.ret = "hung" => kmap.ret < 1 /\ unmap.m.pool = {}
  /\ MemOK(k.m, F) /\ Keeps(m, k.m, Dirs(m) \ {d})
  /\ k.heap \in 0 .. HeapObjects /\ k.ok \in BOOLEAN
  /\ k.m.pdt[d][StackIdx] = m.pdt[d][StackIdx]
  /\ k.m.pool = {} \/ (x \in F /\ OpenTo(k.m, d, 0, 0, x) /\ LastFull(k.m, x))
  /\ (Accounted(m, F) /\ x # 0 /\ ~(map.ret < 1) /\ k.ok) => Accounted(k.m, F)

\* The frame x for the code, mapped into the kernel and unmapped again: the
\* memory w that is left.
CodeFrame(m, F, w, x) ==
  /\ MemOK(w, F) /\ Keeps(m, w, Dirs(m)) /\ DOMAIN w.pdt = DOMAIN m.pdt
  /\ Fresh(w, F, {x}) /\ x \in Nat /\ LastFull(w, x)
  /\ m.pool = {} \/ x \in F
  /\ Accounted(m, F) => AccountedBut(w, F, {x})

CopyResult(m, F, x, kmap, unmap) ==
  /\ CodeFrame(m, F, unmap.m, x)
  /\ unmap.ret = "hung" => kmap.ret < 1 /\ unmap.m.pool = {}

\* pfa_allocate, and the copy of the code through a page of the kernel.
LEMMA CodeCopied ==
  ASSUME NEW F, F \in SUBSET (Nat \ {0}), NEW m, MemOK(m, F),
         NEW a, a = pfa_allocate(m, 1), NEW b, b = a.m, NEW x, x = a.ret,
         NEW v, v = pdt_kernel_find_next_vaddr(b, 1),
         NEW kmap, kmap = pdt_map_kernel_memory(b, x, v, 1),
         NEW unmap, unmap = pdt_unmap_kernel_memory(kmap.m, v)
  PROVE  CopyResult(m, F, x, kmap, unmap)
<1>1. AllocOneResult(m, a, F)  BY AllocOneOK
<1>2. /\ MemOK(b, F) /\ Keeps(m, b, Dirs(m)) /\ b.pdt = m.pdt
      /\ x \in F \cup {0} /\ x \in Nat /\ Fresh(b, F, {x})
      /\ x = 0 => m.pool = {}
      /\ x # 0 => Unused(b, x) /\ x \notin b.pool
      /\ (Accounted(m, F) => AccountedBut(b, F, {x}))
  <2>1. CASE x = 0
    <3>1. b = m /\ m.pool = {}  BY <2>1, <1>1 DEF AllocOneResult
    <3>2. Keeps(m, m, Dirs(m))  BY KeepsSelf
    <3>. QED  BY <3>1, <3>2, <2>1 DEF Fresh, Accounted, AccountedBut
  <2>2. CASE x # 0
    <3>1. x \in m.pool /\ x \in Nat /\ Taken(m, b, F, {x})  BY <2>2, <1>1 DEF AllocOneResult
    <3>2. m.pool \subseteq F  BY DEF MemOK, Typed
    <3>. QED  BY <3>1, <3>2, <2>2 DEF Taken, Shrunk
  <2>. QED  BY <2>1, <2>2
<1>3. x .. (x + 1 - 1) = {x} /\ 1 \in Nat /\ 1 > 0 /\ 1 <= PtEntries  BY <1>2, Sizes
<1>4. KernelMapResult(b, kmap, F, x, v, 1)  BY <1>2, <1>3, KernelMap
<1>5. MapUnmapResult(b, kmap, unmap, F, x)  BY <1>2, <1>4, MapUnmap, Zenon
<1>6. PICK w : w = unmap.m  OBVIOUS
<1>7. /\ MemOK(w, F) /\ Keeps(b, w, Dirs(b)) /\ DOMAIN w.pdt = DOMAIN b.pdt
      /\ Fresh(w, F, {x}) /\ (AccountedBut(b, F, {x}) => AccountedBut(w, F, {x}))
      /\ (unmap.ret = "hung" => kmap.ret < 1 /\ b.pool = {}) /\ LastFull(w, x)
  BY <1>5, <1>6, Zenon DEF MapUnmapResult, LastFull
<1>8. Dirs(b) = Dirs(m) /\ DOMAIN w.pdt = DOMAIN m.pdt  BY <1>2, <1>7, Zenon DEF Dirs
<1>9. PICK D : D = Dirs(m)  BY Zenon
<1>10. D \subseteq D /\ Keeps(m, b, D) /\ Keeps(b, w, D)  BY <1>2, <1>7, <1>8, <1>9, Zenon
<1>11. Keeps(m, w, D)  BY <1>10, KeepsTrans, Zenon
<1>12. m.pool = {} \/ x \in F  BY <1>2, Zenon
<1>13. CodeFrame(m, F, w, x)
  BY <1>2, <1>7, <1>8, <1>9, <1>11, <1>12, Zenon DEF CodeFrame
<1>14. b.pool = {} => w.pool = {}  BY <1>10 DEF Keeps
<1>. QED  BY <1>6, <1>7, <1>13, <1>14, Zenon DEF CopyResult

CodePlaced(m, F, d, x, map, k) ==
  /\ MemOK(k.m, F) /\ Keeps(m, k.m, Dirs(m) \ {d})
  /\ k.heap \in 0 .. HeapObjects /\ k.ok \in BOOLEAN
  /\ k.m.pdt[d][StackIdx] = m.pdt[d][StackIdx]
  /\ k.m.pool = {} \/ (x \in F /\ OpenTo(k.m, d, 0, 0, x) /\ LastFull(k.m, x))
  /\ (Accounted(m, F) /\ ~(map.ret < 1) /\ k.ok) => Accounted(k.m, F)

\* What the two pieces come to: the page of the kernel and that of the process.
LEMMA CodeMapped ==
  ASSUME NEW F, NEW m, NEW d \in Dirs(m), NEW x, NEW w, CodeFrame(m, F, w, x),
         NEW map, NEW k, UserPageResult(w, F, d, 0, 0, x, map, k)
  PROVE  CodePlaced(m, F, d, x, map, k)
<1>1. PICK n : n = k.m  OBVIOUS
<1>2. PICK D : D = Dirs(m) \ {d}  OBVIOUS
<1>3. Dirs(w) = Dirs(m)  BY DEF CodeFrame, Dirs
<1>4. StackIdx \in UserIdxs /\ StackIdx # 0 /\ StackIdx \in PdtIdx
  BY UserEntries DEF UserIdxs
<1>5. /\ Keeps(w, n, D) /\ n.pdt[d][StackIdx] = w.pdt[d][StackIdx]
      /\ w.pool = {} \/ (OpenTo(n, d, 0, 0, x) /\ (OnLast(n, x) => OnLast(w, x)))
      /\ (AccountedBut(w, F, {x}) /\ map.ret = 1 /\ k.ok) => Accounted(n, F)
  BY <1>1, <1>2, <1>3, <1>4 DEF UserPageResult
<1>6. Keeps(m, w, D)  BY <1>2 DEF CodeFrame, Keeps
<1>7. w.pdt[d][StackIdx] = m.pdt[d][StackIdx]  BY <1>4 DEF CodeFrame, Keeps
<1>8. Keeps(m, n, D)  BY <1>5, <1>6, KeepsTrans
<1>9. n.pool = {} \/ (x \in F /\ OpenTo(n, d, 0, 0, x) /\ LastFull(n, x))
  <2>1. n.pool \subseteq w.pool /\ w.pool \subseteq m.pool  BY <1>5, <1>6 DEF Keeps
  <2>2. (m.pool = {} \/ x \in F) /\ (OnLast(w, x) => KernelFull(w))
    BY DEF CodeFrame, LastFull
  <2>3. KernelFull(w) => KernelFull(n)  BY <1>5, FullKept
  <2>. QED  BY <2>1, <2>2, <2>3, <1>5 DEF LastFull
<1>10. (Accounted(m, F) /\ ~(map.ret < 1) /\ k.ok) => Accounted(n, F)
  <2>1. map.ret = 0 \/ map.ret = 1  BY DEF UserPageResult
  <2>2. ~(map.ret < 1) => map.ret = 1  BY <2>1
  <2>3. Accounted(m, F) => AccountedBut(w, F, {x})  BY DEF CodeFrame
  <2>. QED  BY <2>2, <2>3, <1>5
<1>11. MemOK(n, F) /\ k.heap \in 0 .. HeapObjects /\ k.ok \in BOOLEAN
  BY <1>1 DEF UserPageResult
<1>. QED  BY <1>1, <1>2, <1>5, <1>7, <1>8, <1>9, <1>10, <1>11 DEF CodePlaced

\* What the block comes to.
LEMMA CodeBlock ==
  ASSUME NEW F, F \in SUBSET (Nat \ {0}), NEW m, MemOK(m, F), NEW d \in Dirs(m),
         m.pdt[d][0] = Absent, NEW h \in 0 .. HeapObjects,
         NEW x, NEW kmap, NEW unmap, NEW w, w = unmap.m,
         CodeFrame(m, F, w, x), unmap.ret = "hung" => kmap.ret < 1 /\ w.pool = {},
         NEW map, map = pdt_map_memory(w, d, x, CodeVaddr, 1, PL3),
         NEW k, k = kmalloc(map.m, h)
  PROVE  CodeResult(m, F, d, x, kmap, unmap, map, k)
<1>1. /\ MemOK(w, F) /\ Keeps(m, w, Dirs(m)) /\ Fresh(w, F, {x}) /\ x \in Nat
      /\ d \in Dirs(w)
  BY Zenon DEF CodeFrame, Dirs
<1>2. PICK i : i = 0  BY Zenon
<1>3. PICK c : c = CodeVaddr  BY Zenon
<1>4. i \in UserIdxs /\ 0 \in UserIdxs /\ (i = IF i = 0 THEN 0 ELSE TmpIdx) /\ i \in PdtIdx
  BY <1>2, UserEntries DEF UserIdxs
<1>5. c \in Nat /\ pdt_idx(c) = i /\ pt_idx(c) = i
  BY <1>2, <1>3, ZeroAddress DEF CodeVaddr
<1>6. w.pdt[d][i] = Absent
  <2>1. w.pdt[d][i] = m.pdt[d][i]  BY <1>1, <1>4, Zenon DEF Keeps
  <2>. QED  BY <2>1, <1>2, Zenon
<1>7. map = pdt_map_memory(w, d, x, c, 1, PL3)  BY <1>3, Zenon
<1>8. UserPageResult(w, F, d, i, i, x, map, k)
  BY <1>1, <1>4, <1>5, <1>6, <1>7, UserPage, Zenon
<1>9. UserPageResult(w, F, d, 0, 0, x, map, k)  BY <1>2, <1>8, Zenon
<1>10. CodePlaced(m, F, d, x, map, k)  BY <1>9, CodeMapped, Zenon
<1>. QED  BY <1>1, <1>10, Zenon DEF CodeResult, CodePlaced

\* process_load_code keeps the invariant on each of its paths.
LEMMA CodeStep ==
  ASSUME Inv, create_code, UNCHANGED installed
  PROVE  Inv'
<1>1. PICK m : m = mem  OBVIOUS
<1>2. PICK F : F = installed  OBVIOUS
<1>3. PICK d : d = p.pdt  OBVIOUS
<1>4. PICK h : h = heap  OBVIOUS
<1>5. PICK a : a = pfa_allocate(m, 1)  OBVIOUS
<1>6. PICK b : b = a.m  OBVIOUS
<1>7. PICK x : x = a.ret  OBVIOUS
<1>8. PICK v : v = pdt_kernel_find_next_vaddr(b, 1)  OBVIOUS
<1>9. PICK kmap : kmap = pdt_map_kernel_memory(b, x, v, 1)  OBVIOUS
<1>10. PICK unmap : unmap = pdt_unmap_kernel_memory(kmap.m, v)  OBVIOUS
<1>11. PICK w : w = unmap.m  OBVIOUS
<1>12. PICK map : map = pdt_map_memory(w, d, x, CodeVaddr, 1, PL3)  OBVIOUS
<1>13. PICK k : k = kmalloc(map.m, h)  OBVIOUS
<1>14. /\ pc = "code"
       /\ IF unmap.ret = "hung"
          THEN /\ pc' = "hung" /\ mem' = w
               /\ failed' = (failed \/ x = 0 \/ kmap.ret < 1)
               /\ UNCHANGED <<heap, p>>
          ELSE /\ pc' = "stack" /\ heap' = k.heap
               /\ mem' = IF k.ok THEN k.m ELSE [k.m EXCEPT !.low = FALSE]
               /\ p' = [p EXCEPT !.code = x]
               /\ failed' = (failed \/ x = 0 \/ kmap.ret < 1 \/ map.ret < 1 \/ ~k.ok)
       /\ UNCHANGED <<procs, calls, cr3, esp0>>
  BY <1>1, <1>3, <1>4, <1>5, <1>6, <1>7, <1>8, <1>9, <1>10, <1>11, <1>12, <1>13, Zenon
     DEF create_code
<1>15. F \in SUBSET (Nat \ {0}) /\ MemOK(m, F) /\ h \in 0 .. HeapObjects
       /\ ProcsOK(m, procs, F) /\ CodesOK(m, procs) /\ (~failed => Accounted(m, F))
       /\ cr3 = KernelPdt /\ failed \in BOOLEAN /\ IsStruct(p)
       /\ Partial(m, F, procs, "code", p) /\ Harmed(m, "code", failed)
  BY <1>1, <1>2, <1>4, <1>14, FramesNat, Creating DEF Inv
<1>16. /\ OwnDir(m, F, procs, d) /\ d \in Dirs(m) /\ m.pdt[d][0] = Absent
       /\ m.pdt[d][StackIdx] = Absent /\ p.null \in BOOLEAN
  BY <1>3, <1>15 DEF Partial, OwnDir
<1>17. CodeResult(m, F, d, x, kmap, unmap, map, k)
  <2>1. CopyResult(m, F, x, kmap, unmap)
    BY <1>5, <1>6, <1>7, <1>8, <1>9, <1>10, <1>15, CodeCopied, Zenon
  <2>2. CodeFrame(m, F, w, x) /\ (unmap.ret = "hung" => kmap.ret < 1 /\ w.pool = {})
    BY <2>1, <1>11, Zenon DEF CopyResult
  <2>. QED  BY <2>2, <1>11, <1>12, <1>13, <1>15, <1>16, CodeBlock, Zenon
<1>18. CASE unmap.ret = "hung"
  <2>1. MemOK(w, F) /\ Keeps(m, w, Dirs(m)) /\ kmap.ret < 1 /\ w.pool = {}
    BY <1>11, <1>17, <1>18 DEF CodeResult
  <2>2. ProcsOK(w, procs, F) /\ CodesOK(w, procs)  BY <2>1, <1>15, KeepsAllProcs
  <2>3. pc' = "hung" /\ mem' = w /\ UNCHANGED <<heap, p, procs, cr3>>
    BY <1>14, <1>18
  <2>4. failed' = TRUE
    <3>1. failed' = (failed \/ x = 0 \/ kmap.ret < 1)  BY <1>14, <1>18
    <3>. QED  BY <3>1, <2>1, Zenon
  <2>5. Partial(w, F, procs, "hung", p)  BY <1>16 DEF Partial
  <2>6. heap' \in 0 .. HeapObjects /\ IsStruct(p') /\ procs' = procs
    BY <2>3, <1>4, <1>15
  <2>7. MemOK(mem', installed) /\ ProcsOK(mem', procs', installed)
        /\ CodesOK(mem', procs') /\ Partial(mem', installed, procs', pc', p')
        /\ Harmed(mem', pc', failed')
    BY <2>1, <2>2, <2>3, <2>4, <2>5, <2>6, <1>2 DEF Harmed
  <2>. QED  BY <2>3, <2>4, <2>6, <2>7, <1>15, Rebuild
<1>19. CASE unmap.ret # "hung"
  <2>1. PICK n : n = mem'  OBVIOUS
  <2>2. /\ MemOK(n, F) /\ Keeps(m, n, Dirs(m) \ {d})
        /\ k.heap \in 0 .. HeapObjects /\ k.ok \in BOOLEAN
        /\ n.pdt[d][StackIdx] = m.pdt[d][StackIdx]
        /\ n.pool = {} \/ (x \in F /\ OpenTo(n, d, 0, 0, x) /\ LastFull(n, x))
        /\ ((Accounted(m, F) /\ x # 0 /\ ~(map.ret < 1) /\ k.ok) => Accounted(n, F))
    <3>1. PICK o : o = k.m  OBVIOUS
    <3>2. /\ MemOK(o, F) /\ Keeps(m, o, Dirs(m) \ {d})
          /\ k.heap \in 0 .. HeapObjects /\ k.ok \in BOOLEAN
          /\ o.pdt[d][StackIdx] = m.pdt[d][StackIdx]
          /\ o.pool = {} \/ (x \in F /\ OpenTo(o, d, 0, 0, x) /\ LastFull(o, x))
          /\ ((Accounted(m, F) /\ x # 0 /\ ~(map.ret < 1) /\ k.ok) => Accounted(o, F))
      BY <3>1, <1>17 DEF CodeResult
    <3>3. SameTables(o, n)
      <4>1. IsRecord(o)  BY <3>2 DEF MemOK, Typed
      <4>2. n = o \/ n = [o EXCEPT !.low = FALSE]  BY <3>1, <2>1, <1>14, <1>19
      <4>. QED  BY <4>1, <4>2 DEF SameTables, IsRecord
    <3>4. MemOK(n, F) /\ (Accounted(o, F) => Accounted(n, F))  BY <3>2, <3>3, SameOK
    <3>5. /\ n.pool = o.pool /\ n.pdt = o.pdt /\ n.pt = o.pt /\ n.upde = o.upde
          /\ n.upte = o.upte /\ n.flipped = o.flipped
      BY <3>3 DEF SameTables
    <3>6. OnLast(n, x) => OnLast(o, x)  BY <3>5 DEF OnLast
    <3>7. KernelFull(o) => KernelFull(n)  BY <3>5 DEF KernelFull
    <3>8. OpenTo(o, d, 0, 0, x) => OpenTo(n, d, 0, 0, x)  BY <3>5 DEF OpenTo
    <3>9. PICK D : D = Dirs(m) \ {d}  OBVIOUS
    <3>10. Keeps(o, n, D)  BY <3>5 DEF Keeps, OnLast
    <3>11. D \subseteq D /\ Keeps(m, o, D)  BY <3>2, <3>9
    <3>12. Keeps(m, n, D)  BY <3>10, <3>11, KeepsTrans
    <3>. QED  BY <3>2, <3>4, <3>5, <3>6, <3>7, <3>8, <3>9, <3>12 DEF LastFull
  <2>3. /\ pc' = "stack" /\ mem' = n /\ heap' = k.heap /\ p' = [p EXCEPT !.code = x]
        /\ UNCHANGED <<procs, cr3>>
    BY <2>1, <1>14, <1>19
  <2>4. /\ failed' \in BOOLEAN /\ (failed => failed')
        /\ ~failed' => ~failed /\ x # 0 /\ ~(map.ret < 1) /\ k.ok
    <3>1. failed' = (failed \/ x = 0 \/ kmap.ret < 1 \/ map.ret < 1 \/ ~k.ok)
      BY <1>14, <1>19
    <3>. QED  BY <3>1, <1>15, <2>2, Zenon
  <2>5. IsStruct(p') /\ p'.null = p.null /\ p'.pdt = d /\ p'.code = x
    BY <2>3, <1>3, <1>15 DEF IsStruct
  <2>6. ProcsOK(n, procs, F) /\ CodesOK(n, procs)
    <3>1. \A o \in DOMAIN procs : procs[o].pdt \in Dirs(m) \ {d}
      BY <1>15, <1>16 DEF OwnDir, ProcsOK, Complete
    <3>2. PICK D : D = Dirs(m) \ {d}  OBVIOUS
    <3>3. D \subseteq Dirs(m) /\ Keeps(m, n, D) /\ \A o \in DOMAIN procs : procs[o].pdt \in D
      BY <3>1, <3>2, <2>2
    <3>. QED  BY <3>3, <1>15, KeepsProcs
  <2>7. OwnDir(n, F, procs, d)
    <3>1. PICK D : D = Dirs(m) \ {d}  OBVIOUS
    <3>. QED  BY <3>1, <2>2, <1>16, KeepsOwnDir
  <2>8. Partial(n, F, procs, "stack", p')
    BY <2>2, <2>5, <2>7, <1>16 DEF Partial, CodeBuilt
  <2>9. heap' \in 0 .. HeapObjects /\ procs' = procs  BY <2>2, <2>3
  <2>10. MemOK(mem', installed) /\ ProcsOK(mem', procs', installed)
         /\ CodesOK(mem', procs') /\ Partial(mem', installed, procs', pc', p')
         /\ (~failed' => Accounted(mem', installed))
    BY <2>2, <2>3, <2>4, <2>6, <2>8, <2>9, <1>2, <1>15
  <2>11. Harmed(mem', pc', failed')
    <3>1. Harmed(n, "stack", failed')  BY <2>2, <2>4, <1>15 DEF Keeps, Harmed
    <3>. QED  BY <3>1, <2>3
  <2>. QED  BY <2>3, <2>4, <2>5, <2>9, <2>10, <2>11, <1>15, Rebuild
<1>. QED  BY <1>18, <1>19

(***************************************************************************)
(* The block for the stack.                                                *)
(***************************************************************************)
LEMMA StackStep ==
  ASSUME Inv, create_stack, UNCHANGED installed
  PROVE  Inv'
<1>1. PICK m : m = mem  OBVIOUS
<1>2. PICK F : F = installed  OBVIOUS
<1>3. PICK d : d = p.pdt  OBVIOUS
<1>4. PICK h : h = heap  OBVIOUS
<1>5. PICK a : a = pfa_allocate(m, 1)  OBVIOUS
<1>6. PICK b : b = a.m  OBVIOUS
<1>7. PICK x : x = a.ret  OBVIOUS
<1>8. PICK v : v = StackVaddr  OBVIOUS
<1>9. PICK map : map = pdt_map_memory(b, d, x, v, 1, PL3)  OBVIOUS
<1>10. PICK k : k = kmalloc(map.m, h)  OBVIOUS
<1>11. pc = "stack"  BY DEF create_stack
<1>12. /\ x = 0 => ReturnNull /\ UNCHANGED <<mem, heap>>
       /\ (x # 0 /\ map.ret < 1) => ReturnNull /\ mem' = map.m /\ UNCHANGED heap
       /\ (x # 0 /\ map.ret = 1 /\ ~k.ok) => ReturnNull /\ mem' = k.m /\ heap' = k.heap
       /\ (x # 0 /\ map.ret = 1 /\ k.ok) =>
            /\ mem' = k.m /\ heap' = k.heap /\ p' = [p EXCEPT !.stack = x]
            /\ pc' = "kernel_stack" /\ UNCHANGED <<procs, calls, cr3, esp0, failed>>
  <2>1. (CASE x = 0 -> ReturnNull /\ UNCHANGED <<mem, heap>>
          [] x # 0 /\ map.ret < 1 -> ReturnNull /\ mem' = map.m /\ UNCHANGED heap
          [] x # 0 /\ map.ret = 1 /\ ~k.ok -> ReturnNull /\ mem' = k.m /\ heap' = k.heap
          [] x # 0 /\ map.ret = 1 /\ k.ok ->
               /\ mem' = k.m /\ heap' = k.heap /\ p' = [p EXCEPT !.stack = x]
               /\ pc' = "kernel_stack" /\ UNCHANGED <<procs, calls, cr3, esp0, failed>>)
    BY <1>1, <1>3, <1>4, <1>5, <1>6, <1>7, <1>8, <1>9, <1>10, Zenon DEF create_stack
  <2>2. ~(map.ret < 1 /\ map.ret = 1)  OBVIOUS
  <2>. QED  BY <2>1, <2>2, Zenon
<1>13. F \in SUBSET (Nat \ {0}) /\ MemOK(m, F) /\ h \in 0 .. HeapObjects
       /\ ProcsOK(m, procs, F) /\ CodesOK(m, procs) /\ (~failed => Accounted(m, F))
       /\ cr3 = KernelPdt /\ failed \in BOOLEAN /\ IsStruct(p) /\ pc # "idle"
       /\ Partial(m, F, procs, "stack", p) /\ Harmed(m, "stack", failed)
  BY <1>1, <1>2, <1>4, <1>11, FramesNat, Creating DEF Inv
<1>14. /\ OwnDir(m, F, procs, d) /\ d \in Dirs(m) /\ m.pdt[d][StackIdx] = Absent
       /\ p.null \in BOOLEAN
       /\ m.pool = {} \/ (p.code \in F /\ CodeBuilt(m, p) /\ LastFull(m, p.code))
  BY <1>3, <1>13 DEF Partial, OwnDir
<1>15. AllocOneResult(m, a, F)  BY <1>5, <1>13, AllocOneOK
<1>16. CASE x = 0
  <2>1. ReturnNull /\ UNCHANGED <<mem, heap>>  BY <1>12, <1>16
  <2>2. MemOK(mem', installed) /\ ProcsOK(mem', procs, installed) /\ CodesOK(mem', procs)
        /\ heap' \in 0 .. HeapObjects /\ (mem'.flipped => mem'.pool = {})
    BY <2>1, <1>1, <1>2, <1>4, <1>13 DEF Harmed
  <2>. QED  BY <2>1, <2>2, <1>13, ReturnNullStep
<1>17. CASE x # 0
  <2>1. x \in m.pool /\ x \in Nat /\ Taken(m, b, F, {x}) /\ x \in F
    BY <1>6, <1>7, <1>13, <1>15, <1>17 DEF AllocOneResult, MemOK, Typed
  <2>2. /\ MemOK(b, F) /\ Fresh(b, F, {x}) /\ b.pdt = m.pdt /\ Keeps(m, b, Dirs(m))
        /\ Dirs(b) = Dirs(m) /\ (Accounted(m, F) => AccountedBut(b, F, {x}))
    BY <2>1 DEF Taken, Shrunk, Dirs
  <2>3. v \in Nat /\ pdt_idx(v) = StackIdx /\ pt_idx(v) = TmpIdx
    BY <1>8, BelowKernel DEF StackVaddr
  <2>4. PICK i : i = StackIdx  OBVIOUS
  <2>5. PICK j : j = TmpIdx  OBVIOUS
  <2>6. /\ i \in UserIdxs /\ b.pdt[d][i] = Absent /\ j = IF i = 0 THEN 0 ELSE TmpIdx
        /\ pdt_idx(v) = i /\ pt_idx(v) = j /\ d \in Dirs(b)
    BY <2>2, <2>3, <2>4, <2>5, <1>14, UserEntries
  <2>7. UserPageResult(b, F, d, i, j, x, map, k)
    BY <2>1, <2>2, <2>3, <2>6, <1>9, <1>10, <1>13, UserPage
  <2>8. PICK D : D = Dirs(m) \ {d}  OBVIOUS
  <2>9. D \subseteq Dirs(m) /\ \A o \in DOMAIN procs : procs[o].pdt \in D
    BY <2>8, <1>13, <1>14 DEF OwnDir, ProcsOK, Complete
  <2>10. Keeps(m, b, D)  BY <2>2, <2>9 DEF Keeps
  <2>11. PICK n : n = k.m  OBVIOUS
  <2>12. PICK w : w = map.m  OBVIOUS
  <2>13. MemOK(w, F) /\ MemOK(n, F) /\ Keeps(b, w, D) /\ Keeps(b, n, D)
         /\ k.heap \in 0 .. HeapObjects /\ k.ok \in BOOLEAN /\ map.ret \in {0, 1}
    BY <2>2, <2>7, <2>8, <2>11, <2>12 DEF UserPageResult
  <2>14. Keeps(m, w, D) /\ Keeps(m, n, D)  BY <2>10, <2>13, KeepsTrans
  <2>15. /\ ProcsOK(w, procs, F) /\ CodesOK(w, procs)
         /\ ProcsOK(n, procs, F) /\ CodesOK(n, procs)
    BY <2>9, <2>14, <1>13, KeepsProcs
  <2>20. /\ w.flipped => w.pool = {}
         /\ Harmed(n, "kernel_stack", failed) /\ (n.flipped => n.pool = {})
    BY <2>14, <1>13 DEF Keeps, Harmed
  <2>16. CASE map.ret < 1
    <3>1. ReturnNull /\ mem' = w /\ UNCHANGED heap  BY <2>12, <2>16, <1>12, <1>17
    <3>2. MemOK(mem', installed) /\ ProcsOK(mem', procs, installed)
          /\ CodesOK(mem', procs) /\ heap' \in 0 .. HeapObjects
          /\ (mem'.flipped => mem'.pool = {})
      BY <3>1, <2>13, <2>15, <2>20, <1>2, <1>4, <1>13
    <3>. QED  BY <3>1, <3>2, <1>13, ReturnNullStep
  <2>17. CASE map.ret = 1 /\ ~k.ok
    <3>1. ReturnNull /\ mem' = n /\ heap' = k.heap  BY <2>11, <2>17, <1>12, <1>17
    <3>2. MemOK(mem', installed) /\ ProcsOK(mem', procs, installed)
          /\ CodesOK(mem', procs) /\ heap' \in 0 .. HeapObjects
          /\ (mem'.flipped => mem'.pool = {})
      BY <3>1, <2>13, <2>15, <2>20, <1>2
    <3>. QED  BY <3>1, <3>2, <1>13, ReturnNullStep
  <2>18. CASE map.ret = 1 /\ k.ok
    <3>1. /\ mem' = n /\ heap' = k.heap /\ p' = [p EXCEPT !.stack = x]
          /\ pc' = "kernel_stack" /\ UNCHANGED <<procs, calls, cr3, esp0, failed>>
      BY <2>11, <2>18, <1>12, <1>17
    <3>2. /\ OpenTo(n, d, StackIdx, TmpIdx, x) /\ (OnLast(n, x) => OnLast(b, x))
          /\ \A y : OpenTo(b, d, 0, 0, y) =>
               OpenTo(n, d, 0, 0, y) /\ (OnLast(n, y) => OnLast(b, y))
          /\ (AccountedBut(b, F, {x}) => Accounted(n, F))
      BY <2>4, <2>5, <2>7, <2>11, <2>18, UserEntries DEF UserPageResult
    <3>3. p.code \in F /\ OpenTo(m, d, 0, 0, p.code) /\ LastFull(m, p.code)
      BY <2>1, <1>3, <1>14 DEF CodeBuilt
    <3>4. OpenTo(n, d, 0, 0, p.code) /\ LastFull(n, p.code)
      <4>1. OpenTo(b, d, 0, 0, p.code)  BY <3>3, <2>1 DEF OpenTo, Taken, Shrunk
      <4>2. OnLast(b, p.code) => OnLast(m, p.code)  BY <2>1 DEF OnLast, Taken, Shrunk
      <4>3. KernelFull(m) => KernelFull(n)  BY <2>14, FullKept
      <4>. QED  BY <4>1, <4>2, <4>3, <3>2, <3>3 DEF LastFull
    <3>9. ~OnLast(n, x)
      <4>1. ~OnLast(b, x)  BY <2>1, UserEntries DEF OnLast, Taken, Unused
      <4>. QED  BY <4>1, <3>2
    <3>5. /\ IsStruct(p') /\ p'.null = p.null /\ p'.pdt = d /\ p'.code = p.code
          /\ p'.stack = x
      BY <3>1, <1>3, <1>13 DEF IsStruct
    <3>6. OwnDir(n, F, procs, d)  BY <2>14, <1>14, KeepsOwnDir
    <3>7. Partial(n, F, procs, "kernel_stack", p')
      BY <3>2, <3>3, <3>4, <3>5, <3>6, <3>9, <2>1, <1>14 DEF Partial, CodeBuilt, StackBuilt
    <3>8. MemOK(mem', installed) /\ ProcsOK(mem', procs', installed)
          /\ CodesOK(mem', procs') /\ Partial(mem', installed, procs', pc', p')
          /\ (~failed' => Accounted(mem', installed))
      BY <3>1, <3>2, <3>7, <2>2, <2>13, <2>15, <1>2, <1>13
    <3>10. Harmed(mem', pc', failed')  BY <3>1, <2>20
    <3>. QED  BY <3>1, <3>5, <3>8, <3>10, <2>13, <1>13, Rebuild
  <2>19. map.ret < 1 \/ map.ret = 1  BY <2>13
  <2>. QED  BY <2>16, <2>17, <2>18, <2>19
<1>. QED  BY <1>16, <1>17

(***************************************************************************)
(* The block for the kernel stack.                                         *)
(***************************************************************************)

KernelPageResult(m, r, F, x, v) ==
  /\ r.ret = 1 /\ v \in Nat /\ MemOK(r.m, F) /\ Keeps(m, r.m, Dirs(m))
  /\ DOMAIN r.m.pdt = DOMAIN m.pdt
  /\ AccountedBut(m, F, {x}) => Accounted(r.m, F)
  /\ \A q : (q.kstack = x /\ q.kstack_vaddr = v) => KernelStackBuilt(r.m, q)

\* Where the kernel stack is after a successful mapping.
LEMMA KernelPage ==
  ASSUME NEW F, F \in SUBSET (Nat \ {0}), NEW m, MemOK(m, F), NEW x \in F,
         Fresh(m, F, {x}), NEW v, NEW r, KernelMapResult(m, r, F, x, v, 1), r.ret # 0, v # 0
  PROVE  KernelPageResult(m, r, F, x, v)
<1>1. x \in Nat /\ x .. (x + 1 - 1) = {x}
  <2>1. x \in Nat  OBVIOUS
  <2>. QED  BY <2>1
<1>2. PICK n : n = r.m  OBVIOUS
<1>3. /\ r.ret = 1 /\ MemOK(n, F) /\ Keeps(m, n, Dirs(m)) /\ DOMAIN n.pdt = DOMAIN m.pdt
      /\ AccountedBut(m, F, {x}) => Accounted(n, F)
      /\ \E i \in KernelIdxs : \E j \in PtIdx :
           v = (i * PtEntries) + j /\ MapsTo(m, n, KernelPdt, i, j, x, 1, PL0)
  BY <1>1, <1>2 DEF KernelMapResult
<1>4. PICK i \in KernelIdxs : \E j \in PtIdx :
           v = (i * PtEntries) + j /\ MapsTo(m, n, KernelPdt, i, j, x, 1, PL0)
  BY <1>3
<1>5. PICK j \in PtIdx :
           v = (i * PtEntries) + j /\ MapsTo(m, n, KernelPdt, i, j, x, 1, PL0)
  BY <1>4
<1>6. i \in PdtIdx /\ j .. (j + 1 - 1) = {j} /\ j + 1 <= PtEntries /\ 1 \in Nat
  BY Sizes DEF KernelIdxs, PdtIdx, PtIdx
<1>7. v \in Nat  BY <1>5, <1>6, AddressOf
<1>8. PICK t : t = n.pdt[KernelPdt][i]  OBVIOUS
<1>9. Target(m, KernelPdt, i, {j}, PL0)  BY DEF Target
<1>10. Growth(m, F, n, KernelPdt, i, t, {j}, {x}, PL0)
  BY <1>1, <1>5, <1>6, <1>8, <1>9, MapKeepsOrder
<1>11. t # Absent /\ n.pt[t][j] = x
  BY <1>10 DEF Growth, Grown, GrownTable
<1>12. \A q : (q.kstack = x /\ q.kstack_vaddr = v) => KernelStackBuilt(n, q)
  BY <1>5, <1>8, <1>11 DEF KernelStackBuilt
<1>. QED  BY <1>2, <1>3, <1>7, <1>12 DEF KernelPageResult

\* A further process.
LEMMA AddProcess ==
  ASSUME NEW F, NEW m, NEW s, ProcsOK(m, s, F), CodesOK(m, s), NEW q \in Struct(F),
         Complete(m, q), CodeBuilt(m, q), \A k \in DOMAIN s : s[k].pdt # q.pdt
  PROVE  ProcsOK(m, Append(s, q), F) /\ CodesOK(m, Append(s, q))
<1>1. PICK z : z = Append(s, q)  OBVIOUS
<1>2. s \in Seq(Struct(F))  BY DEF ProcsOK
<1>3. z \in Seq(Struct(F)) /\ DOMAIN s = 1 .. Len(s) /\ DOMAIN z = 1 .. (Len(s) + 1)
      /\ Len(s) \in Nat /\ z[Len(s) + 1] = q /\ \A k \in DOMAIN s : z[k] = s[k]
  BY <1>1, <1>2
<1>4. \A k \in DOMAIN z : k \in DOMAIN s \/ k = Len(s) + 1  BY <1>3
<1>5. \A k \in DOMAIN z : Complete(m, z[k]) /\ CodeBuilt(m, z[k])
  BY <1>3, <1>4 DEF ProcsOK, CodesOK
<1>6. \A j, k \in DOMAIN z : j # k => z[j].pdt # z[k].pdt
  BY <1>3, <1>4 DEF ProcsOK
<1>. QED  BY <1>1, <1>3, <1>5, <1>6 DEF ProcsOK, CodesOK

\* What is mapped is not in the pool.
LEMMA OpenTaken ==
  ASSUME NEW F, F \in SUBSET (Nat \ {0}), NEW m, MemOK(m, F), NEW d \in Dirs(m),
         NEW i, NEW j \in PtIdx, NEW x, OpenTo(m, d, i, j, x)
  PROVE  x \notin m.pool /\ d \notin m.pool
BY DEF MemOK, Apart, Unused, OpenTo, Dirs

\* The kernel stack, the last step of process_create, keeps the invariant: a
\* process joins procs only with all of its parts.
LEMMA KernelStackStep ==
  ASSUME Inv, create_kernel_stack, UNCHANGED installed
  PROVE  Inv'
<1>1. PICK m : m = mem  OBVIOUS
<1>2. PICK F : F = installed  OBVIOUS
<1>3. PICK h : h = heap  OBVIOUS
<1>4. PICK a : a = pfa_allocate(m, 1)  OBVIOUS
<1>5. PICK b : b = a.m  OBVIOUS
<1>6. PICK x : x = a.ret  OBVIOUS
<1>7. PICK v : v = pdt_kernel_find_next_vaddr(b, 1)  OBVIOUS
<1>8. PICK map : map = pdt_map_kernel_memory(b, x, v, 1)  OBVIOUS
<1>9. PICK k : k = kmalloc(map.m, h)  OBVIOUS
<1>10. PICK q : q = [p EXCEPT !.kstack = x, !.kstack_vaddr = v]  OBVIOUS
<1>11. pc = "kernel_stack"  BY DEF create_kernel_stack
<1>12. /\ x = 0 => ReturnNull /\ UNCHANGED <<mem, heap>>
       /\ (x # 0 /\ v = 0) => ReturnNull /\ mem' = b /\ UNCHANGED heap
       /\ (x # 0 /\ v # 0 /\ map.ret # 1) => ReturnNull /\ mem' = map.m /\ UNCHANGED heap
       /\ (x # 0 /\ v # 0 /\ map.ret = 1 /\ ~k.ok) =>
            ReturnNull /\ mem' = k.m /\ heap' = k.heap
       /\ (x # 0 /\ v # 0 /\ map.ret = 1 /\ k.ok) =>
            /\ mem' = k.m /\ heap' = k.heap
            /\ procs' = IF p.null THEN procs ELSE Append(procs, q)
            /\ p' = NoProcess /\ pc' = "idle" /\ UNCHANGED <<calls, cr3, esp0, failed>>
  <2>1. (CASE x = 0 -> ReturnNull /\ UNCHANGED <<mem, heap>>
           [] x # 0 /\ v = 0 -> ReturnNull /\ mem' = b /\ UNCHANGED heap
           [] x # 0 /\ v # 0 /\ map.ret # 1 -> ReturnNull /\ mem' = map.m /\ UNCHANGED heap
           [] x # 0 /\ v # 0 /\ map.ret = 1 /\ ~k.ok ->
                ReturnNull /\ mem' = k.m /\ heap' = k.heap
           [] x # 0 /\ v # 0 /\ map.ret = 1 /\ k.ok ->
                /\ mem' = k.m /\ heap' = k.heap
                /\ procs' = IF p.null THEN procs ELSE Append(procs, q)
                /\ p' = NoProcess /\ pc' = "idle" /\ UNCHANGED <<calls, cr3, esp0, failed>>)
    BY <1>1, <1>3, <1>4, <1>5, <1>6, <1>7, <1>8, <1>9, <1>10, Zenon
       DEF create_kernel_stack
  <2>. QED  BY <2>1, Zenon
<1>13. F \in SUBSET (Nat \ {0}) /\ MemOK(m, F) /\ h \in 0 .. HeapObjects
       /\ ProcsOK(m, procs, F) /\ CodesOK(m, procs) /\ (~failed => Accounted(m, F))
       /\ cr3 = KernelPdt /\ failed \in BOOLEAN /\ IsStruct(p) /\ pc # "idle"
       /\ Partial(m, F, procs, "kernel_stack", p) /\ Harmed(m, "kernel_stack", failed)
  BY <1>1, <1>2, <1>3, <1>11, FramesNat, Creating DEF Inv
<1>14. AllocOneResult(m, a, F)  BY <1>4, <1>13, AllocOneOK
<1>15. CASE x = 0
  <2>1. ReturnNull /\ UNCHANGED <<mem, heap>>  BY <1>12, <1>15
  <2>2. MemOK(mem', installed) /\ ProcsOK(mem', procs, installed) /\ CodesOK(mem', procs)
        /\ heap' \in 0 .. HeapObjects /\ (mem'.flipped => mem'.pool = {})
    BY <2>1, <1>1, <1>2, <1>3, <1>13 DEF Harmed
  <2>. QED  BY <2>1, <2>2, <1>13, ReturnNullStep
<1>16. CASE x # 0
  <2>1. x \in m.pool /\ x \in Nat /\ Taken(m, b, F, {x}) /\ x \in F
    BY <1>5, <1>6, <1>13, <1>14, <1>16 DEF AllocOneResult, MemOK, Typed
  <2>2. /\ MemOK(b, F) /\ Fresh(b, F, {x}) /\ Keeps(m, b, Dirs(m))
        /\ Dirs(b) = Dirs(m) /\ (Accounted(m, F) => AccountedBut(b, F, {x}))
    BY <2>1 DEF Taken, Shrunk, Dirs
  <2>3. x .. (x + 1 - 1) = {x} /\ 1 \in Nat /\ 1 > 0 /\ 1 <= PtEntries  BY <2>1, Sizes
  <2>4. KernelMapResult(b, map, F, x, v, 1)  BY <2>1, <2>2, <2>3, <1>7, <1>8, <1>13, KernelMap
  <2>5. ProcsOK(b, procs, F) /\ CodesOK(b, procs)  BY <2>2, <1>13, KeepsAllProcs
  <2>8. b.flipped => b.pool = {}  BY <2>2, <1>13 DEF Keeps, Harmed
  <2>6. CASE v = 0 \/ map.ret # 1
    <3>1. ReturnNull /\ mem' = b /\ UNCHANGED heap
      <4>1. CASE v = 0  BY <4>1, <1>12, <1>16
      <4>2. CASE v # 0
        <5>1. map.ret # 1  BY <4>2, <2>6
        <5>2. map.m = b  BY <5>1, <2>4 DEF KernelMapResult
        <5>. QED  BY <5>1, <5>2, <4>2, <1>12, <1>16
      <4>. QED  BY <4>1, <4>2
    <3>2. MemOK(mem', installed) /\ ProcsOK(mem', procs, installed)
          /\ CodesOK(mem', procs) /\ heap' \in 0 .. HeapObjects
          /\ (mem'.flipped => mem'.pool = {})
      BY <3>1, <2>2, <2>5, <2>8, <1>2, <1>3, <1>13
    <3>. QED  BY <3>1, <3>2, <1>13, ReturnNullStep
  <2>7. CASE v # 0 /\ map.ret = 1
    <3>1. PICK w : w = map.m  OBVIOUS
    <3>2. /\ v \in Nat /\ MemOK(w, F) /\ Keeps(b, w, Dirs(b)) /\ DOMAIN w.pdt = DOMAIN b.pdt
          /\ (AccountedBut(b, F, {x}) => Accounted(w, F))
          /\ \A o : (o.kstack = x /\ o.kstack_vaddr = v) => KernelStackBuilt(w, o)
      <4>1. KernelPageResult(b, map, F, x, v)
        <5>1. F \in SUBSET (Nat \ {0}) /\ MemOK(b, F) /\ x \in F /\ Fresh(b, F, {x})
              /\ map.ret # 0 /\ v # 0
          BY <2>1, <2>2, <2>7, <1>13
        <5>. QED  BY <5>1, <2>4, KernelPage
      <4>. QED  BY <4>1, <3>1 DEF KernelPageResult
    <3>3. PICK n : n = k.m  OBVIOUS
    <3>4. KmallocResult(w, k, F)  BY <3>1, <3>2, <1>9, <1>13, KmallocOK
    <3>5. /\ MemOK(n, F) /\ Keeps(w, n, Dirs(w)) /\ k.heap \in 0 .. HeapObjects
          /\ k.ok \in BOOLEAN /\ ((Accounted(w, F) /\ k.ok) => Accounted(n, F))
      BY <3>3, <3>4 DEF KmallocResult
    <3>6. PICK D : D = Dirs(m)  OBVIOUS
    <3>7. Keeps(m, b, D) /\ Keeps(b, w, D) /\ Keeps(w, n, D)
      BY <3>2, <3>5, <3>6, <2>2 DEF Dirs
    <3>8. Keeps(m, w, D)  BY <3>7, KeepsTrans
    <3>9. Keeps(m, n, D)  BY <3>7, <3>8, KeepsTrans
    <3>10. ProcsOK(n, procs, F) /\ CodesOK(n, procs)
      BY <3>6, <3>9, <1>13, KeepsAllProcs
    <3>13. Harmed(n, "idle", failed) /\ (n.flipped => n.pool = {})
      BY <3>9, <1>13 DEF Keeps, Harmed
    <3>11. CASE ~k.ok
      <4>1. ReturnNull /\ mem' = n /\ heap' = k.heap  BY <3>3, <3>11, <2>7, <1>12, <1>16
      <4>2. MemOK(mem', installed) /\ ProcsOK(mem', procs, installed)
            /\ CodesOK(mem', procs) /\ heap' \in 0 .. HeapObjects
            /\ (mem'.flipped => mem'.pool = {})
        BY <4>1, <3>5, <3>10, <3>13, <1>2
      <4>. QED  BY <4>1, <4>2, <1>13, ReturnNullStep
    <3>12. CASE k.ok
      <4>1. /\ mem' = n /\ heap' = k.heap
            /\ procs' = IF p.null THEN procs ELSE Append(procs, q)
            /\ p' = NoProcess /\ pc' = "idle" /\ UNCHANGED <<calls, cr3, esp0, failed>>
        BY <3>3, <3>12, <2>7, <1>12, <1>16
      <4>2. Partial(n, F, procs, "kernel_stack", p)
        BY <3>6, <3>9, <1>13, KeepsPartial
      <4>3. /\ p.null \in BOOLEAN /\ OwnDir(n, F, procs, p.pdt) /\ p.code \in F
            /\ CodeBuilt(n, p) /\ p.stack \in F /\ StackBuilt(n, p) /\ ~OnLast(n, p.stack)
        BY <4>2 DEF Partial
      <4>14. ~OnLast(n, p.code)
        <5>1. Shape(b) /\ KernelPdt \in DOMAIN b.pdt /\ KernelOK(b) /\ Identity \notin DOMAIN b.pt
          BY <2>2, <1>13, OrderReady DEF Ready, MemOK, Typed
        <5>2. FoundAt(b, v, 1)  BY <5>1, <2>3, <2>7, <1>7, FindVaddr
        <5>3. ~KernelFull(b)  BY <5>2, <2>3, FoundNotFull
        <5>4. ~KernelFull(m)  BY <5>3, <2>1 DEF Taken, Shrunk, KernelFull
        <5>5. CodeBuilt(m, p) /\ LastFull(m, p.code) /\ p.pdt \in Dirs(m)
          BY <1>13 DEF Partial, OwnDir
        <5>6. OnLast(n, p.code) => OnLast(m, p.code)
          BY <5>5, <3>6, <3>9, UserEntries, KeepsOpen DEF CodeBuilt
        <5>. QED  BY <5>4, <5>5, <5>6 DEF LastFull
      <4>4. /\ q.null = p.null /\ q.pdt = p.pdt /\ q.code = p.code /\ q.stack = p.stack
            /\ q.kstack = x /\ q.kstack_vaddr = v /\ IsStruct(q)
        BY <1>10, <1>13 DEF IsStruct
      <4>5. CodeBuilt(n, q) /\ StackBuilt(n, q)
        BY <4>3, <4>4 DEF CodeBuilt, StackBuilt
      <4>6. KernelStackBuilt(n, q)
        <5>1. KernelStackBuilt(w, q)  BY <3>2, <4>4
        <5>2. q.kstack # Absent  BY <4>4, <2>1, <1>13, FrameKinds
        <5>. QED  BY <5>1, <5>2, <3>7, KeepsKernelStack
      <4>7. q.pdt \in Dirs(n) /\ q.pdt \in F /\ \A o \in DOMAIN procs : procs[o].pdt # q.pdt
        BY <4>3, <4>4 DEF OwnDir
      <4>8. {q.pdt, q.code, q.stack, q.kstack} \cap n.pool = {}
        <5>1. q.pdt \notin n.pool /\ q.code \notin n.pool
          BY <4>5, <4>7, <3>5, <1>13, UserEntries, OpenTaken DEF CodeBuilt
        <5>2. q.stack \notin n.pool
          BY <4>5, <4>7, <3>5, <1>13, UserEntries, OpenTaken DEF StackBuilt
        <5>3. n.pool \subseteq b.pool  BY <3>7 DEF Keeps
        <5>4. q.kstack \notin n.pool  BY <5>3, <4>4, <2>1 DEF Taken
        <5>. QED  BY <5>1, <5>2, <5>4
      <4>9. Complete(n, q)
        <5>1. ~OnLast(n, q.code) /\ ~OnLast(n, q.stack)  BY <4>3, <4>4, <4>14
        <5>. QED  BY <5>1, <4>5, <4>6, <4>7, <4>8 DEF Complete
      <4>10. ProcsOK(n, procs', F) /\ CodesOK(n, procs')
        <5>1. CASE p.null = TRUE
          BY <5>1, <4>1, <3>10
        <5>2. CASE p.null = FALSE
          <6>1. q \in Struct(F)
            BY <5>2, <4>3, <4>4, <4>7, <3>2, <2>1 DEF Struct, IsStruct
          <6>2. procs' = Append(procs, q)  BY <5>2, <4>1
          <6>3. PICK s : s = procs  OBVIOUS
          <6>4. ProcsOK(n, Append(s, q), F) /\ CodesOK(n, Append(s, q))
            BY <6>1, <6>3, <4>5, <4>7, <4>9, <3>10, AddProcess
          <6>. QED  BY <6>2, <6>3, <6>4
        <5>. QED  BY <5>1, <5>2, <4>3
      <4>11. IsStruct(p') /\ p'.null \in BOOLEAN  BY <4>1 DEF NoProcess, IsStruct
      <4>12. Partial(n, F, procs', "idle", p')  BY <4>11 DEF Partial
      <4>13. MemOK(mem', installed) /\ ProcsOK(mem', procs', installed)
             /\ CodesOK(mem', procs') /\ Partial(mem', installed, procs', pc', p')
             /\ (~failed' => Accounted(mem', installed))
        BY <4>1, <4>10, <4>12, <3>2, <3>5, <3>12, <2>2, <1>2, <1>13
      <4>15. Harmed(mem', pc', failed')  BY <4>1, <3>13
      <4>. QED  BY <4>1, <4>11, <4>13, <4>15, <3>5, <1>13, Rebuild
    <3>. QED  BY <3>11, <3>12
  <2>. QED  BY <2>6, <2>7
<1>. QED  BY <1>15, <1>16

(***************************************************************************)
(* The switch.                                                             *)
(***************************************************************************)

\* Loading the directory d takes away nothing but the code mapped in it.
LEMMA LoadKeepsProcs ==
  ASSUME NEW F, F \in SUBSET (Nat \ {0}), NEW m, MemOK(m, F), NEW d \in Dirs(m),
         NEW n, Loads(m, n, d), NEW s, ProcsOK(m, s, F)
  PROVE  ProcsOK(n, s, F)
<1>1. /\ n.pool = m.pool /\ n.pt = m.pt /\ n.upte = m.upte
      /\ n.upde = m.upde \ ({d} \X Copied(m)) /\ DOMAIN n.pdt = DOMAIN m.pdt
      /\ \A e \in DOMAIN m.pdt : \A k \in PdtIdx :
           n.pdt[e][k] = IF e = d /\ k \in Copied(m) THEN m.pdt[KernelPdt][k]
                         ELSE m.pdt[e][k]
  BY DEF Loads
<1>2. n.pdt[d][0] = Identity /\ \A x : OnLast(n, x) => OnLast(m, x)
  <2>1. LoadResult(m, n, F, d)  BY LoadOK
  <2>. QED  BY <2>1 DEF LoadResult
<1>3. Dirs(n) = Dirs(m)  BY <1>1 DEF Dirs
<1>4. \A i \in PdtIdx : n.pdt[KernelPdt][i] = m.pdt[KernelPdt][i]
  BY <1>1 DEF Dirs, MemOK, Typed
<1>5. StackIdx \notin Copied(m)  BY Sizes DEF Copied, KernelIdxs, StackIdx
<1>6. ASSUME NEW q, Complete(m, q) PROVE Complete(n, q)
  <2>1. PICK e : e = q.pdt  OBVIOUS
  <2>2. e \in Dirs(m) /\ e \in DOMAIN m.pdt  BY <2>1, <1>6 DEF Complete, Dirs
  <2>3. n.pdt[e][StackIdx] = m.pdt[e][StackIdx]  BY <2>2, <1>1, <1>5, UserEntries
  <2>4. <<e, StackIdx>> \in m.upde => <<e, StackIdx>> \in n.upde  BY <1>1, <1>5
  <2>5. StackBuilt(n, q)
    BY <2>1, <2>3, <2>4, <1>1, <1>6 DEF Complete, StackBuilt, OpenTo
  <2>6. KernelStackBuilt(n, q)
    BY <1>1, <1>4, <1>6, UserEntries DEF Complete, KernelStackBuilt
  <2>7. (CodeBuilt(n, q) /\ ~OnLast(n, q.code)) \/ n.pdt[e][0] = Identity
    <3>1. CASE e = d  BY <3>1, <1>2
    <3>2. CASE e # d
      <4>1. n.pdt[e][0] = m.pdt[e][0]  BY <3>2, <2>2, <1>1, UserEntries
      <4>2. <<e, 0>> \in m.upde => <<e, 0>> \in n.upde  BY <3>2, <1>1
      <4>. QED  BY <4>1, <4>2, <2>1, <1>1, <1>2, <1>6 DEF Complete, CodeBuilt, OpenTo
    <3>. QED  BY <3>1, <3>2
  <2>8. ~OnLast(n, q.stack)  BY <1>2, <1>6 DEF Complete
  <2>. QED  BY <2>1, <2>2, <2>5, <2>6, <2>7, <2>8, <1>1, <1>3, <1>6 DEF Complete
<1>. QED  BY <1>6 DEF ProcsOK

\* Loading a process's directory keeps the invariant.
LEMMA SwitchStep ==
  ASSUME Inv, NEW k \in DOMAIN procs, switch_to(procs[k]), UNCHANGED installed
  PROVE  Inv'
<1>1. PICK m : m = mem  OBVIOUS
<1>2. PICK F : F = installed  OBVIOUS
<1>3. PICK d : d = procs[k].pdt  OBVIOUS
<1>4. PICK n : n = pdt_load_process_pdt(m, d)  OBVIOUS
<1>5. /\ pc = "idle" /\ esp0' = procs[k].kstack_vaddr /\ mem' = n /\ cr3' = d
      /\ UNCHANGED <<heap, pc, p, procs, calls, failed>>
  BY <1>1, <1>3, <1>4 DEF switch_to
<1>6. /\ F \in SUBSET (Nat \ {0}) /\ MemOK(m, F) /\ ProcsOK(m, procs, F)
      /\ heap \in 0 .. HeapObjects /\ failed \in BOOLEAN /\ IsStruct(p)
      /\ p.null \in BOOLEAN /\ installed \subseteq Frames
  BY <1>1, <1>2, FramesNat DEF Inv, Partial
<1>7. d \in Dirs(m) /\ d # KernelPdt  BY <1>3, <1>6 DEF ProcsOK, Complete, Dirs
<1>8. Loads(m, n, d)  BY <1>4, <1>6, <1>7, Loading
<1>9. MemOK(n, F) /\ \A i \in KernelIdxs : n.pdt[d][i] = n.pdt[KernelPdt][i]
  <2>1. LoadResult(m, n, F, d)  BY <1>6, <1>7, <1>8, LoadOK
  <2>. QED  BY <2>1 DEF LoadResult
<1>10. PICK s : s = procs  OBVIOUS
<1>11. ProcsOK(n, s, F)  BY <1>6, <1>7, <1>8, <1>10, LoadKeepsProcs
<1>12. Partial(n, F, s, "idle", p)  BY <1>6 DEF Partial
<1>13. MemOK(mem', installed') /\ ProcsOK(mem', procs', installed')
       /\ Partial(mem', installed', procs', pc', p')
  BY <1>2, <1>5, <1>9, <1>10, <1>11, <1>12
<1>14. Loaded'
  <2>1. k \in DOMAIN procs' /\ cr3' = procs'[k].pdt /\ esp0' = procs'[k].kstack_vaddr
        /\ pc' = "idle"
    BY <1>3, <1>5
  <2>2. \A i \in KernelIdxs : mem'.pdt[cr3'][i] = mem'.pdt[KernelPdt][i]
    BY <1>5, <1>9
  <2>. QED  BY <2>1, <2>2 DEF Loaded
<1>15. Harmed(mem', pc', failed')
  <2>1. n.pool = m.pool /\ n.flipped = m.flipped  BY <1>8 DEF Loads
  <2>2. Harmed(m, "idle", failed)  BY <1>1, <1>5 DEF Inv
  <2>. QED  BY <2>1, <2>2, <1>5 DEF Harmed
<1>. QED  BY <1>5, <1>6, <1>7, <1>13, <1>14, <1>15 DEF Inv

\* A step that changes nothing.
LEMMA StutterStep ==
  ASSUME Inv, UNCHANGED vars
  PROVE  Inv'
BY DEF vars, Inv, Loaded

\* The invariant is inductive.
THEOREM ProcessInv == Spec => []Inv
<1>1. Init => Inv  BY InitInv
<1>2. Inv /\ [Next]_vars => Inv'
  <2>. SUFFICES ASSUME Inv, [Next]_vars PROVE Inv'  OBVIOUS
  <2>1. CASE UNCHANGED vars  BY <2>1, StutterStep
  <2>2. CASE Next
    <3>1. UNCHANGED installed  BY <2>2 DEF Next
    <3>2. CASE create_struct  BY <3>1, <3>2, StructStep
    <3>3. CASE create_pdt  BY <3>1, <3>3, PdtStep
    <3>4. CASE create_code  BY <3>1, <3>4, CodeStep
    <3>5. CASE create_stack  BY <3>1, <3>5, StackStep
    <3>6. CASE create_kernel_stack  BY <3>1, <3>6, KernelStackStep
    <3>7. CASE hung \/ idle  BY <3>7, StutterStep DEF hung, idle
    <3>8. CASE \E k \in DOMAIN procs : switch_to(procs[k])
      <4>1. PICK k \in DOMAIN procs : switch_to(procs[k])  BY <3>8
      <4>. QED  BY <4>1, <3>1, SwitchStep
    <3>. QED  BY <2>2, <3>2, <3>3, <3>4, <3>5, <3>6, <3>7, <3>8 DEF Next
  <2>. QED  BY <2>1, <2>2
<1>. QED  BY <1>1, <1>2, PTL DEF Spec

-----------------------------------------------------------------------------
(***************************************************************************)
(* The properties that the runs check.                                     *)
(***************************************************************************)

\* The page tables, the pool, the heap and the processor's registers hold
\* values of their types, for machines of any size.
THEOREM TypeCorrect == Spec => []TypeOK
<1>1. Inv => TypeOK
  <2>. SUFFICES ASSUME Inv PROVE TypeOK  OBVIOUS
  <2>1. Typed(mem, installed) /\ installed \subseteq Frames  BY DEF Inv, MemOK
  <2>2. mem.pdt \in [DOMAIN mem.pdt -> [PdtIdx -> Frames \cup {Absent, KernelPt, Identity}]]
    BY <2>1 DEF Typed, Matrix
  <2>3. mem.pt \in [DOMAIN mem.pt -> [PtIdx -> Entry \cup {KernelPt, Identity}]]
    BY <2>1 DEF Typed, Matrix, Entry
  <2>4. cr3 \in Directory
    <3>1. CASE cr3 = KernelPdt  BY <3>1 DEF Directory
    <3>2. CASE cr3 # KernelPdt
      <4>1. PICK k \in DOMAIN procs : cr3 = procs[k].pdt  BY <3>2 DEF Inv, Loaded
      <4>2. procs[k] \in Struct(installed)  BY DEF Inv, ProcsOK
      <4>. QED  BY <4>1, <4>2, <2>1 DEF Struct, Directory
    <3>. QED  BY <3>1, <3>2
  <2>5. mem.pool \subseteq Frames /\ DOMAIN mem.pdt \subseteq Directory
        /\ DOMAIN mem.pt \subseteq Frames \cup {KernelPt}
    BY <2>1 DEF Typed, Directory
  <2>. QED  BY <2>2, <2>3, <2>4, <2>5 DEF TypeOK, Inv
<1>. QED  BY <1>1, ProcessInv, PTL

\* The temporary slot is empty whenever no call is under way.
THEOREM TmpAlwaysRestored == Spec => []TmpRestored
<1>1. Inv => TmpRestored
  BY DEF Inv, MemOK, KernelOK, TmpRestored, kernel_get_temporary_entry
<1>. QED  BY <1>1, ProcessInv, PTL

\* process_create gets stuck, or flips a bit of memory that is not the bitmap's,
\* only on a machine without a free frame, on which an earlier step has failed.
THEOREM HarmNeedsFullMachine == Spec => []HarmOnlyOutOfFrames
<1>1. Inv => HarmOnlyOutOfFrames  BY DEF Inv, Harmed, HarmOnlyOutOfFrames
<1>. QED  BY <1>1, ProcessInv, PTL

\* A flipped bit shows the processor no frame as a page table.
LEMMA TablesAre ==
  Tables = {mem.pdt[d][i] : d \in DOMAIN mem.pdt, i \in PdtIdx} \cap Frames
<1>1. Absent \notin Frames /\ Identity \notin Frames
  BY ProcessAssumption DEF Frames, Absent, Identity
<1>2. \A d, i : pde(mem, d, i) = mem.pdt[d][i]
                \/ (pde(mem, d, i) = Identity /\ mem.pdt[d][i] = Absent)
  BY DEF pde
<1>. QED  BY <1>1, <1>2 DEF Tables

\* The frames that directories refer to are page tables.
LEMMA TablesInDomain ==
  ASSUME Inv
  PROVE  Tables \subseteq DOMAIN mem.pt
<1>1. PICK m : m = mem  OBVIOUS
<1>2. PICK F : F = installed  OBVIOUS
<1>3. MemOK(m, F)  BY <1>1, <1>2 DEF Inv
<1>. SUFFICES ASSUME NEW d \in DOMAIN m.pdt, NEW i \in PdtIdx, m.pdt[d][i] \in Frames
              PROVE  m.pdt[d][i] \in DOMAIN m.pt
  BY <1>1, TablesAre
<1>4. m.pdt[d][i] \in {Absent, Identity} \cup DOMAIN m.pt  BY <1>3, EntryKinds
<1>5. m.pdt[d][i] \in Nat  BY ProcessAssumption DEF Frames
<1>. QED  BY <1>4, <1>5 DEF Absent, Identity

\* No frame in use is in the pool, and no page table is mapped as a page.
THEOREM NoFrameDangles == Spec => []NoDanglingFrame
<1>1. Inv => NoDanglingFrame
  <2>. SUFFICES ASSUME Inv PROVE NoDanglingFrame  OBVIOUS
  <2>1. Apart(mem) /\ KernelPt \in DOMAIN mem.pt  BY DEF Inv, MemOK, Typed
  <2>2. Tables \subseteq DOMAIN mem.pt  BY TablesInDomain
  <2>3. \A x \in Mapped : \E t \in DOMAIN mem.pt : \E j \in PtIdx : mem.pt[t][j] = x
    BY <2>1, <2>2 DEF Mapped
  <2>4. mem.pool \cap Tables = {}  BY <2>1, <2>2 DEF Apart, Unused
  <2>5. mem.pool \cap Mapped = {}  BY <2>1, <2>3 DEF Apart, Unused
  <2>6. mem.pool \cap Owned = {}
    <3>1. \A k \in DOMAIN procs :
            {procs[k].pdt, procs[k].code, procs[k].stack, procs[k].kstack}
              \cap mem.pool = {}
      BY DEF Inv, ProcsOK, Complete
    <3>. QED  BY <3>1 DEF Owned, Processes
  <2>7. Tables \cap Mapped = {}  BY <2>1, <2>2, <2>3 DEF Apart
  <2>. QED  BY <2>4, <2>5, <2>6, <2>7 DEF NoDanglingFrame
<1>. QED  BY <1>1, ProcessInv, PTL

\* The success paths of process_create leak no frame.
THEOREM NothingLeaks == Spec => []NoLeak
<1>1. Inv => NoLeak
  <2>. SUFFICES ASSUME Inv, ~failed, cr3 = KernelPdt
                PROVE  installed = mem.pool \cup Tables \cup Mapped \cup Owned
    BY DEF NoLeak
  <2>1. Typed(mem, installed) /\ installed \subseteq Frames /\ Accounted(mem, installed)
    BY DEF Inv, MemOK
  <2>2. \A x \in Frames : x \in Nat \ {0}  BY ProcessAssumption DEF Frames
  <2>3. Tables \subseteq installed
    BY <2>1, <2>2, TablesAre DEF Typed, Absent, KernelPt, Identity
  <2>4. Mapped \subseteq installed
    <3>1. Tables \subseteq DOMAIN mem.pt /\ KernelPt \in DOMAIN mem.pt
      BY <2>1, TablesInDomain DEF Typed
    <3>2. \A x \in Mapped : x \in Frames
            /\ \E t \in DOMAIN mem.pt : \E j \in PtIdx : mem.pt[t][j] = x
      BY <3>1 DEF Mapped
    <3>3. \A x \in Mapped : x \in installed \cup {0, Absent, ImagePage, BitmapPage}
      BY <3>2, <2>1 DEF Typed
    <3>. QED  BY <3>2, <3>3, <2>2 DEF Absent, ImagePage, BitmapPage
  <2>5. Owned \subseteq installed
    <3>1. \A k \in DOMAIN procs : procs[k] \in Struct(installed)  BY DEF Inv, ProcsOK
    <3>2. \A k \in DOMAIN procs :
            {procs[k].pdt, procs[k].code, procs[k].stack, procs[k].kstack}
              \subseteq installed
      BY <3>1 DEF Struct
    <3>. QED  BY <3>2 DEF Owned, Processes
  <2>6. ASSUME NEW x \in installed PROVE x \in mem.pool \cup Tables \cup Mapped
    <3>1. CASE x \in mem.pool  BY <3>1
    <3>2. CASE InUse(mem, x)
      <4>1. PICK d \in DOMAIN mem.pdt : \E i \in PdtIdx :
              \/ mem.pdt[d][i] = x
              \/ /\ mem.pdt[d][i] \in DOMAIN mem.pt
                 /\ \E j \in PtIdx : mem.pt[mem.pdt[d][i]][j] = x
        BY <3>2 DEF InUse
      <4>2. PICK i \in PdtIdx :
              \/ mem.pdt[d][i] = x
              \/ /\ mem.pdt[d][i] \in DOMAIN mem.pt
                 /\ \E j \in PtIdx : mem.pt[mem.pdt[d][i]][j] = x
        BY <4>1
      <4>3. x \in Frames  BY <2>1, <2>6
      <4>4. CASE mem.pdt[d][i] = x  BY <4>3, <4>4, TablesAre
      <4>5. CASE mem.pdt[d][i] \in DOMAIN mem.pt /\ \E j \in PtIdx : mem.pt[mem.pdt[d][i]][j] = x
        <5>1. PICK t : t = mem.pdt[d][i]  OBVIOUS
        <5>2. PICK j \in PtIdx : mem.pt[t][j] = x  BY <5>1, <4>5
        <5>3. t \in Frames \cup {KernelPt}  BY <5>1, <4>5, <2>1 DEF Typed
        <5>4. t \in Tables \cup {KernelPt}  BY <5>1, <5>3, TablesAre
        <5>. QED  BY <5>2, <5>4, <4>3 DEF Mapped
      <4>. QED  BY <4>2, <4>4, <4>5
    <3>. QED  BY <3>1, <3>2, <2>1, <2>6 DEF Accounted
  <2>7. mem.pool \subseteq installed  BY <2>1 DEF Typed
  <2>. QED  BY <2>3, <2>4, <2>5, <2>6, <2>7
<1>. QED  BY <1>1, ProcessInv, PTL

-----------------------------------------------------------------------------
(***************************************************************************)
(* What the processor finds in the page tables.                            *)
(***************************************************************************)

\* The flipped bit matters to no entry that is present.
LEMMA PresentEntry ==
  ASSUME NEW m, NEW d, NEW i, m.pdt[d][i] # Absent
  PROVE  pde(m, d, i) = m.pdt[d][i]
BY DEF pde

\* An open page is found and may be reached in user mode.
LEMMA OpenFound ==
  ASSUME NEW F, F \in SUBSET (Nat \ {0}), NEW m, MemOK(m, F), NEW d, NEW v, NEW x,
         OpenTo(m, d, pdt_idx(v), pt_idx(v), x)
  PROVE  Translate(m, d, v) = x /\ UserMode(m, d, v)
<1>1. m.pdt[d][pdt_idx(v)] # Absent
  <2>1. DOMAIN m.pt \subseteq F \cup {KernelPt} /\ Absent # KernelPt
    BY DEF MemOK, Typed, Absent, KernelPt
  <2>2. Absent \notin F  BY FrameKinds
  <2>. QED  BY <2>1, <2>2 DEF OpenTo
<1>2. pde(m, d, pdt_idx(v)) = m.pdt[d][pdt_idx(v)]  BY <1>1, PresentEntry
<1>. QED  BY <1>2 DEF OpenTo, Translate, UserMode, IsTable

\* A kernel stack is found through every directory that has the kernel's entries.
LEMMA KernelStackFound ==
  ASSUME NEW F, NEW m, MemOK(m, F), NEW q, KernelStackBuilt(m, q), NEW d,
         \A i \in KernelIdxs : m.pdt[d][i] = m.pdt[KernelPdt][i]
  PROVE  Translate(m, d, q.kstack_vaddr) = q.kstack
<1>1. PICK i \in KernelIdxs : \E j \in PtIdx :
        /\ q.kstack_vaddr = (i * PtEntries) + j /\ m.pdt[KernelPdt][i] # Absent
        /\ m.pt[m.pdt[KernelPdt][i]][j] = q.kstack
  BY DEF KernelStackBuilt
<1>2. PICK j \in PtIdx :
        /\ q.kstack_vaddr = (i * PtEntries) + j /\ m.pdt[KernelPdt][i] # Absent
        /\ m.pt[m.pdt[KernelPdt][i]][j] = q.kstack
  BY <1>1
<1>3. i \in PdtIdx /\ (i = KernelIdx \/ i > KernelIdx)
  BY Sizes DEF KernelIdxs, PdtIdx
<1>4. pdt_idx(q.kstack_vaddr) = i /\ pt_idx(q.kstack_vaddr) = j
  BY <1>2, <1>3, AddressOf
<1>5. m.pdt[KernelPdt][i] \in DOMAIN m.pt
  BY <1>2, <1>3 DEF MemOK, KernelOK, Typed
<1>6. pde(m, d, i) = m.pdt[KernelPdt][i]  BY <1>2, PresentEntry
<1>. QED  BY <1>2, <1>4, <1>5, <1>6 DEF Translate, IsTable

\* A process that process_create returned has its stacks, and its code until
\* it is loaded, whichever allocations failed before.
THEOREM ProcessesAreBuilt == Spec => []ProcessBuilt
<1>1. Inv => ProcessBuilt
  <2>. SUFFICES ASSUME Inv, NEW q \in Processes
                PROVE  /\ Translate(mem, q.pdt, StackVaddr) = q.stack
                       /\ UserMode(mem, q.pdt, StackVaddr)
                       /\ Translate(mem, KernelPdt, q.kstack_vaddr) = q.kstack
                       /\ q.code # 0
                       /\ cr3 = KernelPdt => /\ Translate(mem, q.pdt, CodeVaddr) = q.code
                                             /\ UserMode(mem, q.pdt, CodeVaddr)
    BY DEF ProcessBuilt
  <2>1. PICK k \in DOMAIN procs : q = procs[k]  BY DEF Processes
  <2>2. PICK m : m = mem  OBVIOUS
  <2>3. PICK F : F = installed  OBVIOUS
  <2>4. /\ F \in SUBSET (Nat \ {0}) /\ MemOK(m, F) /\ Complete(m, q) /\ q \in Struct(F)
        /\ cr3 = KernelPdt => CodeBuilt(m, q)
    BY <2>1, <2>2, <2>3, FramesNat DEF Inv, ProcsOK, CodesOK
  <2>5. OpenTo(m, q.pdt, pdt_idx(StackVaddr), pt_idx(StackVaddr), q.stack)
    BY <2>4, BelowKernel DEF StackVaddr, Complete, StackBuilt
  <2>6. cr3 = KernelPdt => OpenTo(m, q.pdt, pdt_idx(CodeVaddr), pt_idx(CodeVaddr), q.code)
    BY <2>4, ZeroAddress DEF CodeVaddr, CodeBuilt
  <2>7. Translate(m, KernelPdt, q.kstack_vaddr) = q.kstack
    <3>1. KernelStackBuilt(m, q)  BY <2>4 DEF Complete
    <3>2. PICK d : d = KernelPdt  OBVIOUS
    <3>3. \A i \in KernelIdxs : m.pdt[d][i] = m.pdt[KernelPdt][i]  BY <3>2
    <3>4. Translate(m, d, q.kstack_vaddr) = q.kstack
      BY <3>1, <3>3, <2>4, KernelStackFound
    <3>. QED  BY <3>2, <3>4
  <2>8. PICK sv : sv = StackVaddr  OBVIOUS
  <2>9. PICK cv : cv = CodeVaddr  OBVIOUS
  <2>10. Translate(m, q.pdt, sv) = q.stack /\ UserMode(m, q.pdt, sv)
    BY <2>4, <2>5, <2>8, OpenFound
  <2>11. cr3 = KernelPdt => Translate(m, q.pdt, cv) = q.code /\ UserMode(m, q.pdt, cv)
    BY <2>4, <2>6, <2>9, OpenFound
  <2>12. q.code # 0  BY <2>4 DEF Struct
  <2>. QED  BY <2>2, <2>7, <2>8, <2>9, <2>10, <2>11, <2>12
<1>. QED  BY <1>1, ProcessInv, PTL

\* An interrupt in user mode finds the kernel stack of the process that runs.
THEOREM KernelStackAlwaysReachable == Spec => []KernelStackReachable
<1>1. Inv => KernelStackReachable
  <2>. SUFFICES ASSUME Inv, cr3 # KernelPdt
                PROVE  \E q \in Processes :
                         q.pdt = cr3 /\ Translate(mem, cr3, esp0) = q.kstack
    BY DEF KernelStackReachable
  <2>1. PICK k \in DOMAIN procs :
          /\ cr3 = procs[k].pdt /\ esp0 = procs[k].kstack_vaddr
          /\ \A i \in KernelIdxs : mem.pdt[cr3][i] = mem.pdt[KernelPdt][i]
    BY DEF Inv, Loaded
  <2>2. PICK q : q = procs[k]  OBVIOUS
  <2>3. PICK m : m = mem  OBVIOUS
  <2>4. PICK F : F = installed  OBVIOUS
  <2>5. PICK d : d = cr3  OBVIOUS
  <2>6. MemOK(m, F) /\ KernelStackBuilt(m, q)
    BY <2>2, <2>3, <2>4 DEF Inv, ProcsOK, Complete
  <2>7. \A i \in KernelIdxs : m.pdt[d][i] = m.pdt[KernelPdt][i]  BY <2>1, <2>3, <2>5
  <2>8. Translate(m, d, q.kstack_vaddr) = q.kstack  BY <2>6, <2>7, KernelStackFound
  <2>. QED  BY <2>1, <2>2, <2>3, <2>5, <2>8 DEF Processes
<1>. QED  BY <1>1, ProcessInv, PTL

(***************************************************************************)
(* Isolation.  An entry that is open to user mode is entry 0 or the stack  *)
(* entry of a process's directory, so the table is that process's own, and *)
(* a frame is in one table only, but for one on the last page, which none  *)
(* of their pages is.                                                      *)
(***************************************************************************)

\* A page x that user mode reaches through directory d, at entry j of table t
\* in place i.
Reached(m, F, d, i, t, j, x) ==
  /\ i \in UserIdxs /\ i \in PdtIdx /\ i < KernelIdx /\ j \in PtIdx
  /\ t = m.pdt[d][i] /\ t \in DOMAIN m.pt /\ m.pt[t][j] = x /\ x \in F
  /\ ~OnLast(m, x)

\* What user mode reaches through the directory of a process is the code or
\* the stack of the process.
LEMMA UserReach ==
  ASSUME NEW F, F \in SUBSET (Nat \ {0}), NEW m, MemOK(m, F), NEW q \in Struct(F),
         Complete(m, q), NEW v \in Nat, UserMode(m, q.pdt, v)
  PROVE  /\ Translate(m, q.pdt, v) \in {q.code, q.stack}
         /\ Reached(m, F, q.pdt, pdt_idx(v), m.pdt[q.pdt][pdt_idx(v)], pt_idx(v),
                    Translate(m, q.pdt, v))
<1>1. PICK d : d = q.pdt  OBVIOUS
<1>2. PICK i : i = pdt_idx(v)  OBVIOUS
<1>3. PICK j : j = pt_idx(v)  OBVIOUS
<1>4. PICK t : t = m.pdt[d][i]  OBVIOUS
<1>5. PICK x : x = Translate(m, q.pdt, v)  OBVIOUS
<1>6. i \in PdtIdx /\ j \in PtIdx  BY <1>2, <1>3, IndicesOf
<1>7. <<d, i>> \in m.upde /\ <<t, j>> \in m.upte
  BY <1>1, <1>2, <1>3, <1>4 DEF UserMode
<1>8. i \in UserIdxs /\ t \in DOMAIN m.pt /\ d \in Dirs(m)  BY <1>7 DEF MemOK, Typed
<1>9. i < KernelIdx  BY <1>8, Sizes DEF UserIdxs, StackIdx
<1>10. m.pt[t][j] # Absent  BY <1>6, <1>7, <1>8 DEF MemOK, UserTables
<1>15. t # Absent
  <2>1. DOMAIN m.pt \subseteq F \cup {KernelPt} /\ Absent # KernelPt
    BY DEF MemOK, Typed, Absent, KernelPt
  <2>. QED  BY <2>1, <1>8, FrameKinds
<1>16. pde(m, d, i) = t  BY <1>4, <1>15, PresentEntry
<1>11. x = m.pt[t][j]
  BY <1>1, <1>2, <1>3, <1>4, <1>5, <1>8, <1>16 DEF Translate, IsTable
<1>12. x \in {q.code, q.stack} /\ ~OnLast(m, x)
  <2>1. CASE i = 0
    <3>1. j = 0  BY <2>1, <1>4, <1>6, <1>8, <1>10 DEF MemOK, UserTables
    <3>2. t # Identity
      <4>1. DOMAIN m.pt \subseteq F \cup {KernelPt}  BY DEF MemOK, Typed
      <4>2. Identity # KernelPt  BY DEF Identity, KernelPt
      <4>. QED  BY <4>1, <4>2, <1>8, FrameKinds
    <3>3. CodeBuilt(m, q) /\ ~OnLast(m, q.code)  BY <3>2, <2>1, <1>1, <1>4 DEF Complete
    <3>. QED  BY <3>1, <3>3, <2>1, <1>1, <1>4, <1>11 DEF CodeBuilt, OpenTo
  <2>2. CASE i = StackIdx
    <3>1. j = TmpIdx  BY <2>2, <1>4, <1>6, <1>8, <1>10 DEF MemOK, UserTables
    <3>2. StackBuilt(m, q) /\ ~OnLast(m, q.stack)  BY DEF Complete
    <3>. QED  BY <3>1, <3>2, <2>2, <1>1, <1>4, <1>11 DEF StackBuilt, OpenTo
  <2>. QED  BY <2>1, <2>2, <1>8 DEF UserIdxs
<1>13. x \in F  BY <1>12 DEF Struct
<1>14. Reached(m, F, d, i, t, j, x)
  BY <1>4, <1>6, <1>8, <1>9, <1>11, <1>12, <1>13 DEF Reached
<1>. QED  BY <1>1, <1>2, <1>3, <1>4, <1>5, <1>12, <1>14

\* No other directory reaches such a page, at any of its entries.
LEMMA ReachedOnce ==
  ASSUME NEW F, F \in SUBSET (Nat \ {0}), NEW m, MemOK(m, F), NEW d \in Dirs(m), NEW i, NEW t, NEW j, NEW x,
         Reached(m, F, d, i, t, j, x), NEW e \in DOMAIN m.pdt, e # d,
         NEW k \in PdtIdx, NEW u \in DOMAIN m.pt, u = m.pdt[e][k], NEW l \in PtIdx
  PROVE  m.pt[u][l] # x
<1>. SUFFICES ASSUME m.pt[u][l] = x PROVE FALSE  OBVIOUS
<1>1. /\ i \in PdtIdx /\ i < KernelIdx /\ j \in PtIdx /\ t = m.pdt[d][i]
      /\ t \in DOMAIN m.pt /\ m.pt[t][j] = x /\ x \in F /\ ~OnLast(m, x)
  BY DEF Reached
<1>7. ~IsLast(m, t, j) /\ ~IsLast(m, u, l)
  <2>1. x \notin {0, Absent}  BY <1>1, FrameKinds
  <2>. QED  BY <2>1, <1>1 DEF IsLast, OnLast
<1>3. u = t  BY <1>1, <1>7 DEF MemOK, PagesUnique
<1>4. d \in DOMAIN m.pdt /\ TablesUnique(m)  BY DEF Dirs, MemOK
<1>5. i = k /\ (d = e \/ i >= KernelIdx)  BY <1>1, <1>3, <1>4 DEF TablesUnique
<1>6. ~(i >= KernelIdx)  BY <1>1, Sizes DEF PdtIdx
<1>. QED  BY <1>5, <1>6

\* Where a page of process number k comes from.
PageOf(m, F, s, k, x) ==
  /\ x \in {s[k].code, s[k].stack}
  /\ \E i \in PdtIdx : \E t \in DOMAIN m.pt : \E j \in PtIdx :
       Reached(m, F, s[k].pdt, i, t, j, x)

\* Every page of a process is one of these.
LEMMA UserPagesOf ==
  ASSUME Inv, NEW k \in DOMAIN procs, NEW x \in UserPages(procs[k])
  PROVE  PageOf(mem, installed, procs, k, x)
<1>1. PICK m : m = mem  OBVIOUS
<1>2. PICK F : F = installed  OBVIOUS
<1>3. PICK q : q = procs[k]  OBVIOUS
<1>4. PICK v \in Addresses : UserMode(m, q.pdt, v) /\ x = Translate(m, q.pdt, v)
  BY <1>1, <1>3 DEF UserPages
<1>5. v \in Nat  BY Sizes DEF Addresses
<1>6. F \in SUBSET (Nat \ {0}) /\ MemOK(m, F) /\ q \in Struct(F) /\ Complete(m, q)
  BY <1>1, <1>2, <1>3, FramesNat DEF Inv, ProcsOK
<1>7. PICK i : i = pdt_idx(v)  OBVIOUS
<1>8. PICK j : j = pt_idx(v)  OBVIOUS
<1>9. PICK t : t = m.pdt[q.pdt][i]  OBVIOUS
<1>10. x \in {q.code, q.stack} /\ Reached(m, F, q.pdt, i, t, j, x)
  BY <1>4, <1>5, <1>6, <1>7, <1>8, <1>9, UserReach
<1>11. i \in PdtIdx /\ t \in DOMAIN m.pt /\ j \in PtIdx  BY <1>10 DEF Reached
<1>. QED  BY <1>1, <1>2, <1>3, <1>10, <1>11 DEF PageOf

\* In user mode, a process reaches its own code and stack and nothing else.
THEOREM ProcessesAreIsolated == Spec => []Isolated
<1>1. Inv => Isolated
  <2>. SUFFICES ASSUME Inv, NEW a \in DOMAIN procs, NEW b \in DOMAIN procs
                PROVE  /\ a # b => UserPages(procs[a]) \cap UserPages(procs[b]) = {}
                       /\ UserPages(procs[a]) \subseteq {procs[a].code, procs[a].stack}
                       /\ UserPages(procs[a]) \cap (KernelPages \cup Tables) = {}
    BY DEF Isolated
  <2>1. PICK m : m = mem  OBVIOUS
  <2>2. PICK F : F = installed  OBVIOUS
  <2>3. PICK s : s = procs  OBVIOUS
  <2>4. /\ F \in SUBSET (Nat \ {0}) /\ MemOK(m, F) /\ s[a].pdt \in Dirs(m)
        /\ s[b].pdt \in Dirs(m) /\ (a # b => s[a].pdt # s[b].pdt)
        /\ Apart(m) /\ KernelPdt \in DOMAIN m.pdt
    BY <2>1, <2>2, <2>3, FramesNat DEF Inv, ProcsOK, Complete, MemOK, Typed
  <2>5. \A x \in UserPages(procs[a]) : PageOf(m, F, s, a, x)
    BY <2>1, <2>2, <2>3, UserPagesOf
  <2>6. \A x \in UserPages(procs[b]) : PageOf(m, F, s, b, x)
    BY <2>1, <2>2, <2>3, UserPagesOf
  <2>7. UserPages(procs[a]) \subseteq {procs[a].code, procs[a].stack}
    BY <2>3, <2>5 DEF PageOf
  <2>8. ASSUME a # b, NEW x \in UserPages(procs[a]), x \in UserPages(procs[b]) PROVE FALSE
    <3>1. PICK i \in PdtIdx : \E t \in DOMAIN m.pt : \E j \in PtIdx :
            Reached(m, F, s[a].pdt, i, t, j, x)
      BY <2>5, <2>8 DEF PageOf
    <3>2. PICK t \in DOMAIN m.pt : \E j \in PtIdx : Reached(m, F, s[a].pdt, i, t, j, x)
      BY <3>1
    <3>3. PICK j \in PtIdx : Reached(m, F, s[a].pdt, i, t, j, x)  BY <3>2
    <3>4. PICK k \in PdtIdx : \E u \in DOMAIN m.pt : \E l \in PtIdx :
            Reached(m, F, s[b].pdt, k, u, l, x)
      BY <2>6, <2>8 DEF PageOf
    <3>5. PICK u \in DOMAIN m.pt : \E l \in PtIdx : Reached(m, F, s[b].pdt, k, u, l, x)
      BY <3>4
    <3>6. PICK l \in PtIdx : Reached(m, F, s[b].pdt, k, u, l, x)  BY <3>5
    <3>7. PICK d : d = s[a].pdt  OBVIOUS
    <3>8. PICK e : e = s[b].pdt  OBVIOUS
    <3>9. d \in Dirs(m) /\ e \in DOMAIN m.pdt /\ e # d
      BY <3>7, <3>8, <2>4, <2>8 DEF Dirs
    <3>10. m.pdt[e][k] = u /\ m.pt[u][l] = x  BY <3>6, <3>8 DEF Reached
    <3>11. m.pt[u][l] # x
      BY <3>3, <3>7, <3>9, <3>10, <2>4, ReachedOnce
    <3>. QED  BY <3>10, <3>11
  <2>9. ASSUME NEW x \in UserPages(procs[a]) PROVE x \notin KernelPages /\ x \notin Tables
    <3>1. PICK i \in PdtIdx : \E t \in DOMAIN m.pt : \E j \in PtIdx :
            Reached(m, F, s[a].pdt, i, t, j, x)
      BY <2>5, <2>9 DEF PageOf
    <3>2. PICK t \in DOMAIN m.pt : \E j \in PtIdx : Reached(m, F, s[a].pdt, i, t, j, x)
      BY <3>1
    <3>3. PICK j \in PtIdx : Reached(m, F, s[a].pdt, i, t, j, x)  BY <3>2
    <3>4. m.pt[t][j] = x /\ x \in F  BY <3>3 DEF Reached
    <3>5. x \notin Tables  BY <3>4, <2>1, <2>4, TablesInDomain DEF Apart
    <3>6. ASSUME x \in KernelPages PROVE FALSE
      <4>1. PICK v \in Addresses : x = Translate(m, KernelPdt, v)
        BY <3>6, <2>1 DEF KernelPages
      <4>2. v \in Nat  BY Sizes DEF Addresses
      <4>3. PICK k : k = pdt_idx(v)  OBVIOUS
      <4>4. PICK l : l = pt_idx(v)  OBVIOUS
      <4>5. k \in PdtIdx /\ l \in PtIdx  BY <4>2, <4>3, <4>4, IndicesOf
      <4>6. x # Absent  BY <3>4, <2>4, FrameKinds
      <4>7. PICK e : e = KernelPdt  OBVIOUS
      <4>12. x # Identity /\ Identity \notin DOMAIN m.pt
        BY <3>4, <2>4, FrameKinds, OrderReady
      <4>13. pde(m, e, k) \in DOMAIN m.pt /\ m.pt[pde(m, e, k)][l] = x
        <5>1. pde(m, e, k) \notin DOMAIN m.pt => pde(m, e, k) = x
          BY <4>1, <4>3, <4>4, <4>7 DEF Translate, IsTable
        <5>2. pde(m, e, k) \in {Identity, m.pdt[e][k]}  BY DEF pde
        <5>3. m.pdt[e][k] \in {Absent, Identity} \cup DOMAIN m.pt
          BY <4>5, <4>7, <2>4, EntryKinds
        <5>4. pde(m, e, k) \in DOMAIN m.pt  BY <5>1, <5>2, <5>3, <4>6, <4>12
        <5>. QED  BY <5>4, <4>1, <4>3, <4>4, <4>7 DEF Translate, IsTable
      <4>8. m.pdt[e][k] \in DOMAIN m.pt /\ m.pt[m.pdt[e][k]][l] = x
        BY <4>12, <4>13 DEF pde
      <4>9. PICK d : d = s[a].pdt  OBVIOUS
      <4>10. d \in Dirs(m) /\ e \in DOMAIN m.pdt /\ e # d  BY <4>7, <4>9, <2>4 DEF Dirs
      <4>14. Reached(m, F, d, i, t, j, x)  BY <4>9, <3>3
      <4>15. F \in SUBSET (Nat \ {0}) /\ MemOK(m, F)  BY <2>4
      <4>16. PICK u : u = m.pdt[e][k]  OBVIOUS
      <4>17. u \in DOMAIN m.pt /\ m.pt[u][l] = x  BY <4>8, <4>16
      <4>11. m.pt[u][l] # x
        BY <4>5, <4>10, <4>14, <4>15, <4>16, <4>17, ReachedOnce
      <4>. QED  BY <4>11, <4>17
    <3>. QED  BY <3>5, <3>6
  <2>. QED  BY <2>7, <2>8, <2>9
<1>. QED  BY <1>1, ProcessInv, PTL

=============================================================================
