------------------------------- MODULE Paging -------------------------------
(***************************************************************************)
(* The page tables of newbos (kernel/arch/i386/paging.c): the operations   *)
(* on page directories, as operators on the record m of everything they    *)
(* read and write:                                                         *)
(*   m.pool        the free page frames, as FramePool describes them       *)
(*   m.pdt[d][i]   entry i of page directory d: a page table or Absent     *)
(*   m.pt[t][j]    entry j of page table t: a frame or Absent              *)
(*   m.upde, m.upte   the entries <<d, i>> and <<t, j>> whose U/S bit lets  *)
(*                    user mode through                                    *)
(*   m.low         the first word of memory, at address 0, reads as an     *)
(*                 entry that is present                                   *)
(*   m.flipped     the bit that toggle_bit reaches for address 0, in the   *)
(*                 page at StrayIdx, is not what the owner of the page     *)
(*                 wrote                                                   *)
(* Addresses and sizes are counted in pages.  An operation that returns a  *)
(* value gives a record with the new m and that value.                     *)
(***************************************************************************)
EXTENDS Integers, FiniteSetsExt

CONSTANTS
  PtEntries,   \* entries of a page table (NUM_ENTRIES, 1024)
  PdtEntries,  \* entries of a page directory (NUM_ENTRIES, 1024)
  KernelIdx,   \* KERNEL_PDT_IDX: first directory entry of the kernel (768)
  BootPages,   \* bound: the pages mapped before the first process is created
  StrayIdx,    \* the entry of kernel_pt that maps the word which toggle_bit
               \* changes for address 0: 31 pages behind that of the bitmap
  StrayEntry   \* the place of that word in its page

\* The word for address 0 has index 2^15 - a / 32 from the bitmap on, where a is
\* the first frame of mmap[].  That area starts behind the kernel's image: below
\* 32 MB, the word is among the last quarter of its page.
ASSUME PagingAssumption ==
  /\ PtEntries \in Nat /\ PdtEntries \in Nat
  /\ KernelIdx \in 2 .. (PdtEntries - 1)
  /\ BootPages \in 1 .. (PtEntries - 2)
  /\ StrayIdx \in (BootPages + 1) .. (PtEntries - 2)
  /\ StrayEntry \in KernelIdx .. (PdtEntries - 1)

Absent == -1

KernelPdt == -2      \* the kernel's page directory, kernel_pdt
KernelPt == -3       \* its first page table, kernel_pt, part of the image
Identity == -4       \* the 4 MB page that boot.s puts into kernel_pdt[0]
ImagePage == -5      \* a frame of the kernel image
BitmapPage == -6     \* the frame of the bitmap

PL0 == FALSE         \* PAGING_PL0: the U/S bit of an entry
PL3 == TRUE          \* PAGING_PL3

TmpIdx == PtEntries - 1                       \* KERNEL_TMP_PT_IDX
KernelStart == KernelIdx * PtEntries          \* KERNEL_START_VADDR
PtIdx == 0 .. (PtEntries - 1)
PdtIdx == 0 .. (PdtEntries - 1)

pdt_idx(vaddr) == (vaddr \div PtEntries) % PdtEntries
pt_idx(vaddr) == vaddr % PtEntries

\* boot.s: the identity page, and the image at the start of kernel_pt.  Then
\* construct_bitmap maps the bitmap behind it; its call has rw and pl in the
\* wrong order, so this entry has the U/S bit.  The image stands for the pages
\* of kernel_main's own kmalloc, too.  The word at address 0 is the BIOS's.
BootMemory(frames, pages, low) ==
  [pool |-> frames,
   pdt  |-> [d \in {KernelPdt} |->
               [i \in PdtIdx |-> CASE i = 0 -> Identity
                                   [] i = KernelIdx -> KernelPt
                                   [] i \notin {0, KernelIdx} -> Absent]],
   pt   |-> [t \in {KernelPt} |->
               [j \in PtIdx |-> CASE j < pages -> ImagePage
                                   [] j = pages -> BitmapPage
                                   [] j > pages -> Absent]],
   upde |-> {},
   upte |-> {<<KernelPt, pages>>},
   low  |-> low,
   flipped |-> FALSE]

-----------------------------------------------------------------------------
(***************************************************************************)
(* The frame pool: the first n free frames that follow each other, or 0.   *)
(***************************************************************************)
\* Mutants: the frames keep their bits; a run is not looked for.
pfa_allocate_KeepsBits(m, n) ==
  LET starts == {f \in m.pool : f .. (f + n - 1) \subseteq m.pool}
  IN  [m |-> m, ret |-> IF starts = {} THEN 0 ELSE Min(starts)]
pfa_allocate_AnyFrame(m, n) ==
  IF m.pool = {} THEN [m |-> m, ret |-> 0]
  ELSE [m   |-> [m EXCEPT !.pool = @ \ (Max(@) .. (Max(@) + n - 1))],
        ret |-> Max(m.pool)]

pfa_allocate(m, n) ==
  LET starts == {f \in m.pool : f .. (f + n - 1) \subseteq m.pool}
  IN  IF starts = {} THEN [m |-> m, ret |-> 0]
      ELSE [m   |-> [m EXCEPT !.pool = @ \ (Min(starts) .. (Min(starts) + n - 1))],
            ret |-> Min(starts)]

\* Address 0 has no bit in the bitmap.  idx_for_paddr wraps around, and the bit
\* that toggle_bit flips lies in the page at StrayIdx (InvalidFreeReported in
\* FrameAllocator).
StrayPage(m) == m.pt[KernelPt][StrayIdx]

pfa_free(m, f) ==
  IF f = 0 THEN [m EXCEPT !.flipped = ~@] ELSE [m EXCEPT !.pool = @ \cup {f}]

-----------------------------------------------------------------------------
(***************************************************************************)
(* The slot through which the kernel reaches a page table.                 *)
(***************************************************************************)
kernel_get_temporary_entry(m) == m.pt[KernelPt][TmpIdx]

\* Mutant: the slot keeps the last page table.
kernel_set_temporary_entry_Skipped(m, entry) == m

kernel_set_temporary_entry(m, entry) ==
  [m EXCEPT !.pt[KernelPt][TmpIdx] = entry]

kernel_map_temporary_memory(m, f) == [m EXCEPT !.pt[KernelPt][TmpIdx] = f]

IsTmp(i, j) == i = KernelIdx /\ j = TmpIdx

\* get_pt_paddr: what a present directory entry is taken to point at.  The
\* identity page has address 0, the real-mode interrupt vectors.
IsTable(m, t) == t \in DOMAIN m.pt

-----------------------------------------------------------------------------
(***************************************************************************)
(* pdt_kernel_find_next_vaddr: the lowest run of n absent entries in one   *)
(* page table of the kernel, or the start of the first absent table.       *)
(***************************************************************************)
FreeRuns(m, i, n) ==
  {j \in PtIdx : /\ j + n <= PtEntries
                 /\ \A k \in j .. (j + n - 1) :
                      m.pt[m.pdt[KernelPdt][i]][k] = Absent /\ ~IsTmp(i, k)}

pdt_kernel_find_next_vaddr(m, n) ==
  LET Fits(i) == m.pdt[KernelPdt][i] = Absent \/ FreeRuns(m, i, n) # {}
      tables  == {i \in KernelIdx .. (PdtEntries - 1) : Fits(i)}
      i       == Min(tables)
  IN  IF tables = {} THEN 0
      ELSE i * PtEntries + (IF m.pdt[KernelPdt][i] = Absent THEN 0
                            ELSE Min(FreeRuns(m, i, n)))

-----------------------------------------------------------------------------
(***************************************************************************)
(* pt_map_memory stops at the first entry in use, at the temporary slot    *)
(* and at the end of the table; mapped says how many pages it got.         *)
(***************************************************************************)
CanMap(m, t, i, j, n) ==
  /\ IsTable(m, t) /\ j + n <= PtEntries
  /\ \A k \in j .. (j + n - 1) : m.pt[t][k] = Absent /\ ~IsTmp(i, k)

\* Address 0 itself, when the word there is taken to be a page table's.
CanMapLow(m, t, j, n) == t = Identity /\ j = 0 /\ n = 1 /\ ~m.low

\* Mutant: the U/S bit is never set.
Grant_Never(entries, new, pl) == entries \ new

\* The U/S bit of entries that create_pt_entry or create_pdt_entry writes.
Grant(entries, new, pl) == IF pl = PL3 THEN entries \cup new ELSE entries \ new

pt_map_memory(m, t, i, paddr, vaddr, n, pl) ==
  LET j      == pt_idx(vaddr)
      mapped == Max({c \in 0 .. n : \/ c = 0 \/ CanMap(m, t, i, j, c)
                                   \/ CanMapLow(m, t, j, c)})
      table  == [k \in PtIdx |-> IF k \in j .. (j + mapped - 1)
                                 THEN paddr + (k - j) ELSE m.pt[t][k]]
      new    == {t} \X (j .. (j + mapped - 1))
  IN  [m   |-> CASE mapped = 0 -> m
                 [] mapped > 0 /\ IsTable(m, t) ->
                      [m EXCEPT !.pt[t] = table, !.upte = Grant(@, new, pl)]
                 [] mapped > 0 /\ ~IsTable(m, t) -> [m EXCEPT !.low = TRUE],
       ret |-> mapped]

\* pfa_allocate and memset for a directory entry that is not present.
NewTable(m, f) ==
  [m EXCEPT !.pt = [u \in DOMAIN @ \cup {f} |->
                      IF u = f THEN [j \in PtIdx |-> Absent] ELSE @[u]],
            !.upte = @ \ ({f} \X PtIdx)]

create_pdt_entry(m, d, i, t, pl) ==
  [m EXCEPT !.pdt[d][i] = t, !.upde = Grant(@, {<<d, i>>}, pl)]

SetPde(m, d, i, t, pl) ==
  IF m.pdt[d][i] = Absent THEN create_pdt_entry(m, d, i, t, pl) ELSE m

\* The page table in place i of directory d, or a new one; Absent if no frame
\* is free.
FindTable(m, d, i) ==
  LET alloc == pfa_allocate(m, 1)
  IN  IF m.pdt[d][i] # Absent THEN [m |-> m, t |-> m.pdt[d][i]]
      ELSE IF alloc.ret = 0 THEN [m |-> m, t |-> Absent]
      ELSE [m |-> NewTable(alloc.m, alloc.ret), t |-> alloc.ret]

(***************************************************************************)
(* One iteration of the loop of pdt_map_memory.  l.mapped pages have been  *)
(* mapped; l.over says that the loop has ended, l.ret with which result.   *)
(***************************************************************************)
MapInTable(l, find, d, i, paddr, v, n, pl) ==
  LET tmp == kernel_get_temporary_entry(l.m)
      After(map, all) ==
        IF map.ret = 0
        THEN [l EXCEPT !.m = kernel_set_temporary_entry(map.m, tmp), !.over = TRUE]
        ELSE [m      |-> kernel_set_temporary_entry(SetPde(map.m, d, i, find.t, pl), tmp),
              mapped |-> all, over |-> all = n, ret |-> IF all = n THEN n ELSE 0]
      result == pt_map_memory(kernel_map_temporary_memory(find.m, find.t), find.t,
                              i, paddr, v, n - l.mapped, pl)
  IN  IF find.t = Absent THEN [l EXCEPT !.over = TRUE]
      ELSE After(result, l.mapped + result.ret)

pdt_map_table(l, d, paddr, vaddr, n, pl) ==
  LET v == vaddr + l.mapped
      i == pdt_idx(v)
  IN  IF l.over THEN l
      ELSE MapInTable(l, FindTable(l.m, d, i), d, i, paddr + l.mapped, v, n, pl)

(***************************************************************************)
(* n is at most PtEntries (pdt_kernel_find_next_vaddr does not support     *)
(* more), so the pages lie in at most two tables, and three iterations     *)
(* are enough: the last one finds the entry at which the second stopped.   *)
(***************************************************************************)
\* Mutant: a frame for a page table is taken before looking for one.
pdt_map_memory_TakesFrame(m, d, paddr, vaddr, n, pl) ==
  LET Iterate(l) == pdt_map_table(l, d, paddr, vaddr, n, pl)
      start == [m |-> pfa_allocate(m, 1).m, mapped |-> 0, over |-> n = 0, ret |-> 0]
      Result(l) == [m |-> l.m, ret |-> l.ret]
  IN  Result(Iterate(Iterate(Iterate(start))))

pdt_map_memory(m, d, paddr, vaddr, n, pl) ==
  LET Iterate(l) == pdt_map_table(l, d, paddr, vaddr, n, pl)
      start == [m |-> m, mapped |-> 0, over |-> n = 0, ret |-> 0]
      Result(l) == [m |-> l.m, ret |-> l.ret]
  IN  Result(Iterate(Iterate(Iterate(start))))

pdt_map_kernel_memory(m, paddr, vaddr, n) ==
  pdt_map_memory(m, KernelPdt, paddr, vaddr, n, PL0)

-----------------------------------------------------------------------------
(***************************************************************************)
(* pdt_unmap_memory: one iteration of its loop, from address vaddr on; ret *)
(* is the address at which the next one starts.  An iteration may leave    *)
(* the address where it is: at an absent entry at a multiple of 4 MB, or   *)
(* at the temporary slot.  pt_unmap_memory is always given the whole size. *)
(***************************************************************************)
AlignUp(vaddr) == ((vaddr + PtEntries - 1) \div PtEntries) * PtEntries

\* Mutant: stops one entry before the temporary slot.
pt_unmap_memory_StopsEarly(m, t, i, vaddr, n) ==
  LET j     == pt_idx(vaddr)
      limit == IF i = KernelIdx THEN TmpIdx - 1 ELSE PtEntries
      freed == Min({n, limit - j})
      table == [k \in PtIdx |-> IF k \in j .. (j + freed - 1)
                                THEN Absent ELSE m.pt[t][k]]
  IN  [m   |-> IF IsTable(m, t)
               THEN [m EXCEPT !.pt[t] = table,
                              !.upte = @ \ ({t} \X (j .. (j + freed - 1)))]
               ELSE [m EXCEPT !.low = @ /\ j # 0],
       ret |-> freed]

pt_unmap_memory(m, t, i, vaddr, n) ==
  LET j     == pt_idx(vaddr)
      limit == IF i = KernelIdx THEN TmpIdx ELSE PtEntries
      freed == Min({n, limit - j})
      table == [k \in PtIdx |-> IF k \in j .. (j + freed - 1)
                                THEN Absent ELSE m.pt[t][k]]
  IN  [m   |-> IF IsTable(m, t)
               THEN [m EXCEPT !.pt[t] = table,
                              !.upte = @ \ ({t} \X (j .. (j + freed - 1)))]
               ELSE [m EXCEPT !.low = @ /\ j # 0],
       ret |-> freed]

\* A page table that was emptied from end to end goes back to the pool.
DropTable(m, d, i, t) ==
  IF i = KernelIdx \/ ~IsTable(m, t) THEN m
  ELSE [pfa_free(m, t) EXCEPT !.pdt[d][i] = Absent,
                              !.upde = @ \ {<<d, i>>},
                              !.pt = [u \in DOMAIN m.pt \ {t} |-> m.pt[u]]]

pdt_unmap_table(m, d, vaddr, size) ==
  LET i     == pdt_idx(vaddr)
      t     == m.pdt[d][i]
      tmp   == kernel_get_temporary_entry(m)
      unmap == pt_unmap_memory(kernel_map_temporary_memory(m, t), t, i, vaddr, size)
      m1    == kernel_set_temporary_entry(unmap.m, tmp)
      m2    == IF unmap.ret = PtEntries THEN DropTable(m1, d, i, t) ELSE m1
  IN  IF t = Absent THEN [m |-> m, ret |-> AlignUp(vaddr)]
      ELSE [m |-> m2, ret |-> vaddr + unmap.ret]

\* Of one page: an iteration that moves on is the last one, one that does not
\* is repeated for ever.  The last page of the address space stays mapped: its
\* end_vaddr is 0, and there is no iteration.
LastPage == PdtEntries * PtEntries - 1

pdt_unmap_kernel_memory(m, vaddr) ==
  LET unmap == pdt_unmap_table(m, KernelPdt, vaddr, 1)
  IN  IF vaddr = LastPage THEN [m |-> m, ret |-> "done"]
      ELSE [m |-> unmap.m, ret |-> IF unmap.ret = vaddr THEN "hung" ELSE "done"]

-----------------------------------------------------------------------------
(***************************************************************************)
(* pdt_create: one frame, mapped into the kernel and cleared.  ret is the  *)
(* address of the frame, or Absent for NULL.  When no frame is free, frame *)
(* 0 is mapped and cleared and 0 is the address returned.  When no address *)
(* is free, address 0 is mapped, and if that succeeds the page there is    *)
(* cleared and its address returned, which is NULL.                        *)
(***************************************************************************)
AddDirectory(m, f) ==
  [d \in DOMAIN m.pdt \cup {f} |->
     IF d = f THEN [i \in PdtIdx |-> Absent] ELSE m.pdt[d]]

\* Mutant: the frame is given back on success, too.
pdt_create_AlwaysFrees(m) ==
  LET alloc == pfa_allocate(m, 1)
      vaddr == pdt_kernel_find_next_vaddr(alloc.m, 1)
      map   == pdt_map_kernel_memory(alloc.m, alloc.ret, vaddr, 1)
      pdt   == AddDirectory(map.m, alloc.ret)
  IN  IF map.ret < 1 \/ alloc.ret = 0
      THEN [m |-> pfa_free(map.m, alloc.ret), ret |-> Absent]
      ELSE [m   |-> pfa_free([map.m EXCEPT !.pdt = pdt], alloc.ret),
            ret |-> alloc.ret]

pdt_create(m) ==
  LET alloc == pfa_allocate(m, 1)
      vaddr == pdt_kernel_find_next_vaddr(alloc.m, 1)
      map   == pdt_map_kernel_memory(alloc.m, alloc.ret, vaddr, 1)
      pdt   == AddDirectory(map.m, alloc.ret)
  IN  IF map.ret < 1
      THEN [m |-> pfa_free(map.m, alloc.ret), ret |-> Absent]
      ELSE [m   |-> IF alloc.ret = 0 \/ vaddr = 0 THEN [map.m EXCEPT !.low = FALSE]
                    ELSE [map.m EXCEPT !.pdt = pdt,
                                       !.upde = @ \ ({alloc.ret} \X PdtIdx)],
            ret |-> IF vaddr = 0 THEN Absent ELSE alloc.ret]

\* Mutant: the kernel's entries are not copied.
pdt_load_process_pdt_NoKernel(m, d) ==
  [m EXCEPT !.pdt[d][0] = m.pdt[KernelPdt][0]]

pdt_load_process_pdt(m, d) ==
  LET copied == {0} \cup {i \in KernelIdx .. (PdtEntries - 1) :
                            m.pdt[KernelPdt][i] # Absent}
      pdt    == [i \in PdtIdx |-> m.pdt[IF i \in copied THEN KernelPdt ELSE d][i]]
  IN  [m EXCEPT !.pdt[d] = pdt,
                !.upde = (@ \ ({d} \X copied))
                           \cup {<<d, i>> : i \in {k \in copied :
                                                    <<KernelPdt, k>> \in @}}]

-----------------------------------------------------------------------------
\* Pages that the entries let user mode reach: both need the U/S bit.
UserMode(m, d, vaddr) ==
  /\ <<d, pdt_idx(vaddr)>> \in m.upde
  /\ <<m.pdt[d][pdt_idx(vaddr)], pt_idx(vaddr)>> \in m.upte

\* An entry of a directory as the processor reads it.  The flipped bit of a
\* directory may be the one that makes the entry StrayEntry present, unless
\* pdt_load_process_pdt has written that entry since: it has a table at
\* address 0 then.  The kernel itself reads entries below KernelIdx only.
pde(m, d, i) ==
  IF m.flipped /\ d = StrayPage(m) /\ i = StrayEntry /\ m.pdt[d][i] = Absent
  THEN Identity ELSE m.pdt[d][i]

\* The processor's translation of a virtual address: Absent for a fault, and
\* Identity for low memory or a page that an entry found there points at.
Translate(m, d, vaddr) ==
  LET t == pde(m, d, pdt_idx(vaddr))
  IN  IF IsTable(m, t) THEN m.pt[t][pt_idx(vaddr)] ELSE t

=============================================================================
