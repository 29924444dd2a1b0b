----------------------------- MODULE MemoryMap -----------------------------
(***************************************************************************)
(* frames_init (kernel/arch/i386/paging.c): from the boot loader's table   *)
(* of memory areas to mmap[] and the bitmap that FrameAllocator starts     *)
(* from.  fill_memory_map copies the available areas above 1 MB and cuts   *)
(* the kernel out, frames_init aligns them to page frames, and             *)
(* construct_bitmap takes the frames of the bitmap off one of them.        *)
(*                                                                         *)
(* Addresses and lengths are bytes; the table has 64-bit values, the       *)
(* kernel computes with Word values of 32 bits.  An iteration of a loop is *)
(* one step.                                                               *)
(***************************************************************************)
EXTENDS Integers, Sequences, FiniteSets

CONSTANTS
  FOUR_KB,               \* bytes of a page frame
  Word,                  \* values of a uint32_t
  LowMemory,             \* areas that start at or below it are left out (1 MB)
  kernel_physical_start,
  kernel_physical_end,
  MAX_NUM_MEMORY_MAP,    \* entries of mmap[] (100)
  ByteBits,              \* bits of a byte (8)
  CellBits,              \* bits of a cell (32)
  FreePages,             \* the longest run of free entries in kernel_pt
  Tables                 \* the boot loader's tables that are considered

Available == "available"     \* MULTIBOOT_MEMORY_AVAILABLE
Reserved == "reserved"       \* any other type

Ends(e) == e.addr + e.len

\* The sizes of the machine and the place of the kernel.  The last line: a
\* bitmap for all of memory does not fit into kernel_pt (2^25 < 2^32).
ASSUME MemoryMapAssumption ==
  /\ {FOUR_KB, Word, ByteBits, CellBits} \subseteq Nat \ {0}
  /\ CellBits % ByteBits = 0 /\ FOUR_KB % (CellBits \div ByteBits) = 0
  /\ Word % FOUR_KB = 0
  /\ LowMemory \in Nat \ {0} /\ kernel_physical_start \in Nat
  /\ LowMemory <= kernel_physical_start
  /\ kernel_physical_end \in (kernel_physical_start + 1) .. (Word - FOUR_KB)
  /\ MAX_NUM_MEMORY_MAP \in Nat /\ FreePages \in Nat
  /\ ByteBits > 1 /\ FreePages * (FOUR_KB * ByteBits) < Word

\* Boot loaders report areas that are sorted and do not overlap.
ASSUME TableAssumption ==
  \A t \in Tables :
    /\ t \in Seq([addr : Nat, len : Nat \ {0}, type : {Available, Reserved}])
    /\ \A j, k \in DOMAIN t : j < k => Ends(t[j]) <= t[k].addr

VARIABLES
  pc,              \* the loop that is under way
  given,           \* bit 6 of multiboot_info->flags: there is a table
  table,           \* the boot loader's table
  i,               \* the loop's index
  mmap,            \* the entries of mmap[] in use
  total_pfs,       \* locals of construct_bitmap
  bitmap_pfs,
  bitmap,          \* the physical address of the bitmap
  page_frames_len  \* page_frames.len

vars == <<pc, given, table, i, mmap, total_pfs, bitmap_pfs, bitmap,
          page_frames_len>>

Init ==
  /\ pc = "fill"
  /\ given \in BOOLEAN
  /\ table \in IF given THEN Tables ELSE {<<>>}
  /\ i = 1
  /\ mmap = <<>>
  /\ total_pfs = 0 /\ bitmap_pfs = 0 /\ bitmap = 0 /\ page_frames_len = 0

-----------------------------------------------------------------------------
(* Arithmetic of a uint32_t.                                               *)

align_up(n, a) == IF n % a = 0 THEN n ELSE (n + (a - (n % a))) % Word
align_down(n, a) == n - (n % a)
div_ceil(num, den) == (((num - 1) % Word) \div den + 1) % Word

-----------------------------------------------------------------------------
(* fill_memory_map.                                                        *)

\* Mutant: the area that begins behind the kernel keeps its length.
CutKernel_KeepsLength(addr, len) ==
  IF addr <= kernel_physical_start /\ (addr + len) % Word > kernel_physical_end
  THEN [addr |-> kernel_physical_end, len |-> len]
  ELSE [addr |-> addr, len |-> len]

\* The area that holds the kernel begins behind it.  The new length is right
\* for an area that starts at 0, too short for every other.
CutKernel(addr, len) ==
  IF addr <= kernel_physical_start /\ (addr + len) % Word > kernel_physical_end
  THEN [addr |-> kernel_physical_end, len |-> (len - kernel_physical_end) % Word]
  ELSE [addr |-> addr, len |-> len]

\* A write behind the last element of mmap[] hits other variables: what the
\* kernel does from there on is not defined.
fill_entry ==
  /\ pc = "fill" /\ i <= Len(table)
  /\ LET e    == table[i]
         area == CutKernel(e.addr % Word, e.len % Word)
         kept == e.type = Available /\ area.addr > LowMemory
         full == Len(mmap) = MAX_NUM_MEMORY_MAP
     IN  /\ mmap' = IF kept /\ ~full THEN Append(mmap, area) ELSE mmap
         /\ pc' = IF kept /\ full THEN "overrun" ELSE pc
  /\ i' = i + 1
  /\ UNCHANGED <<given, table, total_pfs, bitmap_pfs, bitmap, page_frames_len>>

\* The end of the table, or there was none.
fill_done ==
  /\ pc = "fill" /\ i > Len(table)
  /\ pc' = "align" /\ i' = 1
  /\ UNCHANGED <<given, table, mmap, total_pfs, bitmap_pfs, bitmap,
                 page_frames_len>>

-----------------------------------------------------------------------------
(* The loop of frames_init.                                                *)

align_entry ==
  /\ pc = "align" /\ i <= Len(mmap)
  /\ LET addr == align_up(mmap[i].addr, FOUR_KB)
         len  == (mmap[i].len - (addr - mmap[i].addr)) % Word
     IN  mmap' = [mmap EXCEPT ![i] =
                    [addr |-> addr, len |-> align_down(len, FOUR_KB)]]
  /\ i' = i + 1
  /\ UNCHANGED <<pc, given, table, total_pfs, bitmap_pfs, bitmap,
                 page_frames_len>>

align_done ==
  /\ pc = "align" /\ i > Len(mmap)
  /\ pc' = "count" /\ i' = 1
  /\ UNCHANGED <<given, table, mmap, total_pfs, bitmap_pfs, bitmap,
                 page_frames_len>>

-----------------------------------------------------------------------------
(* construct_bitmap.                                                       *)

count_entry ==
  /\ pc = "count" /\ i <= Len(mmap)
  /\ total_pfs' = (total_pfs + mmap[i].len \div FOUR_KB) % Word
  /\ i' = i + 1
  /\ UNCHANGED <<pc, given, table, mmap, bitmap_pfs, bitmap, page_frames_len>>

\* Mutant: the last, partly filled frame of the bitmap is forgotten.
BitmapFrames_RoundsDown(pfs) == div_ceil(pfs, ByteBits) \div FOUR_KB

BitmapFrames(pfs) == div_ceil(div_ceil(pfs, ByteBits), FOUR_KB)

count_done ==
  /\ pc = "count" /\ i > Len(mmap)
  /\ bitmap_pfs' = BitmapFrames(total_pfs)
  /\ pc' = "place" /\ i' = 1
  /\ UNCHANGED <<given, table, mmap, total_pfs, bitmap, page_frames_len>>

BitmapBytes == (bitmap_pfs * FOUR_KB) % Word

\* The first area that is large enough gives its first frames away.
place_bitmap ==
  /\ pc = "place" /\ i <= Len(mmap)
  /\ IF mmap[i].len >= BitmapBytes
     THEN /\ bitmap' = mmap[i].addr
          /\ mmap' = [mmap EXCEPT ![i] =
                        [addr |-> (@.addr + BitmapBytes) % Word,
                         len  |-> @.len - BitmapBytes]]
          /\ page_frames_len' = (total_pfs - bitmap_pfs) % Word
          /\ pc' = "map"
          /\ UNCHANGED i
     ELSE /\ i' = i + 1
          /\ UNCHANGED <<pc, mmap, bitmap, page_frames_len>>
  /\ UNCHANGED <<given, table, total_pfs, bitmap_pfs>>

\* Mutant: the last area is not tried.
place_fails_Early ==
  /\ pc = "place" /\ i >= Len(mmap)
  /\ page_frames_len' = (total_pfs - bitmap_pfs) % Word
  /\ pc' = "failed"
  /\ UNCHANGED <<given, table, i, mmap, total_pfs, bitmap_pfs, bitmap>>

\* No place for the bitmap: construct_bitmap returns 1.
place_fails ==
  /\ pc = "place" /\ i > Len(mmap)
  /\ page_frames_len' = (total_pfs - bitmap_pfs) % Word
  /\ pc' = "failed"
  /\ UNCHANGED <<given, table, i, mmap, total_pfs, bitmap_pfs, bitmap>>

bitmap_size == div_ceil(page_frames_len, ByteBits)
MappedPages == align_up(bitmap_size, FOUR_KB) \div FOUR_KB

\* The pages go into kernel_pt.  When it has no run of that length the
\* search gives an address in a new page table, and pdt_map_memory calls
\* pfa_allocate for it: page_frames.start is still NULL.
map_bitmap ==
  /\ pc = "map"
  /\ pc' = IF MappedPages <= FreePages THEN "ready" ELSE "wild"
  /\ UNCHANGED <<given, table, i, mmap, total_pfs, bitmap_pfs, bitmap,
                 page_frames_len>>

\* frames_init does not look at the result of construct_bitmap: the kernel
\* goes on, and the first pfa_allocate scans memory from address 0.
allocate_without_bitmap ==
  /\ pc = "failed"
  /\ pc' = "wild"
  /\ UNCHANGED <<given, table, i, mmap, total_pfs, bitmap_pfs, bitmap,
                 page_frames_len>>

Next ==
  \/ fill_entry \/ fill_done
  \/ align_entry \/ align_done
  \/ count_entry \/ count_done \/ place_bitmap \/ place_fails \/ map_bitmap
  \/ allocate_without_bitmap

Spec == Init /\ [][Next]_vars

-----------------------------------------------------------------------------
(* The tables for which the arithmetic is right.                           *)

AvailableEntries == {k \in DOMAIN table : table[k].type = Available}

HoldsKernel(e) ==
  e.addr <= kernel_physical_start /\ kernel_physical_end < Ends(e)

\* The entries that fill_memory_map copies when nothing wraps around.
UsableEntries ==
  {k \in AvailableEntries : HoldsKernel(table[k]) \/ table[k].addr > LowMemory}

\* Where the first whole frame of entry e begins, and the bytes behind it
\* that fill_memory_map lets the kernel use.
FirstFrame(e) ==
  align_up(IF HoldsKernel(e) THEN kernel_physical_end ELSE e.addr, FOUR_KB)
UsableBytes(e) ==
  IF HoldsKernel(e) THEN e.len - FirstFrame(e)
  ELSE e.len - (FirstFrame(e) - e.addr)

\* All available memory ends below 4 GB, the kernel was loaded into one area,
\* and neither the length of that area nor that of an area without a page
\* boundary makes a subtraction wrap around.
Regular ==
  /\ \A k \in AvailableEntries : Ends(table[k]) < Word - FOUR_KB
  /\ \E k \in AvailableEntries : HoldsKernel(table[k])
  /\ \A k \in UsableEntries : UsableBytes(table[k]) >= 0

Bytes(addr, len) == addr .. (addr + len - 1)

\* The whole frames of an entry, and the number of all frames.
WholeFrames(e) == Bytes(FirstFrame(e), align_down(UsableBytes(e), FOUR_KB))
AllFrames ==
  Cardinality(UNION {WholeFrames(table[k]) : k \in UsableEntries}) \div FOUR_KB

\* There are more frames than the bitmap takes, and one area can hold it.
RoomForBitmap ==
  /\ AllFrames > BitmapFrames(AllFrames)
  /\ \E k \in UsableEntries :
       UsableBytes(table[k]) >= BitmapFrames(AllFrames) * FOUR_KB
  /\ BitmapFrames(AllFrames) <= FreePages

-----------------------------------------------------------------------------
(* Properties.                                                             *)

Area(k) == Bytes(mmap[k].addr, mmap[k].len)
AvailableBytes ==
  UNION {Bytes(table[k].addr, table[k].len) : k \in AvailableEntries}
KernelImage == kernel_physical_start .. (kernel_physical_end - 1)
BitmapFrameBytes == Bytes(bitmap, bitmap_pfs * FOUR_KB)

\* What frames_init hands to the frame allocator is what FrameAllocator
\* assumes: whole frames, sorted and apart from each other, below the end of
\* the address space, all of them available memory outside of the kernel and
\* of the bitmap, and as many as page_frames.len says, for every table whose
\* areas are regular.
MapUsable ==
  (pc = "ready" /\ Regular) =>
    /\ \A k \in DOMAIN mmap :
         /\ mmap[k].addr % FOUR_KB = 0 /\ mmap[k].len % FOUR_KB = 0
         /\ mmap[k].addr > 0 /\ mmap[k].addr + mmap[k].len < Word
         /\ Area(k) \subseteq AvailableBytes \ (KernelImage \cup BitmapFrameBytes)
    /\ \A j, k \in DOMAIN mmap :
         j < k => mmap[j].addr + mmap[j].len <= mmap[k].addr
    /\ BitmapFrameBytes \subseteq AvailableBytes \ KernelImage
    /\ page_frames_len * FOUR_KB = Cardinality(UNION {Area(k) : k \in DOMAIN mmap})

\* Every cell that the scan of pfa_allocate reads lies in the pages that
\* construct_bitmap maps, and those are frames it has reserved: the last cell
\* may be partly used, the bitmap was sized before its own frames were taken
\* off.  This holds for every table.
ScanInsideBitmap ==
  pc = "ready" =>
    /\ div_ceil(page_frames_len, CellBits) * (CellBits \div ByteBits)
         <= MappedPages * FOUR_KB
    /\ MappedPages <= bitmap_pfs

\* With a regular table of at most 100 available areas and room for the
\* bitmap the kernel never allocates without one and never writes behind
\* mmap[]: the failure that frames_init ignores comes from other tables only.
BitmapBeforeUse ==
  (Regular /\ RoomForBitmap
     /\ Cardinality(AvailableEntries) <= MAX_NUM_MEMORY_MAP)
    => pc \notin {"overrun", "failed", "wild"}

=============================================================================
