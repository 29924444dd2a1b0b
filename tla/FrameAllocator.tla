--------------------------- MODULE FrameAllocator ---------------------------
(***************************************************************************)
(* The physical page frame allocator of newbos (kernel/arch/i386/paging.c):*)
(* a bitmap with one bit per page frame of the available memory, scanned   *)
(* in 32-bit cells, a set bit meaning "free".  frames_init has already     *)
(* built mmap[], the table of available memory areas; addresses, lengths   *)
(* and offsets are counted in page frames, because frames_init aligns all  *)
(* of them to FOUR_KB.                                                     *)
(*                                                                         *)
(* The kernel runs these functions on one CPU and no interrupt handler     *)
(* calls them, so each call is one action.                                 *)
(***************************************************************************)
EXTENDS Integers

CONSTANTS
  mmap_len,   \* number of entries of mmap[] in use
  addr,       \* addr[i]: first frame of entry i, 1 <= i <= mmap_len
  len,        \* len[i]: number of frames of entry i
  offset,     \* offset[i]: number of frames of the entries before entry i
  CellBits,   \* bits of a cell (32)
  ByteBits,   \* bits of a byte (8)
  AddrFrames, \* frames of the 32-bit physical address space (2^20)
  MaxRequest  \* largest num_page_frames that callers ask for

Entries == 1 .. mmap_len

(***************************************************************************)
(* page_frames.len: the number of frames in all entries together.          *)
(***************************************************************************)
NumFrames == offset[mmap_len + 1]

ASSUME SizesAssumption ==
  /\ mmap_len \in Nat
  /\ CellBits \in Nat \ {0}
  /\ ByteBits \in Nat \ {0}
  /\ CellBits % ByteBits = 0
  /\ AddrFrames \in Nat
  /\ MaxRequest \in Nat \ {0}

(***************************************************************************)
(* The entries are sorted by address and disjoint, the order in which boot *)
(* loaders report memory; none starts at frame 0 (fill_memory_map keeps    *)
(* only addresses above 1 MB) and none reaches the end of the address      *)
(* space.                                                                  *)
(***************************************************************************)
ASSUME MmapAssumption ==
  /\ addr \in [Entries -> Nat \ {0}]
  /\ len \in [Entries -> Nat]
  /\ \A i \in Entries : addr[i] + len[i] < AddrFrames
  /\ \A i, j \in Entries : i < j => addr[i] + len[i] <= addr[j]

(***************************************************************************)
(* offset[] holds the running sums of len[], the value of current_offset   *)
(* and byte_offset when the loops over mmap[] reach entry i.               *)
(***************************************************************************)
ASSUME OffsetAssumption ==
  /\ offset \in [1 .. (mmap_len + 1) -> Nat]
  /\ offset[1] = 0
  /\ \A i \in Entries : offset[i + 1] = offset[i] + len[i]
  /\ NumFrames > 0

VARIABLES
  bits,   \* the positions of the bitmap whose bit is 1; behind its cells, the
          \* positions of other memory whose bit is not what its owner wrote
  owned   \* history: the frames handed out and not given back

vars == <<bits, owned>>

-----------------------------------------------------------------------------
(***************************************************************************)
(* The helpers that walk mmap[].                                           *)
(***************************************************************************)
div_ceil(num, den) == (num - 1) \div den + 1

\* The entry that the loops of fits_in_one_mmap_entry and paddr_for_idx
\* stop at: the one that holds the frame with index bit_idx.
InEntry(bit_idx, i) == offset[i] <= bit_idx /\ bit_idx < offset[i] + len[i]

\* Mutants: the call is dropped; the comparison is strict.
fits_in_one_mmap_entry_Dropped(bit_idx, pfs) == TRUE
fits_in_one_mmap_entry_Strict(bit_idx, pfs) ==
  \E i \in Entries :
    InEntry(bit_idx, i) /\ bit_idx - offset[i] + pfs < len[i]

fits_in_one_mmap_entry(bit_idx, pfs) ==
  \E i \in Entries :
    InEntry(bit_idx, i) /\ bit_idx - offset[i] + pfs <= len[i]

paddr_for_idx(bit_idx) ==
  IF \E i \in Entries : InEntry(bit_idx, i)
  THEN LET i == CHOOSE i \in Entries : InEntry(bit_idx, i)
       IN  addr[i] + (bit_idx - offset[i])
  ELSE 0

\* The first entry that ends above paddr; when paddr lies below that entry
\* the unsigned subtraction wraps around.
EndsAbove(paddr, i) ==
  /\ paddr < addr[i] + len[i]
  /\ \A j \in Entries : j < i => addr[j] + len[j] <= paddr

\* Mutant: the lengths of the skipped entries are not added up.
idx_for_paddr_NoOffset(paddr) ==
  IF \E i \in Entries : EndsAbove(paddr, i)
  THEN LET i == CHOOSE i \in Entries : EndsAbove(paddr, i)
       IN  (paddr - addr[i]) % AddrFrames
  ELSE NumFrames

idx_for_paddr(paddr) ==
  IF \E i \in Entries : EndsAbove(paddr, i)
  THEN LET i == CHOOSE i \in Entries : EndsAbove(paddr, i)
       IN  (offset[i] + (paddr - addr[i])) % AddrFrames
  ELSE NumFrames

-----------------------------------------------------------------------------
(***************************************************************************)
(* The bitmap as construct_bitmap leaves it.                               *)
(***************************************************************************)
Cells == div_ceil(NumFrames, CellBits)
Positions == 0 .. (Cells * CellBits - 1)
BitmapBytes == div_ceil(NumFrames, ByteBits)

\* Cells are read as little-endian words and scanned from their most
\* significant bit: the byte of memory that holds a position.
CellBytes == CellBits \div ByteBits
ByteOf(bit_idx) ==
  (bit_idx \div CellBits) * CellBytes
    + (CellBytes - 1 - (bit_idx % CellBits) \div ByteBits)

\* memset to 0xFF, then the last byte gets NumFrames % 8 leading ones.
Initialised(bit_idx) == ByteOf(bit_idx) < BitmapBytes
InitiallySet(bit_idx) ==
  \/ ByteOf(bit_idx) < BitmapBytes - 1
  \/ /\ ByteOf(bit_idx) = BitmapBytes - 1
     /\ bit_idx % ByteBits < NumFrames % ByteBits

\* The bytes of the last cell that lie beyond the bitmap are never written:
\* they hold whatever the memory held.
Init ==
  /\ \E junk \in SUBSET {b \in Positions : ~Initialised(b)} :
       bits = {b \in Positions : InitiallySet(b)} \cup junk
  /\ owned = {}

-----------------------------------------------------------------------------
(***************************************************************************)
(* Flipping bits is an exclusive or.                                       *)
(***************************************************************************)
toggle_bits(flip) == bits' = (bits \ flip) \cup (flip \ bits)

(***************************************************************************)
(* The scan of pfa_allocate counts set bits in frames_found and starts     *)
(* again after a clear bit, and also after every num_page_frames set bits  *)
(* that do not fit into one entry.  So the starts it tries in a run of set *)
(* bits are the multiples of num_page_frames, counted from the run's first *)
(* bit.  (PfaScan gives the loop itself.)                                  *)
(***************************************************************************)
RunStart(b) ==
  CHOOSE s \in 0 .. b : s .. b \subseteq bits /\ (s = 0 \/ s - 1 \notin bits)

Tried(b, num_page_frames) ==
  /\ b .. (b + num_page_frames - 1) \subseteq bits
  /\ (b - RunStart(b)) % num_page_frames = 0

Found(num_page_frames) ==
  {b \in bits : /\ Tried(b, num_page_frames)
                /\ fits_in_one_mmap_entry(b, num_page_frames)}

pfa_allocate(num_page_frames) ==
  \E bit_idx \in Found(num_page_frames) :
    /\ \A b \in Found(num_page_frames) : bit_idx <= b
    /\ toggle_bits(bit_idx .. (bit_idx + num_page_frames - 1))
    /\ LET paddr == paddr_for_idx(bit_idx)
       IN  owned' = owned \cup paddr .. (paddr + num_page_frames - 1)

\* The scan reaches the end: 0 is returned.
pfa_allocate_fails(num_page_frames) ==
  /\ Found(num_page_frames) = {}
  /\ UNCHANGED vars

(***************************************************************************)
(* Callers give back single frames that they got from pfa_allocate: the    *)
(* page directory of a failed pdt_create, the page table of an unmapped    *)
(* region.                                                                 *)
(***************************************************************************)
\* Mutant: the bit is not flipped back.
pfa_free_KeepsBit(paddr) ==
  /\ UNCHANGED bits
  /\ owned' = owned \ {paddr}

pfa_free(paddr) ==
  /\ LET bit_idx == idx_for_paddr(paddr)
     IN  IF bit_idx = NumFrames
         THEN UNCHANGED bits
         ELSE toggle_bits({bit_idx})
  /\ owned' = owned \ {paddr}

\* pdt_create does not look at the 0 of a pfa_allocate that failed.  When the
\* mapping of address 0 fails as well, it gives that address back.
pdt_create_fails ==
  /\ Found(1) = {}
  /\ pfa_free(0)

Next ==
  \/ \E n \in 1 .. MaxRequest : pfa_allocate(n) \/ pfa_allocate_fails(n)
  \/ \E paddr \in owned : pfa_free(paddr)
  \/ pdt_create_fails

Spec == Init /\ [][Next]_vars

-----------------------------------------------------------------------------
(***************************************************************************)
(* Properties.                                                             *)
(***************************************************************************)
Area(i) == addr[i] .. (addr[i] + len[i] - 1)
Areas == {Area(i) : i \in Entries}

\* What callers hold are frames of the available memory: pfa_allocate never
\* hands out a frame that mmap[] does not describe, although the last cell has
\* bits beyond page_frames.len that construct_bitmap leaves set or
\* uninitialised.  Outside of the cells one bit at most is ever flipped, the
\* one that idx_for_paddr computes for the address 0 of a failed pdt_create.
TypeOK ==
  /\ bits \subseteq Positions \cup {idx_for_paddr(0)}
  /\ owned \subseteq UNION Areas

\* A frame that a caller holds is never free in the bitmap, so pfa_allocate
\* cannot hand it out a second time, whatever was allocated and freed before
\* and although pfa_free flips the bit instead of setting it.
NoDoubleAllocation ==
  \A b \in 0 .. (NumFrames - 1) : b \in bits => paddr_for_idx(b) \notin owned

\* No frame of the cells before the last one is ever lost: it is free or
\* somebody holds it.  (Boot gives up frames of the last cell only.)
NoFrameLost ==
  \A b \in 0 .. ((Cells - 1) * CellBits - 1) :
    b \in bits \/ paddr_for_idx(b) \in owned

\* The comment on the count that becomes page_frames.len: all of the
\* "available page frames" are free or in use.
AllFramesAvailable ==
  \A b \in 0 .. (NumFrames - 1) : b \in bits \/ paddr_for_idx(b) \in owned

\* pfa_free reports an address that is not one of a frame, "pfa_free: invalid
\* paddr", instead of flipping a bit: only bits of the cells are ever flipped.
InvalidFreeReported == bits \subseteq Positions

(***************************************************************************)
(* The bitmap implements the abstract pool of frames.                      *)
(***************************************************************************)
FreeFrames == {paddr_for_idx(b) : b \in bits \cap 0 .. (NumFrames - 1)}

\* pfa_allocate(1) returns 0 only when no frame is free, however the bits are
\* spread over areas and cells: the scan that starts again after a clear bit
\* and after a run that does not fit never steps over a single frame.
OneFrameFound == Found(1) = {} => FreeFrames = {}

Pool == INSTANCE FramePool WITH pool <- FreeFrames

\* Every call of pfa_allocate and pfa_free is a step of the abstract pool:
\* contiguous frames of one area, none twice, none lost.
PoolSpec == Pool!Spec
=============================================================================
