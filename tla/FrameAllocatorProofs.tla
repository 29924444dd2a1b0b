------------------------ MODULE FrameAllocatorProofs ------------------------
(***************************************************************************)
(* Proofs about the page frame allocator, for every memory map and every   *)
(* cell and byte width.                                                    *)
(***************************************************************************)
EXTENDS PfaScan, WellFoundedInduction, NaturalsInduction, TLAPS

-----------------------------------------------------------------------------
(***************************************************************************)
(* Facts about mmap[] that the loops over it rely on.  Each is an          *)
(* induction on the entries, done by looking at a smallest counterexample. *)
(***************************************************************************)

\* A nonempty set of natural numbers has a smallest element.
LEMMA Smallest ==
  ASSUME NEW T \in SUBSET Nat, T # {}
  PROVE  \E x \in T : \A y \in T : x <= y
<1>1. IsWellFoundedOn(OpToRel(<, Nat), Nat)
  BY NatLessThanWellFounded
<1>2. PICK x \in T : \A y \in T : ~ (<<y, x>> \in OpToRel(<, Nat))
  BY <1>1, WFMin
<1>3. \A y \in T : ~ (y < x)
  BY <1>2 DEF OpToRel
<1>. QED  BY <1>3

\* The types of the table's fields, pointwise.
LEMMA MmapTypes ==
  /\ mmap_len \in Nat
  /\ \A i \in Entries : /\ i \in Nat \ {0}
                        /\ i \in 1 .. (mmap_len + 1)
                        /\ i + 1 \in 1 .. (mmap_len + 1)
                        /\ addr[i] \in Nat \ {0}
                        /\ len[i] \in Nat
                        /\ offset[i] \in Nat
  /\ \A j \in 1 .. (mmap_len + 1) : j \in Nat /\ offset[j] \in Nat
BY SizesAssumption, MmapAssumption, OffsetAssumption, SMTT(30) DEF Entries

\* The running sums never decrease by less than the length they skip.
LEMMA OffsetsGrow ==
  \A j \in 1 .. (mmap_len + 1) : \A i \in Entries :
    i < j => offset[i] + len[i] <= offset[j]
<1>. DEFINE T == {j \in 1 .. (mmap_len + 1) :
                    \E i \in Entries : i < j /\ offset[i] + len[i] > offset[j]}
<1>1. SUFFICES ASSUME T # {} PROVE FALSE
  <2>1. SUFFICES ASSUME NEW j \in 1 .. (mmap_len + 1), NEW i \in Entries, i < j,
                        ~ (offset[i] + len[i] <= offset[j])
                 PROVE  T # {}
    OBVIOUS
  <2>2. offset[i] + len[i] > offset[j]  BY <2>1, MmapTypes
  <2>. QED  BY <2>1, <2>2
<1>2. PICK j \in T : \A k \in T : j <= k
  <2>1. T \in SUBSET Nat  BY SizesAssumption
  <2>. QED  BY <1>1, <2>1, Smallest
<1>3. PICK i \in Entries : i < j /\ offset[i] + len[i] > offset[j]
  BY <1>2
<1>4. j - 1 \in Entries /\ offset[j] = offset[j - 1] + len[j - 1]
  BY <1>2, <1>3, SizesAssumption, OffsetAssumption DEF Entries
<1>5. i < j - 1
  <2>. HIDE DEF T
  <2>1. j \in Nat /\ offset[j] \in Nat /\ i \in Nat  BY <1>2, <1>3, MmapTypes DEF T
  <2>2. CASE i = j - 1  BY <2>1, <2>2, <1>3, <1>4, MmapTypes
  <2>. QED  BY <2>1, <2>2, <1>3
<1>6. offset[i] + len[i] <= offset[j - 1]
  <2>1. j - 1 \notin T  BY <1>2, <1>4, SizesAssumption DEF Entries
  <2>2. j - 1 \in 1 .. (mmap_len + 1)  BY <1>4, SizesAssumption DEF Entries
  <2>3. ~ (offset[i] + len[i] > offset[j - 1])  BY <2>1, <2>2, <1>5
  <2>. QED  BY <2>2, <2>3, MmapTypes
<1>. QED
  <2>. HIDE DEF T
  <2>1. j \in 1 .. (mmap_len + 1)  BY <1>2 DEF T
  <2>. QED  BY <2>1, <1>3, <1>4, <1>6, MmapTypes

\* An entry's offset is at most its address, so indices of frames never wrap.
LEMMA OffsetBelowAddr ==
  \A i \in Entries : offset[i] <= addr[i]
<1>. DEFINE T == {i \in Entries : offset[i] > addr[i]}
<1>1. SUFFICES ASSUME T # {} PROVE FALSE
  BY MmapTypes
<1>2. PICK i \in T : \A k \in T : i <= k
  <2>1. T \in SUBSET Nat  BY SizesAssumption DEF Entries
  <2>. QED  BY <1>1, <2>1, Smallest
<1>3. i # 1
  BY <1>2, MmapAssumption, OffsetAssumption DEF Entries
<1>4. i - 1 \in Entries /\ offset[i] = offset[i - 1] + len[i - 1]
  BY <1>2, <1>3, SizesAssumption, OffsetAssumption DEF Entries
<1>5. offset[i - 1] <= addr[i - 1]
  BY <1>2, <1>4, SizesAssumption, MmapAssumption, OffsetAssumption, SMTT(30) DEF Entries
<1>6. addr[i - 1] + len[i - 1] <= addr[i]
  BY <1>2, <1>4, SizesAssumption, MmapAssumption DEF Entries
<1>. QED
  <2>. HIDE DEF T
  <2>1. i \in Entries /\ offset[i] > addr[i]  BY <1>2 DEF T
  <2>. QED  BY <2>1, <1>4, <1>5, <1>6, MmapTypes

\* The number of frames stays below the address space: no index wraps around.
LEMMA FramesFit ==
  /\ NumFrames \in Nat \ {0}
  /\ NumFrames < AddrFrames
<1>1. NumFrames \in Nat \ {0}
  BY SizesAssumption, OffsetAssumption DEF NumFrames
<1>2. mmap_len \in Entries
  BY <1>1, SizesAssumption, OffsetAssumption DEF Entries, NumFrames
<1>3. NumFrames = offset[mmap_len] + len[mmap_len]
  BY <1>2, OffsetAssumption DEF NumFrames
<1>4. offset[mmap_len] <= addr[mmap_len] /\ addr[mmap_len] + len[mmap_len] < AddrFrames
  BY <1>2, OffsetBelowAddr, MmapAssumption
<1>. QED
  BY <1>1, <1>2, <1>3, <1>4, SizesAssumption, MmapAssumption, OffsetAssumption DEF Entries

\* Every index below page_frames.len belongs to an entry.
LEMMA EntriesCover ==
  ASSUME NEW b \in 0 .. (NumFrames - 1)
  PROVE  \E i \in Entries : InEntry(b, i)
<1>. DEFINE T == {j \in 1 .. (mmap_len + 1) : offset[j] > b}
<1>1. T \in SUBSET Nat /\ mmap_len + 1 \in T
  BY FramesFit, SizesAssumption, OffsetAssumption DEF NumFrames
<1>2. PICK j \in T : \A k \in T : j <= k
  BY <1>1, Smallest
<1>3. j # 1
  BY <1>2, FramesFit, OffsetAssumption
<1>4. j - 1 \in Entries /\ j - 1 \in 1 .. (mmap_len + 1) /\ j - 1 \notin T
  BY <1>2, <1>3, SizesAssumption DEF Entries
<1>5. offset[j - 1] <= b /\ offset[j] = offset[j - 1] + len[j - 1]
  BY <1>4, <1>2, SizesAssumption, OffsetAssumption, FramesFit DEF Entries
<1>6. InEntry(b, j - 1)
  BY <1>2, <1>4, <1>5, SizesAssumption, MmapAssumption, OffsetAssumption, FramesFit
  DEF InEntry, Entries
<1>. QED  BY <1>4, <1>6

-----------------------------------------------------------------------------
(***************************************************************************)
(* paddr_for_idx and idx_for_paddr are inverse to each other.              *)
(***************************************************************************)

\* paddr_for_idx computes the address inside the entry of the index.
LEMMA PaddrInEntry ==
  ASSUME NEW b \in Nat, NEW i \in Entries, InEntry(b, i)
  PROVE  paddr_for_idx(b) = addr[i] + (b - offset[i])
<1>1. ASSUME NEW j \in Entries, InEntry(b, j) PROVE j = i
  <2>1. CASE i < j
    <3>1. offset[i] + len[i] <= offset[j]  BY <2>1, OffsetsGrow, MmapTypes
    <3>. QED  BY <3>1, <1>1, MmapTypes DEF InEntry
  <2>2. CASE j < i
    <3>1. offset[j] + len[j] <= offset[i]  BY <2>2, OffsetsGrow, MmapTypes
    <3>. QED  BY <3>1, <1>1, MmapTypes DEF InEntry
  <2>. QED  BY <2>1, <2>2, MmapTypes
<1>2. (CHOOSE j \in Entries : InEntry(b, j)) = i
  BY <1>1
<1>. QED  BY <1>2 DEF paddr_for_idx

\* Every index below page_frames.len has an address, in one of the areas.
LEMMA PaddrOfIdx ==
  ASSUME NEW b \in 0 .. (NumFrames - 1)
  PROVE  \E i \in Entries : /\ InEntry(b, i)
                            /\ paddr_for_idx(b) = addr[i] + (b - offset[i])
                            /\ paddr_for_idx(b) \in Area(i)
                            /\ paddr_for_idx(b) \in Nat \ {0}
<1>1. b \in Nat  BY FramesFit
<1>2. PICK i \in Entries : InEntry(b, i)  BY EntriesCover
<1>3. paddr_for_idx(b) = addr[i] + (b - offset[i])  BY <1>1, <1>2, PaddrInEntry
<1>4. paddr_for_idx(b) \in Area(i) /\ paddr_for_idx(b) \in Nat \ {0}
  BY <1>1, <1>2, <1>3, MmapTypes DEF InEntry, Area
<1>. QED  BY <1>2, <1>3, <1>4

\* Giving back what paddr_for_idx returned finds the same bit again.
LEMMA IdxOfPaddr ==
  ASSUME NEW b \in 0 .. (NumFrames - 1)
  PROVE  idx_for_paddr(paddr_for_idx(b)) = b
<1>. DEFINE p == paddr_for_idx(b)
<1>1. PICK i \in Entries : /\ InEntry(b, i)
                           /\ p = addr[i] + (b - offset[i])
                           /\ p \in Nat
  BY PaddrOfIdx
<1>. HIDE DEF p
<1>2. b \in Nat /\ b < AddrFrames /\ AddrFrames \in Nat \ {0}
  BY FramesFit, SizesAssumption
<1>3. addr[i] <= p /\ p < addr[i] + len[i]
  BY <1>1, <1>2, MmapTypes DEF InEntry
<1>4. EndsAbove(p, i)
  BY <1>1, <1>3, MmapTypes, MmapAssumption DEF EndsAbove
<1>5. ASSUME NEW j \in Entries, EndsAbove(p, j) PROVE j = i
  <2>1. CASE i < j
    BY <2>1, <1>1, <1>3, <1>5, MmapTypes DEF EndsAbove
  <2>2. CASE j < i
    BY <2>2, <1>1, <1>4, <1>5, MmapTypes DEF EndsAbove
  <2>. QED  BY <2>1, <2>2, MmapTypes
<1>6. (CHOOSE j \in Entries : EndsAbove(p, j)) = i
  BY <1>4, <1>5
<1>7. idx_for_paddr(p) = (offset[i] + (p - addr[i])) % AddrFrames
  BY <1>4, <1>6 DEF idx_for_paddr
<1>8. offset[i] + (p - addr[i]) = b
  BY <1>1, <1>2, MmapTypes
<1>9. b % AddrFrames = b
  BY <1>2
<1>. QED  BY <1>7, <1>8, <1>9 DEF p

\* Every frame of an area has an index below page_frames.len.
LEMMA FrameHasIdx ==
  ASSUME NEW p \in UNION Areas
  PROVE  \E b \in 0 .. (NumFrames - 1) : paddr_for_idx(b) = p
<1>1. PICK i \in Entries : p \in Area(i)  BY DEF Areas
<1>. DEFINE b == offset[i] + (p - addr[i])
<1>2. b \in Nat /\ InEntry(b, i)  BY <1>1, MmapTypes DEF Area, InEntry
<1>3. paddr_for_idx(b) = p
  <2>1. paddr_for_idx(b) = addr[i] + (b - offset[i])  BY <1>2, PaddrInEntry
  <2>. QED  BY <2>1, <1>1, MmapTypes DEF Area
<1>4. offset[i] + len[i] <= NumFrames
  <2>1. mmap_len + 1 \in 1 .. (mmap_len + 1) /\ i < mmap_len + 1
    BY MmapTypes DEF Entries
  <2>. QED  BY <2>1, OffsetsGrow DEF NumFrames
<1>5. b \in 0 .. (NumFrames - 1)
  BY <1>2, <1>4, MmapTypes, FramesFit DEF InEntry
<1>. QED  BY <1>3, <1>5

-----------------------------------------------------------------------------
(***************************************************************************)
(* The geometry of the bitmap.                                             *)
(***************************************************************************)

\* What integer division computes.
LEMMA Division ==
  ASSUME NEW a \in Nat, NEW d \in Nat \ {0}
  PROVE  /\ a \div d \in Nat
         /\ d * (a \div d) <= a
         /\ a < d * (a \div d) + d
         /\ a % d \in 0 .. (d - 1)
OBVIOUS

\* A quotient is at least every number whose multiple fits.
LEMMA QuotientAtLeast ==
  ASSUME NEW a \in Nat, NEW d \in Nat \ {0}, NEW q \in Nat, d * q <= a
  PROVE  q <= a \div d
<1>. DEFINE r == a \div d
<1>1. r \in Nat /\ a < d * r + d  BY Division
<1>. HIDE DEF r
<1>2. SUFFICES ASSUME r + 1 <= q PROVE FALSE  BY <1>1 DEF r
<1>3. d * (r + 1) <= d * q  BY <1>1, <1>2
<1>4. d * (r + 1) = d * r + d  BY <1>1
<1>. QED  BY <1>1, <1>3, <1>4

\* There is a cell for every frame.
LEMMA FramesHavePositions ==
  /\ Cells \in Nat \ {0}
  /\ CellBits * (Cells - 1) <= NumFrames - 1
  /\ 0 .. (NumFrames - 1) \subseteq Positions
  /\ Positions \subseteq Nat
<1>. DEFINE q == (NumFrames - 1) \div CellBits
<1>1. NumFrames - 1 \in Nat /\ CellBits \in Nat \ {0}
  BY FramesFit, SizesAssumption
<1>2. q \in Nat /\ CellBits * q <= NumFrames - 1 /\ NumFrames - 1 < CellBits * q + CellBits
  BY <1>1, Division
<1>3. Cells = q + 1  BY DEF Cells, div_ceil
<1>. HIDE DEF q
<1>4. Cells * CellBits = CellBits * q + CellBits  BY <1>1, <1>2, <1>3
<1>. DEFINE top == Cells * CellBits
<1>5. Positions = 0 .. (top - 1)  BY DEF Positions
<1>. HIDE DEF top
<1>6. top \in Nat /\ NumFrames <= top
  <2>1. top = CellBits * q + CellBits  BY <1>4 DEF top
  <2>2. CellBits * q \in Nat  BY <1>1, <1>2
  <2>. QED  BY <2>1, <2>2, <1>1, <1>2, FramesFit
<1>7. Cells \in Nat \ {0} /\ Cells - 1 = q  BY <1>2, <1>3
<1>8. CellBits * (Cells - 1) <= NumFrames - 1  BY <1>2, <1>7
<1>9. 0 .. (NumFrames - 1) \subseteq Positions /\ Positions \subseteq Nat
  BY <1>5, <1>6, FramesFit
<1>. QED  BY <1>7, <1>8, <1>9

\* construct_bitmap sets every bit of the cells before the last one.
LEMMA FullCellsSet ==
  ASSUME NEW b \in 0 .. ((Cells - 1) * CellBits - 1)
  PROVE  b \in Positions /\ InitiallySet(b)
<1>. DEFINE full == Cells - 1
            cell == b \div CellBits
            byte == (b % CellBits) \div ByteBits
<1>1. /\ CellBits \in Nat \ {0} /\ ByteBits \in Nat \ {0}
      /\ CellBytes \in Nat /\ CellBits = ByteBits * CellBytes
  <2>1. CellBits \in Nat \ {0} /\ ByteBits \in Nat \ {0} /\ CellBits % ByteBits = 0
    BY SizesAssumption
  <2>. QED  BY <2>1 DEF CellBytes
<1>2. full \in Nat /\ CellBits * full <= NumFrames - 1 /\ NumFrames \in Nat
  BY FramesHavePositions, FramesFit
<1>. HIDE DEF full
<1>3. b \in Nat /\ b < CellBits * full /\ b \in 0 .. (NumFrames - 1)
  <2>1. (Cells - 1) * CellBits = CellBits * full
    BY <1>1, <1>2 DEF full
  <2>. QED  BY <2>1, <1>1, <1>2
<1>4. cell \in Nat /\ CellBits * cell <= b
  BY <1>1, <1>3, Division
<1>5. byte \in Nat
  <2>1. b % CellBits \in Nat  BY <1>1, <1>3, Division
  <2>. QED  BY <2>1, <1>1, Division
<1>6. ByteOf(b) = cell * CellBytes + (CellBytes - 1 - byte)
  BY DEF ByteOf
<1>. HIDE DEF cell, byte
<1>7. cell + 1 <= full
  <2>1. SUFFICES ASSUME full <= cell PROVE FALSE  BY <1>2, <1>4
  <2>2. CellBits * full <= CellBits * cell  BY <2>1, <1>1, <1>2, <1>4
  <2>. QED  BY <2>2, <1>1, <1>2, <1>3, <1>4
<1>8. (cell + 1) * CellBytes <= full * CellBytes
  BY <1>1, <1>2, <1>4, <1>7
<1>9. ByteOf(b) < full * CellBytes
  <2>1. (cell + 1) * CellBytes = cell * CellBytes + CellBytes  BY <1>1, <1>4
  <2>. QED  BY <2>1, <1>1, <1>2, <1>4, <1>5, <1>6, <1>8
<1>10. full * CellBytes <= BitmapBytes - 1
  <2>1. ByteBits * (full * CellBytes) = CellBits * full  BY <1>1, <1>2
  <2>2. full * CellBytes \in Nat  BY <1>1, <1>2
  <2>3. full * CellBytes <= (NumFrames - 1) \div ByteBits
    <3>1. NumFrames - 1 \in Nat  BY FramesFit
    <3>. QED  BY <2>1, <2>2, <3>1, <1>1, <1>2, QuotientAtLeast
  <2>4. (NumFrames - 1) \div ByteBits \in Nat
    <3>1. NumFrames - 1 \in Nat  BY FramesFit
    <3>. QED  BY <3>1, <1>1, Division
  <2>. QED  BY <2>2, <2>3, <2>4 DEF BitmapBytes, div_ceil
<1>11. ByteOf(b) < BitmapBytes - 1
  <2>1. ByteOf(b) \in Int /\ full * CellBytes \in Int /\ BitmapBytes \in Int
    <3>1. (NumFrames - 1) \div ByteBits \in Nat
      <4>1. NumFrames - 1 \in Nat  BY FramesFit
      <4>. QED  BY <4>1, <1>1, Division
    <3>. QED  BY <3>1, <1>1, <1>2, <1>4, <1>5, <1>6 DEF BitmapBytes, div_ceil
  <2>. QED  BY <2>1, <1>9, <1>10
<1>. QED  BY <1>3, <1>11, FramesHavePositions DEF InitiallySet

\* The areas lie between the first one's address and the end of the address
\* space.
LEMMA OffsetFromFirst ==
  \A i \in Entries : offset[i] + addr[1] <= addr[i]
<1>. DEFINE T == {i \in Entries : offset[i] + addr[1] > addr[i]}
<1>0. ASSUME NEW i \in Entries PROVE 1 \in Entries
  BY <1>0, SizesAssumption DEF Entries
<1>1. SUFFICES ASSUME T # {} PROVE FALSE
  BY <1>0, MmapTypes
<1>2. PICK i \in T : \A k \in T : i <= k
  <2>1. T \in SUBSET Nat  BY SizesAssumption DEF Entries
  <2>. QED  BY <1>1, <2>1, Smallest
<1>3. i # 1
  BY <1>2, MmapAssumption, OffsetAssumption DEF Entries
<1>4. i - 1 \in Entries /\ offset[i] = offset[i - 1] + len[i - 1]
  BY <1>2, <1>3, SizesAssumption, OffsetAssumption DEF Entries
<1>5. offset[i - 1] + addr[1] <= addr[i - 1]
  <2>1. i \in Nat /\ 1 \in Entries  BY <1>2, <1>0, SizesAssumption DEF Entries
  <2>2. i - 1 \notin T  BY <1>2, <2>1
  <2>. QED  BY <2>1, <2>2, <1>4, MmapTypes
<1>6. addr[i - 1] + len[i - 1] <= addr[i]
  BY <1>2, <1>4, SizesAssumption, MmapAssumption DEF Entries
<1>. QED
  <2>. HIDE DEF T
  <2>1. i \in Entries /\ offset[i] + addr[1] > addr[i] /\ 1 \in Entries
    BY <1>2, <1>0 DEF T
  <2>. QED  BY <2>1, <1>4, <1>5, <1>6, MmapTypes

\* The index that address 0 wraps around to is not that of a frame, and it is
\* not the one that pfa_free takes for an error either.
LEMMA ZeroWraps ==
  idx_for_paddr(0) \in Nat /\ idx_for_paddr(0) > NumFrames
<1>1. 1 \in Entries /\ mmap_len \in Entries
  BY FramesFit, SizesAssumption, OffsetAssumption DEF Entries, NumFrames
<1>2. \A i \in Entries : EndsAbove(0, i) <=> i = 1
  BY <1>1, SizesAssumption, MmapAssumption DEF EndsAbove, Entries
<1>3. idx_for_paddr(0) = (offset[1] + (0 - addr[1])) % AddrFrames
  BY <1>1, <1>2 DEF idx_for_paddr
<1>4. addr[1] \in Nat \ {0} /\ addr[1] < AddrFrames /\ AddrFrames \in Nat
  BY <1>1, SizesAssumption, MmapAssumption
<1>5. idx_for_paddr(0) = AddrFrames - addr[1]
  <2>1. (0 - addr[1]) % AddrFrames = AddrFrames - addr[1]  BY <1>4
  <2>. QED  BY <2>1, <1>3, <1>4, OffsetAssumption
<1>6. NumFrames = offset[mmap_len] + len[mmap_len]
  BY <1>1, OffsetAssumption DEF NumFrames
<1>7. offset[mmap_len] + addr[1] <= addr[mmap_len]
      /\ addr[mmap_len] + len[mmap_len] < AddrFrames
  BY <1>1, OffsetFromFirst, MmapAssumption
<1>. QED  BY <1>1, <1>4, <1>5, <1>6, <1>7, MmapTypes

\* Positions are numbers, also the one behind the cells.
LEMMA BitsNat ==
  ASSUME TypeOK
  PROVE  bits \subseteq Nat
  BY ZeroWraps, FramesHavePositions, SizesAssumption DEF TypeOK, Positions

-----------------------------------------------------------------------------
(***************************************************************************)
(* What a call of the allocator does, in terms of frames.                  *)
(***************************************************************************)
Run(first, n) == first .. (first + n - 1)

\* pfa_allocate clears the bits of n frames that follow each other in one
\* area, and hands out exactly these frames.
LEMMA AllocateEffect ==
  ASSUME TypeOK, NEW n \in 1 .. MaxRequest, pfa_allocate(n)
  PROVE  \E first \in 0 .. (NumFrames - 1) : \E i \in Entries :
           /\ Run(first, n) \subseteq bits
           /\ Run(first, n) \subseteq 0 .. (NumFrames - 1)
           /\ \A k \in Run(first, n) :
                paddr_for_idx(k) = paddr_for_idx(first) + (k - first)
           /\ paddr_for_idx(first) \in Nat \ {0}
           /\ Run(paddr_for_idx(first), n) \subseteq Area(i)
           /\ bits' = bits \ Run(first, n)
           /\ owned' = owned \cup Run(paddr_for_idx(first), n)
<1>1. n \in Nat \ {0}  BY SizesAssumption
<1>2. PICK b \in Found(n) :
        /\ toggle_bits(b .. (b + n - 1))
        /\ owned' = owned \cup paddr_for_idx(b) .. (paddr_for_idx(b) + n - 1)
  BY DEF pfa_allocate
<1>3. b \in Nat /\ Run(b, n) \subseteq bits
  BY <1>2, BitsNat DEF Found, Tried, Run
<1>4. PICK i \in Entries : InEntry(b, i) /\ b - offset[i] + n <= len[i]
  BY <1>2 DEF Found, fits_in_one_mmap_entry
<1>5. ASSUME NEW k \in Run(b, n)
      PROVE  k \in Nat /\ InEntry(k, i)
  BY <1>1, <1>3, <1>4, <1>5, MmapTypes DEF Run, InEntry
<1>6. ASSUME NEW k \in Run(b, n)
      PROVE  /\ paddr_for_idx(k) = addr[i] + (k - offset[i])
             /\ k \in 0 .. (NumFrames - 1)
  <2>1. k \in Nat /\ InEntry(k, i)  BY <1>5
  <2>2. paddr_for_idx(k) = addr[i] + (k - offset[i])  BY <2>1, PaddrInEntry
  <2>3. offset[i] + len[i] <= NumFrames
    <3>1. mmap_len + 1 \in 1 .. (mmap_len + 1) /\ i < mmap_len + 1
      BY MmapTypes DEF Entries
    <3>. QED  BY <3>1, OffsetsGrow DEF NumFrames
  <2>4. k \in 0 .. (NumFrames - 1)
    BY <2>1, <2>3, MmapTypes, FramesFit DEF InEntry
  <2>. QED  BY <2>2, <2>4
<1>7. b \in Run(b, n)  BY <1>1, <1>3 DEF Run
<1>8. paddr_for_idx(b) = addr[i] + (b - offset[i])  BY <1>6, <1>7
<1>9. \A k \in Run(b, n) : paddr_for_idx(k) = paddr_for_idx(b) + (k - b)
  BY <1>3, <1>5, <1>6, <1>8, MmapTypes
<1>10. paddr_for_idx(b) \in Nat \ {0}
  BY <1>3, <1>4, <1>8, MmapTypes DEF InEntry
<1>11. Run(paddr_for_idx(b), n) \subseteq Area(i)
  BY <1>1, <1>3, <1>4, <1>8, MmapTypes DEF InEntry, Run, Area
<1>12. bits' = bits \ Run(b, n)
  BY <1>2, <1>3 DEF toggle_bits, Run
<1>13. owned' = owned \cup Run(paddr_for_idx(b), n)
  BY <1>2 DEF Run
<1>14. Run(b, n) \subseteq 0 .. (NumFrames - 1)  BY <1>6
<1>15. b \in 0 .. (NumFrames - 1)  BY <1>7, <1>14
<1>. QED
  BY <1>3, <1>9, <1>10, <1>11, <1>12, <1>13, <1>14, <1>15

\* pfa_free of a frame that a caller holds sets the frame's bit.
LEMMA FreeEffect ==
  ASSUME TypeOK, NoDoubleAllocation, NEW paddr \in owned, pfa_free(paddr)
  PROVE  \E b \in 0 .. (NumFrames - 1) :
           /\ paddr_for_idx(b) = paddr
           /\ b \notin bits
           /\ bits' = bits \cup {b}
           /\ owned' = owned \ {paddr}
<1>1. PICK b \in 0 .. (NumFrames - 1) : paddr_for_idx(b) = paddr
  <2>1. paddr \in UNION Areas  BY DEF TypeOK
  <2>. QED  BY <2>1, FrameHasIdx
<1>2. idx_for_paddr(paddr) = b  BY <1>1, IdxOfPaddr
<1>3. b # NumFrames  BY FramesFit
<1>4. b \notin bits  BY <1>1 DEF NoDoubleAllocation
<1>5. toggle_bits({b}) /\ owned' = owned \ {paddr}
  BY <1>2, <1>3 DEF pfa_free
<1>6. bits' = bits \cup {b}  BY <1>4, <1>5 DEF toggle_bits
<1>. QED  BY <1>1, <1>4, <1>5, <1>6

\* The pfa_free(0) of a failed pdt_create leaves the bits of all frames alone.
LEMMA FreeZeroEffect ==
  ASSUME TypeOK, pdt_create_fails
  PROVE  /\ \A b \in 0 .. (NumFrames - 1) : b \in bits' <=> b \in bits
         /\ bits' \subseteq Positions \cup {idx_for_paddr(0)}
         /\ owned' = owned
<1>1. toggle_bits({idx_for_paddr(0)}) /\ owned' = owned \ {0}
  BY ZeroWraps, FramesFit DEF pdt_create_fails, pfa_free
<1>2. 0 \notin owned
  BY MmapAssumption DEF TypeOK, Areas, Area
<1>3. \A b \in 0 .. (NumFrames - 1) : b # idx_for_paddr(0)
  BY ZeroWraps, FramesFit
<1>. QED  BY <1>1, <1>2, <1>3 DEF toggle_bits, TypeOK

-----------------------------------------------------------------------------
(***************************************************************************)
(* The invariant.                                                          *)
(***************************************************************************)
Inv == TypeOK /\ NoDoubleAllocation /\ NoFrameLost

\* The bitmap that construct_bitmap builds satisfies the invariant.
LEMMA InitInv == Init => Inv
<1>. SUFFICES ASSUME Init PROVE Inv
  OBVIOUS
<1>1. owned = {} /\ bits \subseteq Positions
      /\ \A b \in Positions : InitiallySet(b) => b \in bits
  BY DEF Init
<1>2. TypeOK  BY <1>1 DEF TypeOK
<1>3. NoDoubleAllocation  BY <1>1 DEF NoDoubleAllocation
<1>4. NoFrameLost  BY <1>1, FullCellsSet DEF NoFrameLost
<1>. QED  BY <1>2, <1>3, <1>4 DEF Inv

\* Every call preserves the invariant.
LEMMA NextInv == Inv /\ [Next]_vars => Inv'
<1>. SUFFICES ASSUME Inv, [Next]_vars PROVE Inv'
  OBVIOUS
<1>. USE DEF Inv
<1>1. ASSUME NEW n \in 1 .. MaxRequest, pfa_allocate(n) PROVE Inv'
  <2>1. PICK first \in 0 .. (NumFrames - 1), i \in Entries :
           /\ Run(first, n) \subseteq bits
           /\ Run(first, n) \subseteq 0 .. (NumFrames - 1)
           /\ \A k \in Run(first, n) :
                paddr_for_idx(k) = paddr_for_idx(first) + (k - first)
           /\ paddr_for_idx(first) \in Nat \ {0}
           /\ Run(paddr_for_idx(first), n) \subseteq Area(i)
           /\ bits' = bits \ Run(first, n)
           /\ owned' = owned \cup Run(paddr_for_idx(first), n)
    BY <1>1, AllocateEffect
  <2>2. TypeOK'
    BY <2>1 DEF TypeOK, Areas
  <2>3. n \in Nat \ {0} /\ first \in Nat  BY SizesAssumption, FramesFit
  <2>4. ASSUME NEW p \in Run(paddr_for_idx(first), n)
        PROVE  \E k \in Run(first, n) : paddr_for_idx(k) = p
    <3>1. first + (p - paddr_for_idx(first)) \in Run(first, n)
      BY <2>1, <2>3, <2>4 DEF Run
    <3>. QED  BY <3>1, <2>1, <2>3, <2>4 DEF Run
  <2>5. NoDoubleAllocation'
    <3>1. SUFFICES ASSUME NEW b \in 0 .. (NumFrames - 1), b \in bits'
                   PROVE  paddr_for_idx(b) \notin owned'
      BY DEF NoDoubleAllocation
    <3>2. b \in bits /\ b \notin Run(first, n)  BY <3>1, <2>1
    <3>3. paddr_for_idx(b) \notin owned  BY <3>2 DEF NoDoubleAllocation
    <3>4. paddr_for_idx(b) \notin Run(paddr_for_idx(first), n)
      <4>1. SUFFICES ASSUME paddr_for_idx(b) \in Run(paddr_for_idx(first), n)
                     PROVE  FALSE
        OBVIOUS
      <4>2. PICK k \in Run(first, n) : paddr_for_idx(k) = paddr_for_idx(b)
        BY <4>1, <2>4
      <4>3. k = b  BY <4>2, <2>1, IdxOfPaddr
      <4>. QED  BY <4>3, <3>2
    <3>. QED  BY <3>3, <3>4, <2>1
  <2>6. NoFrameLost'
    <3>1. SUFFICES ASSUME NEW b \in 0 .. ((Cells - 1) * CellBits - 1)
                   PROVE  b \in bits' \/ paddr_for_idx(b) \in owned'
      BY DEF NoFrameLost
    <3>2. CASE b \in Run(first, n)
      <4>1. paddr_for_idx(b) = paddr_for_idx(first) + (b - first)
        BY <3>2, <2>1
      <4>2. paddr_for_idx(b) \in Run(paddr_for_idx(first), n)
        BY <4>1, <3>2, <2>1, <2>3 DEF Run
      <4>. QED  BY <4>2, <2>1
    <3>3. CASE b \notin Run(first, n)
      BY <3>3, <2>1 DEF NoFrameLost
    <3>. QED  BY <3>2, <3>3
  <2>. QED  BY <2>2, <2>5, <2>6
<1>2. ASSUME NEW n \in 1 .. MaxRequest, pfa_allocate_fails(n) PROVE Inv'
  BY <1>2 DEF pfa_allocate_fails, vars, TypeOK, NoDoubleAllocation, NoFrameLost
<1>3. ASSUME NEW paddr \in owned, pfa_free(paddr) PROVE Inv'
  <2>1. PICK b \in 0 .. (NumFrames - 1) :
           /\ paddr_for_idx(b) = paddr
           /\ b \notin bits
           /\ bits' = bits \cup {b}
           /\ owned' = owned \ {paddr}
    BY <1>3, FreeEffect
  <2>2. TypeOK'  BY <2>1, FramesHavePositions DEF TypeOK
  <2>3. NoDoubleAllocation'
    BY <2>1 DEF NoDoubleAllocation
  <2>4. NoFrameLost'
    <3>1. SUFFICES ASSUME NEW c \in 0 .. ((Cells - 1) * CellBits - 1)
                   PROVE  c \in bits' \/ paddr_for_idx(c) \in owned'
      BY DEF NoFrameLost
    <3>2. c \in 0 .. (NumFrames - 1)
      <4>1. (Cells - 1) * CellBits = CellBits * (Cells - 1)
        BY FramesHavePositions, SizesAssumption
      <4>. QED  BY <4>1, FramesHavePositions, FramesFit, SizesAssumption
    <3>3. CASE paddr_for_idx(c) = paddr
      <4>1. c = b  BY <3>2, <3>3, <2>1, IdxOfPaddr
      <4>. QED  BY <4>1, <2>1
    <3>4. CASE paddr_for_idx(c) # paddr
      BY <3>4, <2>1 DEF NoFrameLost
    <3>. QED  BY <3>3, <3>4
  <2>. QED  BY <2>2, <2>3, <2>4
<1>4. ASSUME UNCHANGED vars PROVE Inv'
  BY <1>4 DEF vars, TypeOK, NoDoubleAllocation, NoFrameLost
<1>5. ASSUME pdt_create_fails PROVE Inv'
  <2>1. /\ \A b \in 0 .. (NumFrames - 1) : b \in bits' <=> b \in bits
        /\ bits' \subseteq Positions \cup {idx_for_paddr(0)}
        /\ owned' = owned
    BY <1>5, FreeZeroEffect
  <2>2. TypeOK'  BY <2>1 DEF TypeOK
  <2>3. NoDoubleAllocation'  BY <2>1 DEF NoDoubleAllocation
  <2>4. 0 .. ((Cells - 1) * CellBits - 1) \subseteq 0 .. (NumFrames - 1)
    <3>1. (Cells - 1) * CellBits = CellBits * (Cells - 1)
      BY FramesHavePositions, SizesAssumption
    <3>. QED  BY <3>1, FramesHavePositions, FramesFit, SizesAssumption
  <2>5. NoFrameLost'  BY <2>1, <2>4 DEF NoFrameLost
  <2>. QED  BY <2>2, <2>3, <2>5
<1>. QED  BY <1>1, <1>2, <1>3, <1>4, <1>5 DEF Next

\* The invariant holds in every state the allocator can reach.
THEOREM InvHolds == Spec => []Inv
  BY InitInv, NextInv, PTL DEF Spec

\* pfa_allocate hands out only frames that mmap[] describes, and the bit that
\* address 0 wraps around to is the only one flipped outside of the cells.
THEOREM TypeCorrect == Spec => []TypeOK
  BY InvHolds, PTL DEF Inv

\* No frame is free in the bitmap while a caller holds it.
THEOREM NeverTwice == Spec => []NoDoubleAllocation
  BY InvHolds, PTL DEF Inv

\* No frame of the cells before the last one gets lost.
THEOREM NeverLost == Spec => []NoFrameLost
  BY InvHolds, PTL DEF Inv

-----------------------------------------------------------------------------
(***************************************************************************)
(* The bitmap implements the abstract pool of frames.                      *)
(***************************************************************************)

\* A request for one frame fails only when no bit of a frame is set.
LEMMA OneFrameRefused ==
  ASSUME TypeOK, Found(1) = {}
  PROVE  FreeFrames = {}
<1>1. SUFFICES ASSUME NEW b \in bits, b \in 0 .. (NumFrames - 1) PROVE b \in Found(1)
  BY DEF FreeFrames
<1>2. b \in Nat  BY <1>1, FramesFit
<1>3. RunStart(b) \in Nat
  <2>. DEFINE T == {s \in 0 .. b : s .. b \subseteq bits}
  <2>1. T \in SUBSET Nat /\ b \in T  BY <1>1, <1>2
  <2>2. PICK s \in T : \A t \in T : s <= t  BY <2>1, Smallest
  <2>3. s = 0 \/ s - 1 \notin bits
    <3>1. SUFFICES ASSUME s # 0, s - 1 \in bits PROVE FALSE  OBVIOUS
    <3>2. s \in 0 .. b /\ s .. b \subseteq bits  BY <2>2
    <3>3. s - 1 \in 0 .. b  BY <3>1, <3>2, <1>2
    <3>4. (s - 1) .. b \subseteq bits  BY <3>1, <3>2, <1>2
    <3>5. s - 1 \in T  BY <3>3, <3>4
    <3>. HIDE DEF T
    <3>. QED  BY <3>2, <3>5, <2>2
  <2>4. \E t \in 0 .. b : t .. b \subseteq bits /\ (t = 0 \/ t - 1 \notin bits)
    BY <2>2, <2>3
  <2>5. RunStart(b) \in 0 .. b  BY <2>4 DEF RunStart
  <2>. QED  BY <2>5, <1>2
<1>4. Tried(b, 1)
  <2>1. (b - RunStart(b)) % 1 = 0  BY <1>2, <1>3
  <2>2. b .. (b + 1 - 1) \subseteq bits  BY <1>1, <1>2
  <2>. QED  BY <2>1, <2>2 DEF Tried
<1>5. fits_in_one_mmap_entry(b, 1)
  <2>1. PICK i \in Entries : InEntry(b, i)  BY <1>1, EntriesCover
  <2>2. b - offset[i] + 1 <= len[i]  BY <2>1, <1>2, MmapTypes DEF InEntry
  <2>. QED  BY <2>1, <2>2 DEF fits_in_one_mmap_entry
<1>. QED  BY <1>1, <1>4, <1>5 DEF Found

\* pfa_allocate(1) returns 0 only when no frame is free.
THEOREM OneFrameAlwaysFound == Spec => []OneFrameFound
<1>1. Inv => OneFrameFound  BY OneFrameRefused DEF Inv, OneFrameFound
<1>. QED  BY <1>1, InvHolds, PTL

\* The initial bitmap maps to an initial pool.
LEMMA InitPool == Init => Pool!Init
<1>. SUFFICES ASSUME Init PROVE Pool!Init
  OBVIOUS
<1>1. FreeFrames \in SUBSET UNION Areas
  BY PaddrOfIdx DEF FreeFrames, Areas
<1>2. owned = {}  BY DEF Init
<1>. QED  BY <1>1, <1>2 DEF Pool!Init, Pool!Frames

\* Every call of the allocator is a step of the pool.
LEMMA NextPool == Inv /\ [Next]_vars => [Pool!Next]_(Pool!vars)
<1>. SUFFICES ASSUME Inv, [Next]_vars PROVE [Pool!Next]_(Pool!vars)
  OBVIOUS
<1>. USE DEF Inv
<1>1. ASSUME NEW n \in 1 .. MaxRequest, pfa_allocate(n) PROVE Pool!Next
  <2>1. PICK first \in 0 .. (NumFrames - 1), i \in Entries :
           /\ Run(first, n) \subseteq bits
           /\ Run(first, n) \subseteq 0 .. (NumFrames - 1)
           /\ \A k \in Run(first, n) :
                paddr_for_idx(k) = paddr_for_idx(first) + (k - first)
           /\ paddr_for_idx(first) \in Nat \ {0}
           /\ Run(paddr_for_idx(first), n) \subseteq Area(i)
           /\ bits' = bits \ Run(first, n)
           /\ owned' = owned \cup Run(paddr_for_idx(first), n)
    BY <1>1, AllocateEffect
  <2>. DEFINE p == paddr_for_idx(first)
  <2>2. n \in Nat \ {0} /\ first \in Nat  BY SizesAssumption, FramesFit
  <2>3. Run(p, n) = {paddr_for_idx(k) : k \in Run(first, n)}
    <3>1. ASSUME NEW q \in Run(p, n)
          PROVE  \E k \in Run(first, n) : paddr_for_idx(k) = q
      <4>1. first + (q - p) \in Run(first, n)  BY <2>1, <2>2, <3>1 DEF Run
      <4>. QED  BY <4>1, <2>1, <2>2, <3>1 DEF Run
    <3>2. ASSUME NEW k \in Run(first, n)
          PROVE  paddr_for_idx(k) \in Run(p, n)
      <4>1. paddr_for_idx(k) = p + (k - first)  BY <2>1
      <4>. HIDE DEF p
      <4>2. p \in Nat  BY <2>1 DEF p
      <4>. QED  BY <4>1, <4>2, <2>2 DEF Run
    <3>. HIDE DEF p
    <3>. QED  BY <3>1, <3>2
  <2>4. Run(p, n) \subseteq FreeFrames
    BY <2>1, <2>3 DEF FreeFrames
  <2>5. FreeFrames' = FreeFrames \ Run(p, n)
    <3>1. FreeFrames' = {paddr_for_idx(b) : b \in (bits \ Run(first, n)) \cap 0 .. (NumFrames - 1)}
      BY <2>1 DEF FreeFrames
    <3>2. ASSUME NEW b \in 0 .. (NumFrames - 1), NEW k \in Run(first, n),
                 paddr_for_idx(b) = paddr_for_idx(k)
          PROVE  b = k
      BY <3>2, <2>1, IdxOfPaddr
    <3>. HIDE DEF p
    <3>. QED  BY <3>1, <3>2, <2>3 DEF FreeFrames
  <2>6. Area(i) \in Areas /\ p \in Area(i)
    <3>1. p \in Run(p, n)  BY <2>1, <2>2 DEF Run
    <3>. QED  BY <3>1, <2>1 DEF Areas
  <2>7. Pool!Allocate(n)
    <3>1. Pool!Run(p, n) = Run(p, n)  BY DEF Pool!Run, Run
    <3>. HIDE DEF p
    <3>2. owned' = owned \cup Run(p, n) /\ Run(p, n) \subseteq Area(i)
      BY <2>1 DEF p
    <3>. QED  BY <3>1, <3>2, <2>4, <2>5, <2>6 DEF Pool!Allocate
  <2>. QED  BY <2>7 DEF Pool!Next
<1>2. ASSUME NEW n \in 1 .. MaxRequest, pfa_allocate_fails(n)
      PROVE  UNCHANGED Pool!vars
  BY <1>2 DEF pfa_allocate_fails, vars, Pool!vars, FreeFrames
<1>3. ASSUME NEW paddr \in owned, pfa_free(paddr) PROVE Pool!Next
  <2>1. PICK b \in 0 .. (NumFrames - 1) :
           /\ paddr_for_idx(b) = paddr
           /\ b \notin bits
           /\ bits' = bits \cup {b}
           /\ owned' = owned \ {paddr}
    BY <1>3, FreeEffect
  <2>2. FreeFrames' = FreeFrames \cup {paddr}
    <3>1. FreeFrames' = {paddr_for_idx(c) : c \in (bits \cup {b}) \cap 0 .. (NumFrames - 1)}
      BY <2>1 DEF FreeFrames
    <3>. QED  BY <3>1, <2>1 DEF FreeFrames
  <2>3. Pool!Free(paddr)  BY <2>1, <2>2 DEF Pool!Free
  <2>. QED  BY <2>3 DEF Pool!Next
<1>4. ASSUME UNCHANGED vars PROVE UNCHANGED Pool!vars
  BY <1>4 DEF vars, Pool!vars, FreeFrames
<1>5. ASSUME pdt_create_fails PROVE UNCHANGED Pool!vars
  <2>1. bits' \cap 0 .. (NumFrames - 1) = bits \cap 0 .. (NumFrames - 1)
        /\ owned' = owned
    BY <1>5, FreeZeroEffect
  <2>. QED  BY <2>1 DEF Pool!vars, FreeFrames
<1>. QED  BY <1>1, <1>2, <1>3, <1>4, <1>5 DEF Next

\* The bitmap allocator implements the abstract pool: n contiguous frames of
\* one area or nothing, none twice, none lost.
THEOREM ImplementsPool == Spec => PoolSpec
<1>1. Spec => []Inv  BY InvHolds
<1>. QED  BY <1>1, InitPool, NextPool, PTL DEF Spec, PoolSpec, Pool!Spec

-----------------------------------------------------------------------------
(***************************************************************************)
(* The loop of pfa_allocate stops where FrameAllocator says it does.       *)
(***************************************************************************)
LoopStart == [bit_idx |-> 0, frames_found |-> 0, result |-> -1]

\* s is the state of the loop at each position.
IsLoop(s, n, last) ==
  s = [b \in 0 .. last |-> IF b = 0 THEN LoopStart ELSE ScanBit(s[b - 1], b - 1, n)]

LoopExists(n, last) == \E s : IsLoop(s, n, last)

\* The quotient and the remainder are determined by their equation.
LEMMA Remainder ==
  ASSUME NEW n \in Nat \ {0}, NEW q \in Nat, NEW f \in Nat, f < n
  PROVE  (n * q + f) % n = f
<1>1. PICK a : a = n * q + f  OBVIOUS
<1>2. PICK x : x = a \div n  OBVIOUS
<1>3. PICK y : y = a % n  OBVIOUS
<1>4. a \in Nat  BY <1>1
<1>5. x \in Int /\ y \in Nat /\ y < n /\ a = n * x + y  BY <1>2, <1>3, <1>4
<1>6. PICK k : k = q - x  OBVIOUS
<1>7. k \in Int /\ y - f = n * k  BY <1>1, <1>5, <1>6
<1>8. (k > 0 => n * k >= n) /\ (k < 0 => n * k <= -n)  BY <1>7
<1>9. k = 0  BY <1>5, <1>7, <1>8
<1>. QED  BY <1>1, <1>3, <1>5, <1>7, <1>9

\* The recursive definition of the loop's state has a solution, by induction
\* on the last position.
LEMMA LoopIsDefined ==
  ASSUME NEW n, NEW last \in Nat
  PROVE  LoopExists(n, last)
<1>. DEFINE T == {k \in Nat : ~LoopExists(n, k)}
<1>1. SUFFICES ASSUME T # {} PROVE FALSE  OBVIOUS
<1>2. PICK k \in T : \A o \in T : k <= o
  <2>1. T \in SUBSET Nat  OBVIOUS
  <2>. QED  BY <1>1, <2>1, Smallest
<1>3. k \in Nat /\ ~LoopExists(n, k) /\ \A o \in Nat : o < k => LoopExists(n, o)
  <2>1. k \in Nat /\ ~LoopExists(n, k)  BY <1>2
  <2>2. ASSUME NEW o \in Nat, o < k, ~LoopExists(n, o) PROVE FALSE
    <3>1. o \in T  BY <2>2
    <3>2. k <= o  BY <3>1, <1>2
    <3>. QED  BY <3>2, <2>1, <2>2
  <2>. QED  BY <2>1, <2>2
<1>. HIDE DEF T
<1>4. CASE k = 0
  <2>1. PICK s : s = [b \in 0 .. 0 |-> LoopStart]  OBVIOUS
  <2>2. IsLoop(s, n, 0)  BY <2>1 DEF IsLoop
  <2>. QED  BY <2>2, <1>3, <1>4 DEF LoopExists
<1>5. CASE k > 0
  <2>1. k - 1 \in Nat /\ k - 1 < k  BY <1>3, <1>5
  <2>2. PICK s : IsLoop(s, n, k - 1)  BY <2>1, <1>3 DEF LoopExists
  <2>3. PICK u : u = [b \in 0 .. k |-> IF b < k THEN s[b] ELSE ScanBit(s[k - 1], k - 1, n)]
    OBVIOUS
  <2>4. \A b \in 0 .. k : u[b] = IF b = 0 THEN LoopStart ELSE ScanBit(u[b - 1], b - 1, n)
    <3>1. SUFFICES ASSUME NEW b \in 0 .. k
                   PROVE  u[b] = IF b = 0 THEN LoopStart ELSE ScanBit(u[b - 1], b - 1, n)
      OBVIOUS
    <3>2. CASE b < k
      <4>1. b \in 0 .. (k - 1) /\ u[b] = s[b]  BY <3>1, <3>2, <2>3, <1>3
      <4>2. s[b] = IF b = 0 THEN LoopStart ELSE ScanBit(s[b - 1], b - 1, n)
        BY <4>1, <2>2 DEF IsLoop
      <4>3. b # 0 => b - 1 \in 0 .. k /\ b - 1 < k  BY <3>1, <3>2, <1>3
      <4>4. b # 0 => u[b - 1] = s[b - 1]  BY <4>3, <2>3
      <4>. QED  BY <4>1, <4>2, <4>4
    <3>3. CASE b = k
      <4>1. u[k] = ScanBit(s[k - 1], k - 1, n)  BY <2>3, <1>3
      <4>2. u[k - 1] = s[k - 1]  BY <2>1, <2>3, <1>3
      <4>. QED  BY <4>1, <4>2, <3>3, <1>5, <1>3
    <3>. QED  BY <3>1, <3>2, <3>3, <1>3
  <2>5. u = [b \in 0 .. k |-> IF b = 0 THEN LoopStart ELSE ScanBit(u[b - 1], b - 1, n)]
    BY <2>3, <2>4
  <2>6. IsLoop(u, n, k)  BY <2>5 DEF IsLoop
  <2>. QED  BY <2>6, <1>3 DEF LoopExists
<1>. QED  BY <1>3, <1>4, <1>5

\* f is what is left over when the set bits before b, from the last clear one
\* on, are divided into requests.
LeftOver(b, n, f) ==
  \E r \in 0 .. b : \E q \in Nat :
    /\ r .. (b - 1) \subseteq bits /\ (r = 0 \/ r - 1 \notin bits)
    /\ b - r = n * q + f

\* The state of the loop before position b, as long as it has not returned.
Searching(st, b, n) ==
  /\ st.result = -1
  /\ st.frames_found \in 0 .. (n - 1)
  /\ LeftOver(b, n, st.frames_found)
  /\ st.frames_found > 0 => st.bit_idx = b - st.frames_found
  /\ \A x \in Found(n) : x + n > b

\* The loop has returned the first hit.
Returned(st, n) ==
  st.result \in Found(n) /\ \A x \in Found(n) : st.result <= x

States == [bit_idx : Int, frames_found : Int, result : Int]

\* The run of set bits that holds b starts behind the last clear bit before b.
LEMMA RunStartIs ==
  ASSUME NEW b \in Nat, NEW r \in 0 .. b, r .. b \subseteq bits, r = 0 \/ r - 1 \notin bits
  PROVE  RunStart(b) = r
<1>1. PICK s : s = RunStart(b)  OBVIOUS
<1>2. s \in 0 .. b /\ s .. b \subseteq bits /\ (s = 0 \/ s - 1 \notin bits)
  BY <1>1 DEF RunStart
<1>3. ~(s < r)
  <2>1. SUFFICES ASSUME s < r PROVE FALSE  OBVIOUS
  <2>2. r - 1 \in s .. b  BY <2>1, <1>2
  <2>. QED  BY <2>1, <2>2, <1>2
<1>4. ~(r < s)
  <2>1. SUFFICES ASSUME r < s PROVE FALSE  OBVIOUS
  <2>2. s - 1 \in r .. b  BY <2>1, <1>2
  <2>. QED  BY <2>1, <2>2, <1>2
<1>. QED  BY <1>1, <1>2, <1>3, <1>4

\* At a clear bit the count starts again, and no hit ends there.
LEMMA ClearBit ==
  ASSUME NEW n \in Nat \ {0}, NEW b \in Nat, NEW st \in States, bits \subseteq Nat,
         Searching(st, b, n), b \notin bits
  PROVE  Searching(ScanBit(st, b, n), b + 1, n)
<1>1. PICK u : u = ScanBit(st, b, n)  OBVIOUS
<1>2. u = [st EXCEPT !.frames_found = 0]  BY <1>1 DEF ScanBit, Searching
<1>3. u.result = -1 /\ u.frames_found = 0  BY <1>2 DEF Searching, States
<1>4. \A x \in Found(n) : x + n > b + 1
  <2>1. SUFFICES ASSUME NEW x \in Found(n), ~(x + n > b + 1) PROVE FALSE  OBVIOUS
  <2>2. x + n > b /\ x .. (x + n - 1) \subseteq bits  BY <2>1 DEF Searching, Found, Tried
  <2>3. x \in Nat  BY <2>1 DEF Found
  <2>4. b \in x .. (x + n - 1)  BY <2>1, <2>2, <2>3
  <2>. QED  BY <2>4, <2>2
<1>5. LeftOver(b + 1, n, u.frames_found)
  <2>1. PICK c : c = b + 1  OBVIOUS
  <2>2. c \in 0 .. c /\ c .. (c - 1) \subseteq bits /\ c - 1 \notin bits  BY <2>1
  <2>3. c - c = n * 0 + u.frames_found  BY <1>3, <2>1
  <2>4. LeftOver(c, n, u.frames_found)  BY <2>2, <2>3 DEF LeftOver
  <2>. QED  BY <2>1, <2>4
<1>6. u.frames_found \in 0 .. (n - 1)  BY <1>3
<1>7. u.frames_found > 0 => u.bit_idx = b + 1 - u.frames_found  BY <1>3
<1>8. Searching(u, b + 1, n)  BY <1>3, <1>4, <1>5, <1>6, <1>7 DEF Searching
<1>. QED  BY <1>1, <1>8

\* At a set bit the loop counts on, returns the first hit, or starts again
\* behind a place that does not fit into one entry.
LEMMA SetBit ==
  ASSUME NEW n \in Nat \ {0}, NEW b \in Nat, NEW st \in States, bits \subseteq Nat,
         Searching(st, b, n), b \in bits
  PROVE  LET u == ScanBit(st, b, n) IN Searching(u, b + 1, n) \/ Returned(u, n)
<1>1. PICK u : u = ScanBit(st, b, n)  OBVIOUS
<1>2. PICK f : f = st.frames_found  OBVIOUS
<1>3. f \in Nat /\ f < n /\ st.result = -1 /\ (f > 0 => st.bit_idx = b - f)
  BY <1>2 DEF Searching
<1>4. PICK r \in 0 .. b : \E q \in Nat :
         /\ r .. (b - 1) \subseteq bits /\ (r = 0 \/ r - 1 \notin bits)
         /\ b - r = n * q + f
  BY <1>2 DEF Searching, LeftOver
<1>5. PICK q \in Nat : b - r = n * q + f  BY <1>4
<1>6. r .. b \subseteq bits /\ (r = 0 \/ r - 1 \notin bits)  BY <1>4
<1>7. ~CellIsZero(b)
  <2>1. CellBits \in Nat \ {0}  BY SizesAssumption
  <2>2. PICK first : first = (b \div CellBits) * CellBits  OBVIOUS
  <2>3. first \in Nat /\ first <= b /\ b < first + CellBits
    <3>1. PICK c : c = b \div CellBits  OBVIOUS
    <3>2. c \in Nat /\ CellBits * c <= b /\ b < CellBits * c + CellBits
      BY <2>1, <3>1, Division
    <3>3. first = CellBits * c  BY <2>1, <2>2, <3>1, <3>2
    <3>. QED  BY <2>1, <3>2, <3>3
  <2>4. b \in first .. (first + CellBits - 1)  BY <2>1, <2>3
  <2>5. bits \cap (first .. (first + CellBits - 1)) # {}  BY <2>4
  <2>. QED  BY <2>5, <2>2 DEF CellIsZero
<1>8. PICK full \in BOOLEAN : full <=> (f + 1 = n)  OBVIOUS
<1>9. PICK fits \in BOOLEAN : fits <=> fits_in_one_mmap_entry(b - f, n)  OBVIOUS
<1>10. /\ u.bit_idx = b - f
       /\ u.frames_found = IF full /\ ~fits THEN 0 ELSE f + 1
       /\ u.result = IF full /\ fits THEN b - f ELSE -1
  <2>1. (IF f = 0 THEN b ELSE st.bit_idx) = b - f  BY <1>3
  <2>2. u = [bit_idx      |-> b - f,
             frames_found |-> IF f + 1 = n /\ ~fits_in_one_mmap_entry(b - f, n)
                              THEN 0 ELSE f + 1,
             result       |-> IF f + 1 = n /\ fits_in_one_mmap_entry(b - f, n)
                              THEN b - f ELSE -1]
    BY <1>1, <1>2, <1>3, <1>7, <2>1 DEF ScanBit
  <2>. QED  BY <2>2, <1>8, <1>9
<1>11. \A x \in Found(n) : x \in Nat /\ x + n > b /\ x .. (x + n - 1) \subseteq bits
  BY DEF Searching, Found, Tried
\* A hit that ends at b has the remainder of the run before it.
<1>12. ASSUME NEW x \in Found(n), x + n = b + 1
       PROVE  f + 1 = n
  <2>1. x \in Nat /\ x .. b \subseteq bits
    <3>1. x \in Nat /\ x + n - 1 = b  BY <1>11, <1>12
    <3>. QED  BY <3>1, <1>11
  <2>2. ~(x < r)
    <3>1. SUFFICES ASSUME x < r PROVE FALSE  OBVIOUS
    <3>2. r - 1 \in x .. b  BY <3>1, <2>1
    <3>. QED  BY <3>1, <3>2, <1>6, <2>1
  <2>3. r \in 0 .. x /\ r .. x \subseteq bits  BY <2>1, <2>2, <1>6, <1>12
  <2>4. RunStart(x) = r  BY <2>1, <2>3, <1>6, RunStartIs
  <2>5. (x - r) % n = 0  BY <2>4 DEF Found, Tried
  <2>6. PICK d : d = x - r  OBVIOUS
  <2>7. d \in Nat /\ d % n = 0  BY <2>3, <2>5, <2>6, <2>1
  <2>8. PICK e : e = d \div n  OBVIOUS
  <2>9. e \in Nat /\ d = n * e  BY <2>7, <2>8
  <2>10. PICK k : k = q - e  OBVIOUS
  <2>11. k \in Int /\ n * k = (n * q) - (n * e)  BY <2>9, <2>10
  <2>12. n * q + f = d + n - 1  BY <1>5, <1>12, <2>6, <2>1, <1>3
  <2>13. n * k = n - 1 - f  BY <2>9, <2>11, <2>12, <1>3
  <2>14. (k > 0 => n * k >= n) /\ (k < 0 => n * k <= -n)  BY <2>11
  <2>15. k = 0  BY <2>13, <2>14, <2>11, <1>3
  <2>. QED  BY <2>13, <2>15, <1>3
\* A place that ends at b, where the count is full, is tried.
<1>13. CASE full /\ fits
  <2>1. f + 1 = n /\ fits_in_one_mmap_entry(b - f, n)  BY <1>8, <1>9, <1>13
  <2>2. PICK x : x = b - f  OBVIOUS
  <2>3. PICK z : z = n * q  OBVIOUS
  <2>4. z \in Nat /\ b - r = z + f  BY <2>3, <1>5
  <2>5. x \in Nat /\ r <= x /\ x <= b /\ x - r = z /\ x + n - 1 = b
    BY <2>1, <2>2, <2>4, <1>3
  <2>6. r \in 0 .. x /\ r .. x \subseteq bits /\ x .. b \subseteq bits  BY <2>5, <1>6
  <2>7. RunStart(x) = r  BY <2>5, <2>6, <1>6, RunStartIs
  <2>8. (n * q + 0) % n = 0  BY Remainder
  <2>9. (x - RunStart(x)) % n = 0  BY <2>3, <2>5, <2>7, <2>8
  <2>10. x \in bits /\ x .. (x + n - 1) \subseteq bits  BY <2>5, <2>6
  <2>11. Tried(x, n)  BY <2>9, <2>10 DEF Tried
  <2>12. x \in Found(n)  BY <2>1, <2>2, <2>10, <2>11 DEF Found
  <2>13. \A y \in Found(n) : x <= y  BY <1>11, <2>5
  <2>14. u.result = x  BY <1>10, <1>13, <2>2
  <2>15. Returned(u, n)  BY <2>12, <2>13, <2>14 DEF Returned
  <2>. QED  BY <2>15, <1>1
<1>14. CASE ~(full /\ fits)
  <2>1. u.result = -1  BY <1>10, <1>14
  <2>2. \A x \in Found(n) : x + n > b + 1
    <3>1. SUFFICES ASSUME NEW x \in Found(n), ~(x + n > b + 1) PROVE FALSE  OBVIOUS
    <3>2. x \in Nat /\ x + n = b + 1  BY <3>1, <1>11
    <3>3. f + 1 = n  BY <3>2, <1>12
    <3>4. x = b - f  BY <3>2, <3>3, <1>3
    <3>5. fits_in_one_mmap_entry(x, n)  BY <3>1 DEF Found
    <3>. QED  BY <3>3, <3>4, <3>5, <1>8, <1>9, <1>14
  <2>3. CASE full
    <3>1. u.frames_found = 0 /\ f + 1 = n  BY <2>3, <1>14, <1>10, <1>8
    <3>2. n * (q + 1) = (n * q) + n  OBVIOUS
    <3>3. b + 1 - r = n * (q + 1) + 0  BY <3>1, <3>2, <1>5, <1>3
    <3>4. PICK c : c = b + 1  OBVIOUS
    <3>5. LeftOver(b + 1, n, u.frames_found)
      <4>1. r \in 0 .. c /\ r .. (c - 1) \subseteq bits  BY <1>6, <3>4
      <4>2. q + 1 \in Nat /\ c - r = n * (q + 1) + u.frames_found  BY <3>1, <3>3, <3>4
      <4>3. LeftOver(c, n, u.frames_found)  BY <4>1, <4>2, <1>6 DEF LeftOver
      <4>. QED  BY <4>3, <3>4
    <3>6. Searching(u, b + 1, n)  BY <2>1, <2>2, <3>1, <3>5 DEF Searching
    <3>. QED  BY <3>6, <1>1
  <2>4. CASE ~full
    <3>1. u.frames_found = f + 1 /\ f + 1 < n  BY <2>4, <1>10, <1>8, <1>3
    <3>2. b + 1 - r = n * q + (f + 1)  BY <1>5, <1>3
    <3>3. PICK c : c = b + 1  OBVIOUS
    <3>4. LeftOver(b + 1, n, u.frames_found)
      <4>1. r \in 0 .. c /\ r .. (c - 1) \subseteq bits  BY <1>6, <3>3
      <4>2. c - r = n * q + u.frames_found  BY <3>1, <3>2, <3>3
      <4>3. LeftOver(c, n, u.frames_found)  BY <4>1, <4>2, <1>6 DEF LeftOver
      <4>. QED  BY <4>3, <3>3
    <3>5. u.bit_idx = b + 1 - u.frames_found  BY <3>1, <1>10, <1>3
    <3>6. Searching(u, b + 1, n)
      BY <2>1, <2>2, <3>1, <3>4, <3>5, <1>3 DEF Searching
    <3>. QED  BY <3>6, <1>1
  <2>. QED  BY <2>3, <2>4, <1>8
<1>. QED  BY <1>13, <1>14

\* One iteration keeps what is known of the loop.
LEMMA ScanStep ==
  ASSUME NEW n \in Nat \ {0}, NEW b \in Nat, NEW st \in States, bits \subseteq Nat,
         Searching(st, b, n) \/ Returned(st, n),
         NEW u, u = ScanBit(st, b, n)
  PROVE  u \in States /\ (Searching(u, b + 1, n) \/ Returned(u, n))
<1>1. u \in States  BY DEF ScanBit, States
<1>2. CASE Returned(st, n)
  <2>1. st.result \in Nat  BY <1>2 DEF Returned, Found
  <2>2. u = st  BY <2>1 DEF ScanBit
  <2>. QED  BY <1>1, <1>2, <2>2
<1>3. CASE Searching(st, b, n) /\ b \notin bits  BY <1>1, <1>3, ClearBit
<1>4. CASE Searching(st, b, n) /\ b \in bits  BY <1>1, <1>4, SetBit
<1>. QED  BY <1>2, <1>3, <1>4

\* What is known of the loop at every position, by induction on the position.
LEMMA ScanInvariant ==
  ASSUME NEW n \in Nat \ {0}, NEW last \in Nat, bits \subseteq Nat,
         NEW s, IsLoop(s, n, last)
  PROVE  s[last] \in States /\ (Searching(s[last], last, n) \/ Returned(s[last], n))
<1>. DEFINE Good(b) == s[b] \in States /\ (Searching(s[b], b, n) \/ Returned(s[b], n))
            T == {b \in 0 .. last : ~Good(b)}
<1>1. SUFFICES ASSUME T # {} PROVE FALSE  OBVIOUS
<1>2. PICK b \in T : \A o \in T : b <= o
  <2>1. T \in SUBSET Nat  OBVIOUS
  <2>. HIDE DEF T
  <2>. QED  BY <1>1, <2>1, Smallest
<1>3. b \in 0 .. last /\ ~Good(b)  BY <1>2
<1>4. \A o \in 0 .. last : o < b => Good(o)
  <2>1. SUFFICES ASSUME NEW o \in 0 .. last, o < b, ~Good(o) PROVE FALSE
    BY Zenon
  <2>2. o \in T  BY <2>1, Zenon
  <2>3. b <= o  BY <2>2, <1>2, Zenon
  <2>. QED  BY <2>1, <2>3, <1>3
<1>5. s[b] = IF b = 0 THEN LoopStart ELSE ScanBit(s[b - 1], b - 1, n)
  BY <1>3 DEF IsLoop
<1>. HIDE DEF T
<1>6. CASE b = 0
  <2>1. PICK st : st = s[b]  OBVIOUS
  <2>2. /\ st = LoopStart /\ st \in States
        /\ st.result = -1 /\ st.frames_found = 0
    BY <2>1, <1>5, <1>6 DEF LoopStart, States
  <2>3. \A x \in Found(n) : x + n > 0  BY DEF Found
  <2>4. LeftOver(0, n, 0)
    <3>1. 0 .. (0 - 1) \subseteq bits /\ 0 - 0 = n * 0 + 0 /\ 0 \in 0 .. 0  OBVIOUS
    <3>. QED  BY <3>1 DEF LeftOver
  <2>5. Searching(st, 0, n)  BY <2>2, <2>3, <2>4 DEF Searching
  <2>. QED  BY <2>1, <2>2, <2>5, <1>3, <1>6
<1>7. CASE b # 0
  <2>1. PICK c : c = b - 1  OBVIOUS
  <2>2. c \in Nat /\ c \in 0 .. last /\ c < b /\ c + 1 = b  BY <2>1, <1>3, <1>7
  <2>3. PICK st : st = s[c]  OBVIOUS
  <2>4. st \in States /\ (Searching(st, c, n) \/ Returned(st, n))  BY <2>2, <2>3, <1>4
  <2>5. PICK u : u = ScanBit(st, c, n)  OBVIOUS
  <2>6. u \in States /\ (Searching(u, c + 1, n) \/ Returned(u, n))
    BY <2>2, <2>4, <2>5, ScanStep
  <2>7. s[b] = u  BY <1>5, <1>7, <2>1, <2>3, <2>5
  <2>. QED  BY <2>2, <2>6, <2>7, <1>3
<1>. QED  BY <1>6, <1>7

\* On every bitmap the loop finds the first hit.
LEMMA ScanFinds ==
  ASSUME TypeOK, NEW n \in 1 .. MaxRequest
  PROVE  Scan(n) = IF Found(n) = {} THEN -1 ELSE Min(Found(n))
<1>1. n \in Nat \ {0}  BY SizesAssumption
<1>2. PICK last : last = Cells * CellBits  OBVIOUS
<1>3. last \in Nat  BY <1>2, FramesHavePositions, SizesAssumption
<1>4. bits \subseteq Nat  BY BitsNat
<1>5. PICK s : s = CHOOSE f : IsLoop(f, n, last)  OBVIOUS
<1>6. IsLoop(s, n, last)  BY <1>3, <1>5, LoopIsDefined DEF LoopExists
<1>7. Scan(n) = s[last].result
  BY <1>2, <1>5 DEF Scan, IsLoop, LoopStart
<1>8. PICK st : st = s[last]  OBVIOUS
<1>9. Searching(st, last, n) \/ Returned(st, n)
  BY <1>1, <1>3, <1>4, <1>6, <1>8, ScanInvariant
<1>10. CASE Searching(st, last, n)
  <2>1. Found(n) = {}
    <3>1. SUFFICES ASSUME NEW x \in Found(n) PROVE FALSE  OBVIOUS
    <3>2. x \in Nat /\ x + n > last
      BY <3>1, <1>4, <1>10 DEF Found, Searching
    <3>3. PICK i \in Entries : InEntry(x, i) /\ x - offset[i] + n <= len[i]
      BY <3>1 DEF Found, fits_in_one_mmap_entry
    <3>4. offset[i] + len[i] <= NumFrames
      <4>1. mmap_len + 1 \in 1 .. (mmap_len + 1) /\ i < mmap_len + 1
        BY MmapTypes DEF Entries
      <4>. QED  BY <4>1, OffsetsGrow DEF NumFrames
    <3>5. NumFrames <= last
      <4>1. NumFrames - 1 \in Positions  BY FramesFit, FramesHavePositions
      <4>. QED  BY <4>1, <1>2, <1>3, FramesFit DEF Positions
    <3>. QED  BY <3>2, <3>3, <3>4, <3>5, <1>1, <1>3, MmapTypes, FramesFit
  <2>. QED  BY <2>1, <1>7, <1>8, <1>10 DEF Searching
<1>11. CASE Returned(st, n)
  <2>1. PICK x : x = st.result  OBVIOUS
  <2>2. x \in Found(n) /\ \A y \in Found(n) : x <= y  BY <2>1, <1>11 DEF Returned
  <2>3. Found(n) \subseteq Nat  BY <1>4 DEF Found
  <2>4. PICK w : w = Min(Found(n))  OBVIOUS
  <2>5. w \in Found(n) /\ \A y \in Found(n) : w <= y  BY <2>2, <2>4 DEF Min
  <2>6. w \in Nat /\ x \in Nat /\ w <= x /\ x <= w  BY <2>2, <2>3, <2>5
  <2>7. w = x  BY <2>6
  <2>. QED  BY <2>1, <2>2, <2>4, <2>7, <1>7, <1>8
<1>. QED  BY <1>9, <1>10, <1>11

\* For every memory map, bitmap and request, the loop of pfa_allocate, cell by
\* cell and bit by bit, stops where the closed form of FrameAllocator says.
THEOREM ScanAlwaysAgrees == Spec => []ScanAgrees
<1>1. TypeOK => ScanAgrees  BY ScanFinds DEF ScanAgrees
<1>. QED  BY <1>1, TypeCorrect, PTL

=============================================================================
