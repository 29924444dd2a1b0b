------------------------------ MODULE PfaScan ------------------------------
(***************************************************************************)
(* The loop of pfa_allocate, bit by bit, as a recursive function on the    *)
(* positions of the bitmap.  FrameAllocator says in closed form where the  *)
(* loop stops; here the two are compared on every reachable bitmap.        *)
(***************************************************************************)
EXTENDS FrameAllocator, FiniteSetsExt

CellIsZero(b) ==
  LET first == (b \div CellBits) * CellBits
  IN  bits \cap first .. (first + CellBits - 1) = {}

\* Mutant: frames_found survives a clear bit.
ScanBit_NoReset(s, b, num_page_frames) ==
  IF s.result # -1 \/ b \notin bits THEN s
  ELSE LET bit_idx == IF s.frames_found = 0 THEN b ELSE s.bit_idx
           found   == s.frames_found + 1
           fits    == fits_in_one_mmap_entry(bit_idx, num_page_frames)
       IN  [bit_idx      |-> bit_idx,
            frames_found |-> found,
            result       |-> IF found = num_page_frames /\ fits
                             THEN bit_idx ELSE -1]

\* One iteration of the inner loop at position b; result is -1 until the
\* loop returns.
ScanBit(s, b, num_page_frames) ==
  IF s.result # -1 THEN s
  ELSE IF CellIsZero(b) \/ b \notin bits THEN [s EXCEPT !.frames_found = 0]
  ELSE LET bit_idx == IF s.frames_found = 0 THEN b ELSE s.bit_idx
           found   == s.frames_found + 1
           full    == found = num_page_frames
           fits    == fits_in_one_mmap_entry(bit_idx, num_page_frames)
       IN  [bit_idx      |-> bit_idx,
            frames_found |-> IF full /\ ~fits THEN 0 ELSE found,
            result       |-> IF full /\ fits THEN bit_idx ELSE -1]

\* The state of the loop when it reaches position b.
Scan(num_page_frames) ==
  LET s[b \in 0 .. (Cells * CellBits)] ==
        IF b = 0 THEN [bit_idx |-> 0, frames_found |-> 0, result |-> -1]
        ELSE ScanBit(s[b - 1], b - 1, num_page_frames)
  IN  s[Cells * CellBits].result

-----------------------------------------------------------------------------
\* For every bitmap the allocator can reach and every request, the loop
\* returns the index that the action pfa_allocate of FrameAllocator takes,
\* and returns 0 exactly when that action is impossible.
ScanAgrees ==
  \A n \in 1 .. MaxRequest :
    Scan(n) = IF Found(n) = {} THEN -1 ELSE Min(Found(n))
=============================================================================
