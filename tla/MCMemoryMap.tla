---------------------------- MODULE MCMemoryMap ----------------------------
(***************************************************************************)
(* MemoryMap with 4-byte frames and 128 bytes of address space: 1 MB is 8, *)
(* the kernel occupies 8 .. 12, and a frame of the bitmap stands for 8     *)
(* frames.                                                                 *)
(***************************************************************************)
EXTENDS MemoryMap

\* Areas below, at and above 1 MB, aligned and not, up to and beyond the end
\* of the address space.
MCAreas ==
  [addr : {0, 8, 27, 30, 47, 128},
   len  : {2, 7, 15, 19, 34, 77, 125},
   type : {"available", "reserved"}]

Sorted(t) == \A k \in 1 .. (Len(t) - 1) : t[k].addr + t[k].len <= t[k + 1].addr

MCTables == {t \in UNION {[1 .. n -> MCAreas] : n \in 0 .. 3} : Sorted(t)}

=============================================================================
