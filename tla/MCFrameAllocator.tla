-------------------------- MODULE MCFrameAllocator --------------------------
(***************************************************************************)
(* Instances of FrameAllocator for TLC: 2-bit bytes and 4-bit cells.       *)
(***************************************************************************)
EXTENDS PfaScan

\* Three areas, the second of a single frame: 9 frames, so the last byte is
\* partly used and the bytes of the last cell are swapped.
MCaddr == <<2, 6, 9>>
MClen == <<3, 1, 5>>
MCoffset == <<0, 3, 4, 9>>

\* Two adjacent areas of 8 frames together: the bitmap ends with a full byte.
MCaddrFull == <<3, 6>>
MClenFull == <<3, 5>>
MCoffsetFull == <<0, 3, 8>>

=============================================================================
