----------------------------- MODULE FramePool -----------------------------
(***************************************************************************)
(* What the page frame allocator of newbos promises its callers, without   *)
(* the bitmap: a pool of physical page frames.  A request for n frames     *)
(* takes n physically contiguous frames of one memory area out of the pool *)
(* or changes nothing; a frame that is given back can be handed out again. *)
(* No frame is ever created, lost or handed out twice.                     *)
(***************************************************************************)
EXTENDS Naturals

CONSTANTS
  Areas,      \* the memory areas, disjoint sets of contiguous frame numbers
  MaxRequest  \* the largest number of frames one request asks for

VARIABLES
  pool,       \* the frames that can be handed out
  owned       \* the frames that callers hold

vars == <<pool, owned>>

Frames == UNION Areas

Init ==
  /\ pool \in SUBSET Frames
  /\ owned = {}

Run(first, n) == first .. (first + n - 1)

Allocate(n) ==
  \E area \in Areas : \E first \in area :
    /\ Run(first, n) \subseteq area \cap pool
    /\ pool' = pool \ Run(first, n)
    /\ owned' = owned \cup Run(first, n)

Free(frame) ==
  /\ frame \in owned
  /\ pool' = pool \cup {frame}
  /\ owned' = owned \ {frame}

Next ==
  \/ \E n \in 1 .. MaxRequest : Allocate(n)
  \/ \E frame \in owned : Free(frame)

Spec == Init /\ [][Next]_vars
=============================================================================
