-------------------------------- MODULE Heap --------------------------------
(***************************************************************************)
(* What kmalloc and kfree promise their callers, without the free list:    *)
(* an arena of memory units and blocks of it that callers hold.  A block   *)
(* is handed out only where nobody holds anything, stays where it is and   *)
(* as long as it is until it is given back, and the arena only grows.      *)
(***************************************************************************)
EXTENDS Naturals

CONSTANT Units   \* the addresses of all units of memory

VARIABLES
  arena,   \* the units that belong to the heap
  blocks   \* blocks[a]: length of the block held at address a

vars == <<arena, blocks>>

Run(a, n) == a .. (a + n - 1)

Held == UNION {Run(a, blocks[a]) : a \in DOMAIN blocks}

Init == arena = {} /\ blocks = [a \in {} |-> 0]

Malloc(a, n) ==
  /\ n > 0 /\ Run(a, n) \subseteq arena \ Held
  /\ blocks' = [x \in DOMAIN blocks \cup {a} |-> IF x = a THEN n ELSE blocks[x]]
  /\ UNCHANGED arena

Free(a) ==
  /\ blocks' = [x \in DOMAIN blocks \ {a} |-> blocks[x]]
  /\ UNCHANGED arena

Grow ==
  /\ arena' \in SUBSET Units /\ arena \subseteq arena'
  /\ UNCHANGED blocks

Next ==
  \/ \E a, last \in arena : Malloc(a, last - a + 1)
  \/ \E a \in DOMAIN blocks : Free(a)
  \/ Grow

Spec == Init /\ [][Next]_vars
=============================================================================
