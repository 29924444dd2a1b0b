------------------------------ MODULE Kmalloc ------------------------------
(***************************************************************************)
(* kernel/kmalloc.c: the heap of the newbos kernel, a first-fit allocator  *)
(* with a circular free list sorted by address.                            *)
(*                                                                         *)
(* An address is a multiple of sizeof(header_t); a block is a header and   *)
(* the units behind it.  next and size are the fields of the headers in    *)
(* memory: DOMAIN size is the set of headers, DOMAIN next the headers on   *)
(* the free list.  Every iteration of a loop is a step, so that what the   *)
(* loops do, and that they end, can be checked.                            *)
(***************************************************************************)
EXTENDS Integers

CONSTANTS
  HeaderBytes,   \* sizeof(header_t) (8)
  PageUnits,     \* FOUR_KB in units (512)
  MIN_BLOCK_SIZE,\* the least number of units acquired (1024)
  WordSize,      \* number of values of a size_t (2^32)
  HeapPages,     \* bound: the pages the heap may cover
  Requests       \* the sizes in bytes that callers ask for

ASSUME KmallocAssumption ==
  /\ HeaderBytes \in Nat \ {0}
  /\ PageUnits \in Nat \ {0}
  /\ MIN_BLOCK_SIZE \in Nat
  /\ WordSize \in Nat \ {0}
  /\ HeapPages \in Nat
  /\ Requests \subseteq Nat

Base == 0     \* &base, below every address of the heap
NULL == -1

\* The addresses of the units that the heap may cover.
Units == PageUnits .. (PageUnits * (HeapPages + 1) - 1)

VARIABLES
  next,    \* the next fields of the headers on the free list
  size,    \* the size fields of all headers
  freep,   \* start of the free list
  arena,   \* the units that acquire_more_heap has mapped
  held,    \* history: held[b] bytes were asked for by the owner of block b
  pc,      \* where control is
  nbytes,  \* locals of kmalloc and kfree
  nunits,
  p,
  prevp,
  bp,
  caller   \* who called kfree: a user of the heap or acquire_more_heap

list   == <<next, size, freep>>
locals == <<nbytes, nunits, p, prevp, bp, caller>>
vars   == <<list, arena, held, pc, locals>>

Init ==
  /\ next = [x \in {} |-> Base]
  /\ size = [x \in {} |-> 0]
  /\ freep = NULL
  /\ arena = {}
  /\ held = [x \in {} |-> 0]
  /\ pc = "idle"
  /\ nbytes = 0 /\ nunits = 1
  /\ p = Base /\ prevp = Base /\ bp = Base
  /\ caller = "user"

\* Locals outside of a call have no value: the ones of Init stand for it.
LeaveCall ==
  /\ pc' = "idle"
  /\ nbytes' = 0 /\ nunits' = 1
  /\ p' = Base /\ prevp' = Base /\ bp' = Base
  /\ caller' = "user"

-----------------------------------------------------------------------------
\* Mutant: rounds down.
UnitsFor_RoundsDown(n) == n \div HeaderBytes + 1

UnitsFor(n) == ((n + HeaderBytes - 1) % WordSize) \div HeaderBytes + 1

\* A request for nothing returns NULL, and kfree of NULL returns at once.
kmalloc_zero ==
  /\ pc = "idle" /\ 0 \in Requests
  /\ UNCHANGED vars

kmalloc(n) ==
  /\ pc = "idle" /\ n # 0
  /\ IF freep = NULL
     THEN /\ freep' = Base
          /\ next' = [x \in {Base} |-> Base]
          /\ size' = [x \in {Base} |-> 0]
     ELSE UNCHANGED list
  /\ nbytes' = n
  /\ nunits' = UnitsFor(n)
  /\ prevp' = freep'
  /\ p' = next'[freep']
  /\ pc' = "scan"
  /\ UNCHANGED <<arena, held, bp, caller>>

\* Mutant: freep is set to the block found, not to the one before it.
Return_FreepAtBlock(b) ==
  /\ held' = [x \in DOMAIN held \cup {b} |-> IF x = b THEN nbytes ELSE held[x]]
  /\ freep' = p
  /\ LeaveCall
  /\ UNCHANGED arena

\* kmalloc returns block b.
Return(b) ==
  /\ held' = [x \in DOMAIN held \cup {b} |-> IF x = b THEN nbytes ELSE held[x]]
  /\ freep' = prevp
  /\ LeaveCall
  /\ UNCHANGED arena

\* Mutant: the block is not taken off the list.
kmalloc_exact_KeepsLink ==
  /\ pc = "scan" /\ size[p] = nunits
  /\ UNCHANGED <<next, size>>
  /\ Return(p)

\* The iteration of kmalloc's loop at p.
kmalloc_exact ==
  /\ pc = "scan" /\ size[p] = nunits
  /\ next' = [x \in DOMAIN next \ {p} |->
                IF x = prevp THEN next[p] ELSE next[x]]
  /\ UNCHANGED size
  /\ Return(p)

\* Mutant: the front block keeps its size.
kmalloc_split_KeepsSize ==
  /\ pc = "scan" /\ size[p] > nunits
  /\ LET b == p + (size[p] - nunits)
     IN  /\ size' = [x \in DOMAIN size \cup {b} |->
                       IF x = b THEN nunits ELSE size[x]]
         /\ Return(b)
  /\ UNCHANGED next

kmalloc_split ==
  /\ pc = "scan" /\ size[p] > nunits
  /\ LET b == p + (size[p] - nunits)
     IN  /\ size' = [x \in DOMAIN size \cup {b} |->
                       CASE x = p -> size[p] - nunits
                         [] x = b -> nunits
                         [] OTHER -> size[x]]
         /\ Return(b)
  /\ UNCHANGED next

kmalloc_wrapped ==
  /\ pc = "scan" /\ size[p] < nunits /\ p = freep
  /\ pc' = "acquire"
  /\ UNCHANGED <<list, arena, held, locals>>

\* Mutant: the loop skips a block.
kmalloc_advance_Skips ==
  /\ pc = "scan" /\ size[p] < nunits /\ p # freep
  /\ prevp' = next[p]
  /\ p' = next[next[p]]
  /\ UNCHANGED <<list, arena, held, pc, nbytes, nunits, bp, caller>>

kmalloc_advance ==
  /\ pc = "scan" /\ size[p] < nunits /\ p # freep
  /\ prevp' = p
  /\ p' = next[p]
  /\ UNCHANGED <<list, arena, held, pc, nbytes, nunits, bp, caller>>

-----------------------------------------------------------------------------
div_ceil(num, den) == ((num - 1) % WordSize) \div den + 1

PageFrames ==
  LET n == IF nunits < MIN_BLOCK_SIZE THEN MIN_BLOCK_SIZE ELSE nunits
  IN  div_ceil((n * HeaderBytes) % WordSize, PageUnits * HeaderBytes)

\* No frames, no virtual address or no mapping: NULL all the way up.
acquire_more_heap_fails ==
  /\ pc = "acquire"
  /\ LeaveCall
  /\ UNCHANGED <<list, arena, held>>

\* The new pages go onto the free list with kfree.
acquire_more_heap ==
  /\ pc = "acquire"
  /\ \E page \in 1 .. HeapPages :
       LET vaddr == page * PageUnits
           units == PageFrames * PageUnits
           chunk == vaddr .. (vaddr + units - 1)
       IN  /\ chunk \subseteq Units /\ chunk \cap arena = {}
           /\ arena' = arena \cup chunk
           /\ size' = [x \in DOMAIN size \cup {vaddr} |->
                         IF x = vaddr THEN units ELSE size[x]]
           /\ bp' = vaddr
  /\ p' = freep
  /\ caller' = "acquire_more_heap"
  /\ pc' = "walk"
  /\ UNCHANGED <<next, freep, held, nbytes, nunits, prevp>>

-----------------------------------------------------------------------------
kfree(b) ==
  /\ pc = "idle"
  /\ held' = [x \in DOMAIN held \ {b} |-> held[x]]
  /\ bp' = b
  /\ p' = freep
  /\ caller' = "user"
  /\ pc' = "walk"
  /\ UNCHANGED <<list, arena, nbytes, nunits, prevp>>

\* Mutants: the end of the arena takes every block, or none.
Between_AnyAtEnd == (bp > p /\ bp < next[p]) \/ p >= next[p]
Between_NoEnd    == bp > p /\ bp < next[p]

\* The loop stops between two neighbours, or at the end of the arena.
Between ==
  \/ bp > p /\ bp < next[p]
  \/ p >= next[p] /\ (bp > p \/ bp < next[p])

kfree_walk ==
  /\ pc = "walk" /\ ~Between
  /\ p' = next[p]
  /\ UNCHANGED <<list, arena, held, pc, nbytes, nunits, prevp, bp, caller>>

JoinsUpper == bp + size[bp] = next[p]

\* Mutant: the lower neighbour is never joined.
JoinsLower_Never == FALSE

JoinsLower == p + size[p] = bp

kfree_join ==
  /\ pc = "walk" /\ Between
  /\ LET upper  == next[p]
         bpsize == IF JoinsUpper THEN size[bp] + size[upper] ELSE size[bp]
         bpnext == IF JoinsUpper THEN next[upper] ELSE upper
         gone   == (IF JoinsUpper THEN {upper} ELSE {})
                     \cup (IF JoinsLower THEN {bp} ELSE {})
     IN  /\ size' = [x \in DOMAIN size \ gone |->
                       CASE x = p  -> IF JoinsLower THEN size[p] + bpsize
                                      ELSE size[p]
                         [] x = bp -> bpsize
                         [] OTHER  -> size[x]]
         /\ next' = [x \in (DOMAIN next \cup {bp}) \ gone |->
                       CASE x = p  -> IF JoinsLower THEN bpnext ELSE bp
                         [] x = bp -> bpnext
                         [] OTHER  -> next[x]]
  /\ freep' = p
  /\ IF caller = "user"
     THEN LeaveCall
     ELSE /\ pc' = "scan"
          /\ prevp' = freep' /\ p' = next'[freep']
          /\ bp' = Base /\ caller' = "user"
          /\ UNCHANGED <<nbytes, nunits>>
  /\ UNCHANGED <<arena, held>>

-----------------------------------------------------------------------------
\* The steps of a call that is under way.
Step ==
  \/ kmalloc_exact \/ kmalloc_split \/ kmalloc_wrapped \/ kmalloc_advance
  \/ acquire_more_heap \/ acquire_more_heap_fails
  \/ kfree_walk \/ kfree_join

Next ==
  \/ kmalloc_zero
  \/ \E n \in Requests : kmalloc(n)
  \/ \E b \in DOMAIN held : kfree(b)
  \/ Step

Spec == Init /\ [][Next]_vars

\* The CPU goes on executing a call: no interrupt handler blocks it.
FairSpec == Spec /\ WF_vars(Step)

-----------------------------------------------------------------------------
(***************************************************************************)
(* Properties.                                                             *)
(***************************************************************************)
Pointers == {Base} \cup Units

\* The list stays closed under next, freep stays on it, and no pointer of
\* kmalloc and kfree leaves the heap.
TypeOK ==
  /\ size \in [DOMAIN size -> Nat] /\ DOMAIN size \subseteq Pointers
  /\ next \in [DOMAIN next -> DOMAIN next] /\ DOMAIN next \subseteq DOMAIN size
  /\ held \in [DOMAIN held -> Nat] /\ DOMAIN held \subseteq DOMAIN size
  /\ freep \in {NULL} \cup DOMAIN next
  /\ arena \subseteq Units
  /\ pc \in {"idle", "scan", "acquire", "walk"}
  /\ nbytes \in Nat /\ nunits \in Nat
  /\ p \in Pointers /\ prevp \in Pointers /\ bp \in Pointers
  /\ caller \in {"user", "acquire_more_heap"}

Blocks == DOMAIN size \ {Base}
BlockUnits(b) == b .. (b + size[b] - 1)

\* The block that kfree is about to put on the list.
Limbo == IF pc = "walk" THEN {bp} ELSE {}

\* Every block is free, held by one caller, or being freed, and the blocks
\* tile the arena: no two overlap and no unit is lost, through every split
\* and every join.
BlocksTile ==
  /\ DOMAIN size = DOMAIN next \cup DOMAIN held \cup Limbo
  /\ DOMAIN next \cap DOMAIN held = {}
  /\ Limbo \cap (DOMAIN next \cup DOMAIN held) = {}
  /\ \A x, y \in Blocks : x < y => x + size[x] <= y
  /\ UNION {BlockUnits(b) : b \in Blocks} = arena

\* The free list is one cycle in address order: the next of a header is the
\* closest one above it, and the last one leads back to the lowest.  kfree's
\* search for the place of a block, and its "start or end of arena" test,
\* rely on it.
Successor(x, y) ==
  IF x < y THEN \A z \in DOMAIN next : z <= x \/ y <= z
           ELSE \A z \in DOMAIN next : y <= z /\ z <= x

FreeListSorted == \A x \in DOMAIN next : Successor(x, next[x])

\* Two free neighbours are always one block.
Coalesced == \A x \in DOMAIN next \ {Base} : x + size[x] # next[x]

\* The memory behind the header holds what the caller asked for, unless
\* nbytes + sizeof(header_t) - 1 overflows.
RequestFits ==
  \A b \in DOMAIN held :
    held[b] + HeaderBytes - 1 < WordSize
      => held[b] <= (size[b] - 1) * HeaderBytes

\* kmalloc's comment at the first block with p->size >= nunits: "The block is
\* big enough."
BlockBigEnough ==
  \A b \in DOMAIN held : held[b] <= (size[b] - 1) * HeaderBytes

HeldUnits == UNION {BlockUnits(b) : b \in DOMAIN held}

\* kmalloc asks for more pages only when no gap of the arena is big enough:
\* first fit from wherever freep stands, split at the tail and joining on
\* kfree never hide memory that is free.
NoGapMissed ==
  pc = "acquire" =>
    ~ \E a \in arena : a .. (a + nunits - 1) \subseteq arena \ HeldUnits

\* Every call of kmalloc and kfree returns: the walks along the circular
\* list end.
CallReturns == pc # "idle" ~> pc = "idle"

(***************************************************************************)
(* The free list implements the abstract heap.                             *)
(***************************************************************************)
HeldBlocks == [b \in DOMAIN held |-> size[b]]

AbstractHeap == INSTANCE Heap WITH blocks <- HeldBlocks

\* Blocks are handed out where nobody holds anything, and no split, join or
\* growth of the heap moves or resizes a block that a caller holds.
HeapSpec == AbstractHeap!Spec
=============================================================================
