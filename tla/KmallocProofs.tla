--------------------------- MODULE KmallocProofs ---------------------------
(***************************************************************************)
(* Proofs about the kernel heap, for every size of a header, a page and    *)
(* the heap, and every set of requests.                                    *)
(***************************************************************************)
EXTENDS Kmalloc, TLAPS

-----------------------------------------------------------------------------
(***************************************************************************)
(* The inductive invariant.                                                *)
(***************************************************************************)

\* base is the first header and stays on the list, and nothing exists before
\* the first call of kmalloc has put it there.
Started ==
  /\ freep = NULL => DOMAIN size = {} /\ pc = "idle"
  /\ freep # NULL => Base \in DOMAIN next /\ size[Base] = 0

\* Every header is free, held or being freed.
Owned ==
  /\ DOMAIN size = DOMAIN next \cup DOMAIN held \cup Limbo
  /\ DOMAIN next \cap DOMAIN held = {}
  /\ Limbo \cap (DOMAIN next \cup DOMAIN held) = {}

\* No two blocks overlap, and none is empty.
Disjoint ==
  /\ \A b \in Blocks : size[b] > 0
  /\ \A x, y \in Blocks : x < y => x + size[x] <= y

\* Unit u is in block b.
In(u, b) == b <= u /\ u < b + size[b]

\* The units of the arena are the ones in a block.
Covered ==
  /\ \A u \in arena : \E b \in Blocks : In(u, b)
  /\ \A b \in Blocks : \A u \in Nat : In(u, b) => u \in arena

\* The headers that kmalloc's loop has passed: after freep, up to prevp, in
\* the order of the circular list.
Seen(x) ==
  IF freep <= prevp THEN freep < x /\ x <= prevp
                    ELSE freep < x \/ x <= prevp

\* While kmalloc looks for a block: prevp and p are neighbours, and every
\* header it has passed is too small.
Scanning ==
  pc = "scan" =>
    /\ prevp \in DOMAIN next /\ p = next[prevp]
    /\ nunits = UnitsFor(nbytes)
    /\ \A x \in DOMAIN next : Seen(x) => size[x] < nunits

\* When kmalloc asks for more pages, every header is too small.
Exhausted ==
  pc = "acquire" =>
    /\ nunits = UnitsFor(nbytes)
    /\ \A x \in DOMAIN next : size[x] < nunits

\* While kfree looks for the place of bp.
Walking ==
  pc = "walk" =>
    /\ p \in DOMAIN next
    /\ bp \in Blocks
    /\ caller = "acquire_more_heap" => nunits = UnitsFor(nbytes)

Inv ==
  /\ TypeOK
  /\ Started
  /\ Owned
  /\ Disjoint
  /\ Covered
  /\ FreeListSorted
  /\ Coalesced
  /\ RequestFits
  /\ Scanning
  /\ Exhausted
  /\ Walking

-----------------------------------------------------------------------------
(***************************************************************************)
(* Facts about the sizes that kmalloc and acquire_more_heap compute.       *)
(***************************************************************************)

\* Division with remainder.
LEMMA Division ==
  ASSUME NEW a \in Nat, NEW b \in Nat \ {0}
  PROVE  /\ a \div b \in Nat /\ a % b \in 0 .. (b - 1)
         /\ a = b * (a \div b) + (a % b)
OBVIOUS

\* The product of two positive numbers is positive.
LEMMA ProductPositive ==
  ASSUME NEW a \in Nat \ {0}, NEW b \in Nat \ {0}
  PROVE  a * b \in Nat \ {0}
OBVIOUS

\* The heap lies above base.
LEMMA UnitsPositive == Units \subseteq Nat \ {0}
<1>1. PageUnits * (HeapPages + 1) \in Int  BY KmallocAssumption
<1>. QED  BY <1>1, KmallocAssumption DEF Units

\* Every request takes at least the unit of its header.
LEMMA UnitsForPositive ==
  ASSUME NEW n \in Nat
  PROVE  UnitsFor(n) \in Nat \ {0}
<1>1. n + HeaderBytes - 1 \in Nat  BY KmallocAssumption
<1>2. (n + HeaderBytes - 1) % WordSize \in Nat
  BY <1>1, KmallocAssumption, Division
<1>3. ((n + HeaderBytes - 1) % WordSize) \div HeaderBytes \in Nat
  BY <1>2, KmallocAssumption, Division
<1>. QED  BY <1>3 DEF UnitsFor

\* The units behind the header hold the request, unless its size wraps.
LEMMA UnitsForFits ==
  ASSUME NEW n \in Nat, n + HeaderBytes - 1 < WordSize
  PROVE  n <= (UnitsFor(n) - 1) * HeaderBytes
<1>. DEFINE m == n + HeaderBytes - 1
            q == m \div HeaderBytes
<1>1. m \in Nat /\ m % WordSize = m  BY KmallocAssumption
<1>2. q \in Nat /\ m % HeaderBytes \in 0 .. (HeaderBytes - 1)
      /\ m = HeaderBytes * q + (m % HeaderBytes)
  <2>. HIDE DEF m
  <2>. QED  BY <1>1, KmallocAssumption, Division
<1>3. UnitsFor(n) - 1 = q
  <2>1. UnitsFor(n) = q + 1  BY <1>1 DEF UnitsFor
  <2>. HIDE DEF q
  <2>. QED  BY <2>1, <1>2
<1>4. n <= HeaderBytes * q
  <2>. DEFINE hq == HeaderBytes * q
              r == m % HeaderBytes
  <2>1. hq \in Nat /\ r \in 0 .. (HeaderBytes - 1) /\ n + HeaderBytes - 1 = hq + r
    BY <1>2, KmallocAssumption
  <2>. HIDE DEF hq, r
  <2>2. n <= hq  BY <2>1, KmallocAssumption
  <2>. QED  BY <2>2 DEF hq
<1>5. HeaderBytes * q = q * HeaderBytes
  <2>. HIDE DEF q
  <2>. QED  BY <1>2, KmallocAssumption
<1>. QED  BY <1>3, <1>4, <1>5

\* acquire_more_heap asks for at least one page.
LEMMA PageFramesPositive ==
  ASSUME nunits \in Nat
  PROVE  PageFrames * PageUnits \in Nat \ {0}
<1>. DEFINE n == IF nunits < MIN_BLOCK_SIZE THEN MIN_BLOCK_SIZE ELSE nunits
            k == (n * HeaderBytes) % WordSize
            d == PageUnits * HeaderBytes
<1>1. n * HeaderBytes \in Nat  BY KmallocAssumption
<1>2. k \in Nat  BY <1>1, KmallocAssumption, Division
<1>3. d \in Nat \ {0}  BY KmallocAssumption, ProductPositive
<1>4. (k - 1) % WordSize \in Nat
  <2>. HIDE DEF k
  <2>. QED  BY <1>2, KmallocAssumption
<1>5. ((k - 1) % WordSize) \div d \in Nat
  <2>. HIDE DEF k, d
  <2>. QED  BY <1>3, <1>4, Division
<1>6. PageFrames \in Nat \ {0}
  BY <1>5 DEF PageFrames, div_ceil
<1>. QED  BY <1>6, KmallocAssumption, ProductPositive

-----------------------------------------------------------------------------
(***************************************************************************)
(* Facts about the blocks and the sorted list.                             *)
(***************************************************************************)

\* The types of the headers' fields, pointwise.
LEMMA HeaderTypes ==
  ASSUME TypeOK
  PROVE  /\ \A x \in DOMAIN size : x \in Nat /\ size[x] \in Nat
         /\ \A x \in Blocks : x \in Nat \ {0}
         /\ \A x \in DOMAIN next : /\ x \in DOMAIN size /\ x \in Nat
                                   /\ next[x] \in DOMAIN next
                                   /\ next[x] \in Nat
         /\ \A x \in DOMAIN held : x \in DOMAIN size /\ held[x] \in Nat
         /\ \A u \in arena : u \in Nat \ {0}
BY UnitsPositive DEF TypeOK, Pointers, Blocks, Base

\* In the sorted cycle a header has one predecessor, only a list of one
\* header leads from it to itself, and the end of the list leads to base.
LEMMA Cycle ==
  ASSUME TypeOK, FreeListSorted
  PROVE  /\ \A x, y \in DOMAIN next : next[x] = next[y] => x = y
         /\ \A x \in DOMAIN next : next[x] = x => DOMAIN next = {x}
         /\ Base \in DOMAIN next =>
              \A x \in DOMAIN next : next[x] <= x => next[x] = Base
BY HeaderTypes, SMTT(30) DEF FreeListSorted, Successor, Base

-----------------------------------------------------------------------------
(***************************************************************************)
(* The invariant is inductive: one lemma for each action.                  *)
(***************************************************************************)

\* Before the first call there is nothing: no header, no arena, no list.
LEMMA InitInv == Init => Inv
<1>. SUFFICES ASSUME Init PROVE Inv
  OBVIOUS
<1>. USE DEF Init
<1>1. DOMAIN size = {} /\ DOMAIN next = {} /\ DOMAIN held = {}  OBVIOUS
<1>2. TypeOK  BY <1>1 DEF TypeOK, Pointers, Base, NULL
<1>3. Started /\ Owned  BY <1>1 DEF Started, Owned, Limbo
<1>4. Disjoint /\ Covered  BY <1>1 DEF Disjoint, Covered, Blocks
<1>5. FreeListSorted /\ Coalesced /\ RequestFits
  BY <1>1 DEF FreeListSorted, Coalesced, RequestFits
<1>6. Scanning /\ Exhausted /\ Walking  BY DEF Scanning, Exhausted, Walking
<1>. QED  BY <1>2, <1>3, <1>4, <1>5, <1>6 DEF Inv

\* A step that changes neither the headers, nor who owns them, nor what is
\* being freed keeps everything but what concerns the locals.
LEMMA SameHeap ==
  ASSUME Inv, UNCHANGED <<next, size, arena, held, freep>>, Limbo' = Limbo,
         freep # NULL
  PROVE  /\ (Started /\ Owned /\ Disjoint /\ Covered)'
         /\ (FreeListSorted /\ Coalesced /\ RequestFits)'
<1>. USE DEF Inv
<1>1. Started' /\ Owned'  BY DEF Started, Owned
<1>2. Disjoint' /\ Covered'  BY DEF Disjoint, Covered, Blocks, In
<1>3. FreeListSorted' /\ Coalesced' /\ RequestFits'
  BY DEF FreeListSorted, Successor, Coalesced, RequestFits
<1>. QED  BY <1>1, <1>2, <1>3

\* The first call puts base on the list; the loop has passed nothing yet.
LEMMA KmallocInv ==
  ASSUME Inv, NEW n \in Requests, kmalloc(n)
  PROVE  Inv'
<1>. USE DEF Inv
<1>1. n \in Nat /\ UnitsFor(n) \in Nat \ {0}
  BY KmallocAssumption, UnitsForPositive
<1>2. CASE freep = NULL
  <2>1. /\ DOMAIN size = {} /\ DOMAIN next = {} /\ DOMAIN held = {}
        /\ arena = {}
    BY <1>2 DEF Started, Owned, Covered, Blocks
  <2>2. /\ next' = [x \in {Base} |-> Base] /\ size' = [x \in {Base} |-> 0]
        /\ freep' = Base /\ prevp' = Base /\ p' = Base
        /\ UNCHANGED <<arena, held, bp, caller>>
        /\ nbytes' = n /\ nunits' = UnitsFor(n) /\ pc' = "scan"
    BY <1>2 DEF kmalloc
  <2>3. DOMAIN next' = {Base} /\ DOMAIN size' = {Base} /\ next'[Base] = Base /\ size'[Base] = 0
    BY <2>2
  <2>4. TypeOK'
    BY <2>1, <2>2, <2>3, <1>1 DEF TypeOK, Pointers, Base, NULL
  <2>5. Started' /\ Owned'
    BY <2>1, <2>2, <2>3 DEF Started, Owned, Limbo, Base, NULL
  <2>6. Disjoint' /\ Covered'
    BY <2>1, <2>2, <2>3 DEF Disjoint, Covered, Blocks
  <2>7. FreeListSorted' /\ Coalesced' /\ RequestFits'
    BY <2>1, <2>2, <2>3 DEF FreeListSorted, Successor, Coalesced, RequestFits, Base
  <2>8. Scanning' /\ Exhausted' /\ Walking'
    BY <2>2, <2>3 DEF Scanning, Exhausted, Walking, Seen, Base
  <2>. QED  BY <2>4, <2>5, <2>6, <2>7, <2>8
<1>3. CASE freep # NULL
  <2>1. /\ UNCHANGED <<next, size, freep, arena, held, bp, caller>>
        /\ prevp' = freep /\ p' = next[freep]
        /\ nbytes' = n /\ nunits' = UnitsFor(n) /\ pc = "idle" /\ pc' = "scan"
    BY <1>3 DEF kmalloc, list
  <2>2. freep \in DOMAIN next /\ next[freep] \in DOMAIN next
    BY <1>3 DEF TypeOK
  <2>3. TypeOK'
    BY <2>1, <2>2, <1>1 DEF TypeOK
  <2>4. /\ (Started /\ Owned /\ Disjoint /\ Covered)'
        /\ (FreeListSorted /\ Coalesced /\ RequestFits)'
    BY <2>1, <1>3, SameHeap DEF Limbo
  <2>5. Scanning' /\ Exhausted' /\ Walking'
    BY <2>1, <2>2, HeaderTypes DEF Scanning, Exhausted, Walking, Seen
  <2>. QED  BY <2>3, <2>4, <2>5
<1>. QED  BY <1>2, <1>3

\* The loop is back at freep: it has passed every header.
LEMMA WrappedInv ==
  ASSUME Inv, kmalloc_wrapped
  PROVE  Inv'
<1>. USE DEF Inv
<1>1. /\ UNCHANGED <<next, size, freep, arena, held, nbytes, nunits, p, prevp, bp, caller>>
      /\ pc = "scan" /\ pc' = "acquire" /\ p = freep /\ size[p] < nunits
  BY DEF kmalloc_wrapped, list, locals
<1>2. freep # NULL  BY <1>1 DEF Started
<1>3. TypeOK'  BY <1>1 DEF TypeOK
<1>4. /\ (Started /\ Owned /\ Disjoint /\ Covered)'
      /\ (FreeListSorted /\ Coalesced /\ RequestFits)'
  BY <1>1, <1>2, SameHeap DEF Limbo
<1>5. ASSUME NEW x \in DOMAIN next PROVE size[x] < nunits
  <2>1. prevp \in DOMAIN next /\ next[prevp] = freep  BY <1>1 DEF Scanning
  <2>2. x = freep \/ Seen(x)
    BY <2>1, HeaderTypes DEF FreeListSorted, Successor, Seen
  <2>. QED  BY <1>1, <2>2 DEF Scanning
<1>6. Scanning' /\ Exhausted' /\ Walking'
  BY <1>1, <1>5 DEF Scanning, Exhausted, Walking
<1>. QED  BY <1>3, <1>4, <1>6

\* The loop passes p, which is too small.
LEMMA AdvanceInv ==
  ASSUME Inv, kmalloc_advance
  PROVE  Inv'
<1>. USE DEF Inv
<1>1. /\ UNCHANGED <<next, size, freep, arena, held, pc, nbytes, nunits, bp, caller>>
      /\ pc = "scan" /\ p # freep /\ size[p] < nunits
      /\ prevp' = p /\ p' = next[p]
  BY DEF kmalloc_advance, list
<1>2. freep # NULL /\ freep \in DOMAIN next  BY <1>1 DEF Started, TypeOK
<1>3. prevp \in DOMAIN next /\ p = next[prevp] /\ p \in DOMAIN next
  BY <1>1, HeaderTypes DEF Scanning
<1>4. TypeOK'  BY <1>1, <1>3 DEF TypeOK
<1>5. /\ (Started /\ Owned /\ Disjoint /\ Covered)'
      /\ (FreeListSorted /\ Coalesced /\ RequestFits)'
  BY <1>1, <1>2, SameHeap DEF Limbo
<1>6. ASSUME NEW x \in DOMAIN next, Seen(x)' PROVE size[x] < nunits
  <2>1. IF freep <= p THEN freep < x /\ x <= p ELSE freep < x \/ x <= p
    BY <1>1, <1>6 DEF Seen
  <2>2. x = p \/ Seen(x)
    BY <2>1, <1>1, <1>2, <1>3, HeaderTypes DEF FreeListSorted, Successor, Seen
  <2>. QED  BY <1>1, <2>2 DEF Scanning
<1>7. Scanning' /\ Exhausted' /\ Walking'
  BY <1>1, <1>3, <1>6 DEF Scanning, Exhausted, Walking
<1>. QED  BY <1>4, <1>5, <1>7

\* A call that fails leaves the heap as it was.
LEMMA FailsInv ==
  ASSUME Inv, acquire_more_heap_fails
  PROVE  Inv'
<1>. USE DEF Inv
<1>1. /\ UNCHANGED <<next, size, freep, arena, held>>
      /\ pc = "acquire" /\ pc' = "idle"
      /\ nbytes' = 0 /\ nunits' = 1 /\ p' = Base /\ prevp' = Base /\ bp' = Base
      /\ caller' = "user"
  BY DEF acquire_more_heap_fails, LeaveCall, list
<1>2. freep # NULL  BY <1>1 DEF Started
<1>3. TypeOK'  BY <1>1 DEF TypeOK, Pointers
<1>4. /\ (Started /\ Owned /\ Disjoint /\ Covered)'
      /\ (FreeListSorted /\ Coalesced /\ RequestFits)'
  BY <1>1, <1>2, SameHeap DEF Limbo
<1>5. Scanning' /\ Exhausted' /\ Walking'
  BY <1>1 DEF Scanning, Exhausted, Walking
<1>. QED  BY <1>3, <1>4, <1>5

\* A block that is given back is in nobody's hands until it is on the list.
LEMMA KfreeInv ==
  ASSUME Inv, NEW b \in DOMAIN held, kfree(b)
  PROVE  Inv'
<1>. USE DEF Inv
<1>1. /\ UNCHANGED <<next, size, freep, arena, nbytes, nunits, prevp>>
      /\ held' = [x \in DOMAIN held \ {b} |-> held[x]]
      /\ bp' = b /\ p' = freep /\ caller' = "user"
      /\ pc = "idle" /\ pc' = "walk"
  BY DEF kfree, list
<1>2. DOMAIN held' = DOMAIN held \ {b} /\ \A x \in DOMAIN held' : held'[x] = held[x]
  BY <1>1
<1>3. freep # NULL /\ freep \in DOMAIN next
  <2>1. b \in DOMAIN size  BY HeaderTypes
  <2>. QED  BY <2>1 DEF Started, TypeOK
<1>4. b \in Blocks
  BY <1>3 DEF Started, Owned, Blocks
<1>5. TypeOK'
  <2>1. b \in Pointers  BY <1>4 DEF TypeOK, Blocks
  <2>2. freep \in Pointers  BY <1>3 DEF TypeOK
  <2>. QED  BY <1>1, <1>2, <2>1, <2>2 DEF TypeOK
<1>6. Started'  BY <1>1, <1>3 DEF Started
<1>7. Owned'  BY <1>1, <1>2 DEF Owned, Limbo
<1>8. Disjoint' /\ Covered'  BY <1>1 DEF Disjoint, Covered, Blocks, In
<1>9. FreeListSorted' /\ Coalesced' /\ RequestFits'
  BY <1>1, <1>2 DEF FreeListSorted, Successor, Coalesced, RequestFits
<1>10. Scanning' /\ Exhausted' /\ Walking'
  BY <1>1, <1>3, <1>4 DEF Scanning, Exhausted, Walking, Blocks
<1>. QED  BY <1>5, <1>6, <1>7, <1>8, <1>9, <1>10

\* kfree's search moves p along the list.
LEMMA WalkInv ==
  ASSUME Inv, kfree_walk
  PROVE  Inv'
<1>. USE DEF Inv
<1>1. /\ UNCHANGED <<next, size, freep, arena, held, pc, nbytes, nunits, prevp, bp, caller>>
      /\ pc = "walk" /\ p' = next[p]
  BY DEF kfree_walk, list
<1>2. freep # NULL  BY <1>1 DEF Started
<1>3. next[p] \in DOMAIN next  BY <1>1, HeaderTypes DEF Walking
<1>4. TypeOK'  BY <1>1, <1>3 DEF TypeOK
<1>5. /\ (Started /\ Owned /\ Disjoint /\ Covered)'
      /\ (FreeListSorted /\ Coalesced /\ RequestFits)'
  BY <1>1, <1>2, SameHeap DEF Limbo
<1>6. Scanning' /\ Exhausted' /\ Walking'
  BY <1>1, <1>3 DEF Scanning, Exhausted, Walking, Blocks
<1>. QED  BY <1>4, <1>5, <1>6

\* What the loop of kmalloc knows when it has found a block.
LEMMA FoundBlock ==
  ASSUME Inv, pc = "scan", size[p] >= nunits
  PROVE  /\ freep # NULL /\ Base \in DOMAIN next /\ size[Base] = 0
         /\ prevp \in DOMAIN next /\ p \in DOMAIN next /\ p = next[prevp]
         /\ p \in Blocks /\ prevp < p /\ next[p] # p
         /\ p \in Nat \ {0} /\ prevp \in Nat
         /\ nbytes \in Nat /\ nunits = UnitsFor(nbytes) /\ nunits \in Nat \ {0}
         /\ size[p] \in Nat
<1>. USE DEF Inv
<1>1. freep # NULL /\ Base \in DOMAIN next /\ size[Base] = 0  BY DEF Started
<1>2. prevp \in DOMAIN next /\ p \in DOMAIN next /\ p = next[prevp]
  BY HeaderTypes DEF Scanning
<1>3. nbytes \in Nat /\ nunits = UnitsFor(nbytes) /\ nunits \in Nat \ {0}
  BY UnitsForPositive DEF Scanning, TypeOK
<1>4. p \in Blocks /\ p # Base
  BY <1>1, <1>2, <1>3, HeaderTypes DEF Blocks
<1>5. prevp \in Nat /\ p \in Nat \ {0} /\ size[p] \in Nat
  BY <1>2, <1>4, HeaderTypes
<1>6. prevp < p
  BY <1>1, <1>2, <1>4, <1>5, Cycle
<1>7. next[p] # p
  BY <1>1, <1>2, <1>4, Cycle
<1>. QED  BY <1>1, <1>2, <1>3, <1>4, <1>5, <1>6, <1>7

\* A block of exactly the size asked for leaves the list.
LEMMA ExactInv ==
  ASSUME Inv, kmalloc_exact
  PROVE  Inv'
<1>. USE DEF Inv
<1>1. /\ pc = "scan" /\ size[p] = nunits
      /\ next' = [x \in DOMAIN next \ {p} |-> IF x = prevp THEN next[p] ELSE next[x]]
      /\ held' = [x \in DOMAIN held \cup {p} |-> IF x = p THEN nbytes ELSE held[x]]
      /\ freep' = prevp
      /\ pc' = "idle" /\ nbytes' = 0 /\ nunits' = 1
      /\ p' = Base /\ prevp' = Base /\ bp' = Base /\ caller' = "user"
      /\ UNCHANGED <<size, arena>>
  BY DEF kmalloc_exact, Return, LeaveCall
<1>2. /\ freep # NULL /\ Base \in DOMAIN next /\ size[Base] = 0
      /\ prevp \in DOMAIN next /\ p \in DOMAIN next /\ p = next[prevp]
      /\ p \in Blocks /\ prevp < p /\ next[p] # p
      /\ p \in Nat \ {0} /\ prevp \in Nat
      /\ nbytes \in Nat /\ nunits = UnitsFor(nbytes) /\ nunits \in Nat \ {0}
      /\ size[p] \in Nat
  <2>1. size[p] >= nunits  BY <1>1 DEF TypeOK
  <2>. QED  BY <1>1, <2>1, FoundBlock
<1>3. /\ DOMAIN next' = DOMAIN next \ {p}
      /\ \A x \in DOMAIN next' : next'[x] = IF x = prevp THEN next[p] ELSE next[x]
  BY <1>1
<1>4. /\ DOMAIN held' = DOMAIN held \cup {p}
      /\ \A x \in DOMAIN held' : held'[x] = IF x = p THEN nbytes ELSE held[x]
  BY <1>1
<1>5. \A x \in DOMAIN next' : next'[x] \in DOMAIN next'
  BY <1>2, <1>3, HeaderTypes, Cycle
<1>6. TypeOK'
  <2>1. next' \in [DOMAIN next' -> DOMAIN next']  BY <1>1, <1>3, <1>5
  <2>2. held' \in [DOMAIN held' -> Nat]  BY <1>1, <1>2, <1>4, HeaderTypes
  <2>3. DOMAIN next' \subseteq DOMAIN size /\ DOMAIN held' \subseteq DOMAIN size
    BY <1>2, <1>3, <1>4, HeaderTypes
  <2>4. prevp \in DOMAIN next'  BY <1>2, <1>3
  <2>. QED  BY <1>1, <2>1, <2>2, <2>3, <2>4 DEF TypeOK, Pointers
<1>7. Started'
  <2>1. prevp # NULL  BY <1>2 DEF NULL
  <2>2. Base # p  BY <1>2 DEF Base
  <2>. QED  BY <1>1, <1>2, <1>3, <2>1, <2>2 DEF Started
<1>8. Owned'
  <2>1. Limbo' = {} /\ Limbo = {}  BY <1>1 DEF Limbo
  <2>. QED  BY <1>2, <1>3, <1>4, <1>1, <2>1 DEF Owned
<1>9. Disjoint' /\ Covered'  BY <1>1 DEF Disjoint, Covered, Blocks, In
<1>10. FreeListSorted'
  <2>1. SUFFICES ASSUME NEW x \in DOMAIN next' PROVE Successor(x, next[x])'
    BY DEF FreeListSorted
  <2>2. CASE x = prevp
    BY <2>2, <1>2, <1>3, HeaderTypes DEF FreeListSorted, Successor
  <2>3. CASE x # prevp
    BY <2>3, <1>2, <1>3, HeaderTypes DEF FreeListSorted, Successor
  <2>. QED  BY <2>2, <2>3
<1>11. Coalesced'
  <2>1. SUFFICES ASSUME NEW x \in DOMAIN next' \ {Base} PROVE x + size[x] # next'[x]
    BY <1>1 DEF Coalesced
  <2>2. CASE x = prevp
    <3>1. prevp + size[prevp] <= p /\ prevp + size[prevp] > 0
      BY <2>1, <2>2, <1>2, <1>3, HeaderTypes DEF Disjoint, Blocks, Base
    <3>2. next[p] > p \/ next[p] = Base
      BY <1>2, HeaderTypes, Cycle
    <3>. QED  BY <2>2, <3>1, <3>2, <1>2, <1>3, HeaderTypes DEF Base
  <2>3. CASE x # prevp
    BY <2>1, <2>3, <1>3 DEF Coalesced
  <2>. QED  BY <2>2, <2>3
<1>12. RequestFits'
  <2>1. SUFFICES ASSUME NEW b \in DOMAIN held', held'[b] + HeaderBytes - 1 < WordSize
                 PROVE  held'[b] <= (size[b] - 1) * HeaderBytes
    BY <1>1 DEF RequestFits
  <2>2. CASE b = p
    BY <2>1, <2>2, <1>1, <1>2, <1>4, UnitsForFits
  <2>3. CASE b # p
    BY <2>1, <2>3, <1>4 DEF RequestFits
  <2>. QED  BY <2>2, <2>3
<1>13. Scanning' /\ Exhausted' /\ Walking'
  BY <1>1 DEF Scanning, Exhausted, Walking
<1>. QED  BY <1>6, <1>7, <1>8, <1>9, <1>10, <1>11, <1>12, <1>13

\* The tail of a block that is too big becomes a block of its own.
LEMMA SplitInv ==
  ASSUME Inv, kmalloc_split
  PROVE  Inv'
<1>. USE DEF Inv
<1>0. PICK b : b = p + (size[p] - nunits)  OBVIOUS
<1>1. /\ pc = "scan" /\ size[p] > nunits
      /\ size' = [x \in DOMAIN size \cup {b} |->
                    CASE x = p -> size[p] - nunits
                      [] x = b -> nunits
                      [] OTHER -> size[x]]
      /\ held' = [x \in DOMAIN held \cup {b} |-> IF x = b THEN nbytes ELSE held[x]]
      /\ freep' = prevp
      /\ pc' = "idle" /\ nbytes' = 0 /\ nunits' = 1
      /\ p' = Base /\ prevp' = Base /\ bp' = Base /\ caller' = "user"
      /\ UNCHANGED <<next, arena>>
  BY <1>0 DEF kmalloc_split, Return, LeaveCall
<1>2. /\ freep # NULL /\ Base \in DOMAIN next /\ size[Base] = 0
      /\ prevp \in DOMAIN next /\ p \in DOMAIN next /\ p = next[prevp]
      /\ p \in Blocks /\ prevp < p /\ next[p] # p
      /\ p \in Nat \ {0} /\ prevp \in Nat
      /\ nbytes \in Nat /\ nunits = UnitsFor(nbytes) /\ nunits \in Nat \ {0}
      /\ size[p] \in Nat
  <2>1. p \in DOMAIN size  BY <1>1, HeaderTypes DEF Scanning
  <2>2. size[p] >= nunits  BY <1>1, <2>1, HeaderTypes DEF TypeOK
  <2>. QED  BY <1>1, <2>2, FoundBlock
<1>3. b \in Nat \ {0} /\ p < b /\ b < p + size[p] /\ b + nunits = p + size[p]
  BY <1>0, <1>1, <1>2
<1>4. In(b, p) /\ b \notin DOMAIN size /\ b \in arena /\ b # p /\ b # Base
  <2>1. In(b, p)  BY <1>2, <1>3 DEF In
  <2>2. b \in arena  BY <2>1, <1>2, <1>3 DEF Covered
  <2>3. b \notin DOMAIN size
    BY <1>2, <1>3, HeaderTypes DEF Disjoint, Blocks, Base
  <2>. QED  BY <2>1, <2>2, <2>3, <1>2, <1>3 DEF Base
<1>5. /\ DOMAIN size' = DOMAIN size \cup {b}
      /\ size'[p] = size[p] - nunits /\ size'[b] = nunits
      /\ \A x \in DOMAIN size \ {p} : size'[x] = size[x]
  <2>1. p \in DOMAIN size  BY <1>2, HeaderTypes
  <2>. QED  BY <1>1, <1>4, <2>1
<1>6. /\ DOMAIN held' = DOMAIN held \cup {b}
      /\ \A x \in DOMAIN held' : held'[x] = IF x = b THEN nbytes ELSE held[x]
  BY <1>1
<1>7. Blocks' = Blocks \cup {b}  BY <1>4, <1>5 DEF Blocks
<1>8. \A x \in Blocks' : size'[x] \in Nat \ {0}
  BY <1>1, <1>2, <1>5, <1>7, HeaderTypes DEF Disjoint, Blocks
<1>9. TypeOK'
  <2>1. size' \in [DOMAIN size' -> Nat]
    <3>1. \A x \in DOMAIN size' : size'[x] \in Nat
      BY <1>1, <1>2, <1>5, HeaderTypes
    <3>. QED  BY <1>1, <1>5, <3>1
  <2>2. held' \in [DOMAIN held' -> Nat]  BY <1>1, <1>2, <1>6, HeaderTypes
  <2>3. /\ DOMAIN next' \subseteq DOMAIN size' /\ DOMAIN held' \subseteq DOMAIN size'
        /\ DOMAIN size' \subseteq Pointers
    BY <1>1, <1>4, <1>5, <1>6 DEF TypeOK, Pointers
  <2>. QED  BY <1>1, <1>2, <2>1, <2>2, <2>3 DEF TypeOK, Pointers
<1>10. Started'
  <2>1. prevp # NULL  BY <1>2 DEF NULL
  <2>2. Base # p /\ Base \in DOMAIN size  BY <1>2, HeaderTypes DEF Base
  <2>. QED  BY <1>1, <1>2, <1>5, <2>1, <2>2 DEF Started
<1>11. Owned'
  <2>1. Limbo' = {} /\ Limbo = {}  BY <1>1 DEF Limbo
  <2>. QED  BY <1>1, <1>4, <1>5, <1>6, <2>1, HeaderTypes DEF Owned
<1>12. Disjoint'
  <2>1. SUFFICES ASSUME NEW x \in Blocks', NEW y \in Blocks', x < y
                 PROVE  x + size'[x] <= y
    BY <1>8 DEF Disjoint
  <2>2. x \in Blocks \/ x = b  BY <1>7
  <2>3. y \in Blocks \/ y = b  BY <1>7
  <2>4. \A z \in Blocks : z \in Nat /\ size[z] \in Nat \ {0} /\ (z # p => size'[z] = size[z])
    BY <1>5, HeaderTypes DEF Blocks, Disjoint
  <2>5. \A z \in Blocks : (z < p => z + size[z] <= p) /\ (p < z => p + size[p] <= z)
    BY <1>2 DEF Disjoint
  <2>. QED
    BY <2>1, <2>2, <2>3, <2>4, <2>5, <1>2, <1>3, <1>5 DEF Disjoint
<1>13. Covered'
  <2>1. \A z \in Blocks : z \in Nat /\ size[z] \in Nat \ {0} /\ (z # p => size'[z] = size[z])
    BY <1>5, HeaderTypes DEF Blocks, Disjoint
  <2>2. ASSUME NEW u \in arena PROVE \E x \in Blocks' : In(u, x)'
    <3>1. PICK x \in Blocks : In(u, x)  BY DEF Covered
    <3>2. u \in Nat  BY HeaderTypes
    <3>3. In(u, x)' \/ In(u, b)'
      BY <3>1, <3>2, <2>1, <1>2, <1>3, <1>5 DEF In
    <3>. QED  BY <3>3, <1>7
  <2>3. ASSUME NEW x \in Blocks', NEW u \in Nat, In(u, x)' PROVE u \in arena
    <3>1. (In(u, x) /\ x \in Blocks) \/ In(u, p)
      BY <2>1, <2>3, <1>2, <1>3, <1>5, <1>7 DEF In
    <3>. QED  BY <3>1, <1>2 DEF Covered
  <2>. QED  BY <2>2, <2>3, <1>1 DEF Covered
<1>14. FreeListSorted'  BY <1>1 DEF FreeListSorted, Successor
<1>15. Coalesced'
  <2>1. SUFFICES ASSUME NEW x \in DOMAIN next \ {Base} PROVE x + size'[x] # next[x]
    BY <1>1 DEF Coalesced
  <2>2. CASE x = p
    <3>1. p + size'[p] = b /\ b \notin DOMAIN next  
      BY <1>0, <1>2, <1>4, <1>5, HeaderTypes
    <3>. QED  BY <2>2, <3>1, <1>2, HeaderTypes
  <2>3. CASE x # p
    BY <2>1, <2>3, <1>5, HeaderTypes DEF Coalesced
  <2>. QED  BY <2>2, <2>3
<1>16. RequestFits'
  <2>1. SUFFICES ASSUME NEW c \in DOMAIN held', held'[c] + HeaderBytes - 1 < WordSize
                 PROVE  held'[c] <= (size'[c] - 1) * HeaderBytes
    BY DEF RequestFits
  <2>2. CASE c = b
    BY <2>1, <2>2, <1>2, <1>5, <1>6, UnitsForFits
  <2>3. CASE c # b
    <3>1. c \in DOMAIN held /\ c # p /\ c \in DOMAIN size
      BY <2>3, <1>2, <1>6, HeaderTypes DEF Owned
    <3>. QED  BY <2>1, <2>3, <3>1, <1>5, <1>6 DEF RequestFits
  <2>. QED  BY <2>2, <2>3
<1>17. Scanning' /\ Exhausted' /\ Walking'
  BY <1>1 DEF Scanning, Exhausted, Walking
<1>. QED
  BY <1>9, <1>10, <1>11, <1>12, <1>13, <1>14, <1>15, <1>16, <1>17

\* New pages are a block of their own that overlaps no other block.
LEMMA AcquireInv ==
  ASSUME Inv, acquire_more_heap
  PROVE  Inv'
<1>. USE DEF Inv
<1>1. PICK page \in 1 .. HeapPages :
        LET vaddr == page * PageUnits
            units == PageFrames * PageUnits
            chunk == vaddr .. (vaddr + units - 1)
        IN  /\ chunk \subseteq Units /\ chunk \cap arena = {}
            /\ arena' = arena \cup chunk
            /\ size' = [x \in DOMAIN size \cup {vaddr} |->
                          IF x = vaddr THEN units ELSE size[x]]
            /\ bp' = vaddr
  BY DEF acquire_more_heap
<1>2. PICK v, k : v = page * PageUnits /\ k = PageFrames * PageUnits
  OBVIOUS
<1>3. /\ v .. (v + k - 1) \subseteq Units
      /\ v .. (v + k - 1) \cap arena = {}
      /\ arena' = arena \cup v .. (v + k - 1)
      /\ size' = [x \in DOMAIN size \cup {v} |-> IF x = v THEN k ELSE size[x]]
      /\ bp' = v
  BY <1>1, <1>2
<1>4. /\ pc = "acquire" /\ pc' = "walk" /\ p' = freep
      /\ caller' = "acquire_more_heap"
      /\ UNCHANGED <<next, freep, held, nbytes, nunits, prevp>>
  BY DEF acquire_more_heap
<1>5. v \in Nat /\ k \in Nat \ {0}
  <2>1. k \in Nat \ {0}  BY <1>2, PageFramesPositive DEF TypeOK
  <2>2. page \in Nat  BY KmallocAssumption
  <2>. QED  BY <1>2, <2>1, <2>2, KmallocAssumption
<1>6. freep # NULL /\ freep \in DOMAIN next  BY <1>4 DEF Started, TypeOK
<1>7. v \in Units /\ v \notin arena /\ v \in Nat \ {0}
  <2>1. v \in v .. (v + k - 1)  BY <1>5
  <2>. QED  BY <1>3, <2>1, UnitsPositive
<1>8. v \notin DOMAIN size
  <2>1. ASSUME NEW x \in Blocks PROVE x \in arena
    <3>1. x \in Nat /\ In(x, x)  BY HeaderTypes DEF In, Disjoint, Blocks
    <3>. QED  BY <3>1 DEF Covered
  <2>. QED  BY <2>1, <1>7 DEF Blocks, Base
<1>9. /\ DOMAIN size' = DOMAIN size \cup {v} /\ size'[v] = k
      /\ \A x \in DOMAIN size : size'[x] = size[x]
  BY <1>3, <1>8
<1>10. Blocks' = Blocks \cup {v}  BY <1>7, <1>9 DEF Blocks, Base
<1>11. TypeOK'
  <2>1. size' \in [DOMAIN size' -> Nat]
    <3>1. \A x \in DOMAIN size' : size'[x] \in Nat  BY <1>5, <1>9, HeaderTypes
    <3>. QED  BY <1>3, <1>9, <3>1
  <2>2. v \in Pointers /\ freep \in Pointers  BY <1>6, <1>7 DEF TypeOK, Pointers
  <2>3. arena' \subseteq Units  BY <1>3 DEF TypeOK
  <2>. QED  BY <1>3, <1>4, <1>9, <2>1, <2>2, <2>3 DEF TypeOK
<1>12. Started'
  <2>1. Base \in DOMAIN size  BY <1>6, HeaderTypes DEF Started
  <2>. QED  BY <1>4, <1>6, <1>9, <2>1 DEF Started
<1>13. Owned'
  <2>1. Limbo = {} /\ Limbo' = {v}  BY <1>3, <1>4 DEF Limbo
  <2>. QED  BY <1>4, <1>8, <1>9, <2>1, HeaderTypes DEF Owned
<1>14. Disjoint'
  <2>1. \A x \in Blocks : x \in Nat /\ size[x] \in Nat \ {0} /\ size'[x] = size[x]
    BY <1>9, HeaderTypes DEF Blocks, Disjoint
  <2>2. \A x \in Blocks' : size'[x] > 0  BY <1>5, <1>9, <1>10, <2>1
  <2>3. ASSUME NEW x \in Blocks, x < v PROVE x + size[x] <= v
    <3>1. ~ In(v, x)  BY <1>7 DEF Covered
    <3>. QED  BY <2>1, <2>3, <3>1, <1>5 DEF In
  <2>4. ASSUME NEW x \in Blocks, v < x PROVE v + k <= x
    <3>1. In(x, x)  BY <2>1 DEF In
    <3>2. x \in arena  BY <3>1, <2>1 DEF Covered
    <3>3. x \notin v .. (v + k - 1)  BY <3>2, <1>3
    <3>. QED  BY <3>3, <2>1, <2>4, <1>5
  <2>. QED  BY <2>1, <2>2, <2>3, <2>4, <1>5, <1>9, <1>10 DEF Disjoint
<1>15. Covered'
  <2>1. \A x \in Blocks : size'[x] = size[x]  BY <1>9 DEF Blocks
  <2>2. ASSUME NEW u \in arena' PROVE \E x \in Blocks' : In(u, x)'
    <3>1. CASE u \in arena
      <4>1. PICK x \in Blocks : In(u, x)  BY <3>1 DEF Covered
      <4>. QED  BY <4>1, <2>1, <1>10 DEF In
    <3>2. CASE u \in v .. (v + k - 1)
      <4>1. In(u, v)'  BY <3>2, <1>5, <1>9 DEF In
      <4>. QED  BY <4>1, <1>10
    <3>. QED  BY <2>2, <3>1, <3>2, <1>3
  <2>3. ASSUME NEW x \in Blocks', NEW u \in Nat, In(u, x)' PROVE u \in arena'
    <3>1. CASE x = v
      <4>1. u \in v .. (v + k - 1)  BY <2>3, <3>1, <1>5, <1>9 DEF In
      <4>. QED  BY <4>1, <1>3
    <3>2. CASE x \in Blocks
      <4>1. In(u, x)  BY <2>1, <2>3, <3>2 DEF In
      <4>. QED  BY <4>1, <3>2, <1>3 DEF Covered
    <3>. QED  BY <3>1, <3>2, <1>10
  <2>. QED  BY <2>2, <2>3 DEF Covered
<1>16. FreeListSorted'  BY <1>4 DEF FreeListSorted, Successor
<1>17. Coalesced'  BY <1>4, <1>9, HeaderTypes DEF Coalesced
<1>18. RequestFits'  BY <1>4, <1>9, HeaderTypes DEF RequestFits
<1>19. Scanning' /\ Exhausted' /\ Walking'
  <2>1. bp' \in Blocks'  BY <1>3, <1>10
  <2>2. nunits' = UnitsFor(nbytes)'  BY <1>4 DEF Exhausted, UnitsFor
  <2>. QED  BY <2>1, <2>2, <1>4, <1>6 DEF Scanning, Exhausted, Walking
<1>. QED
  BY <1>11, <1>12, <1>13, <1>14, <1>15, <1>16, <1>17, <1>18, <1>19

(***************************************************************************)
(* kfree puts a block on the list, and joins it with its neighbours.       *)
(***************************************************************************)

\* The place of block b is between the neighbours q and u of the list.
Place(q, b, u) ==
  /\ Base \in DOMAIN next /\ size[Base] = 0
  /\ q \in DOMAIN next /\ u = next[q]
  /\ b \in Blocks /\ b \notin DOMAIN next
  /\ q < b /\ (b < u \/ u = Base)
  /\ \A z \in DOMAIN next : z <= q \/ (b < u /\ u <= z)

\* What the four ways of putting a block on the list have to keep.
Shape ==
  /\ size \in [DOMAIN size -> Nat] /\ DOMAIN size \subseteq Pointers
  /\ next \in [DOMAIN next -> DOMAIN next] /\ DOMAIN next \subseteq DOMAIN size
  /\ Disjoint
  /\ Covered
  /\ FreeListSorted
  /\ Coalesced

\* kfree's loop ends at the place of bp: the "start or end of arena" test
\* never stops it elsewhere, because base is below every block.
LEMMA PlaceFound ==
  ASSUME Inv, pc = "walk", Between
  PROVE  Place(p, bp, next[p])
<1>. USE DEF Inv
<1>1. Base \in DOMAIN next /\ size[Base] = 0  BY DEF Started
<1>2. p \in DOMAIN next /\ bp \in Blocks /\ bp \notin DOMAIN next
  BY DEF Walking, Owned, Limbo
<1>3. p \in Nat /\ bp \in Nat \ {0} /\ next[p] \in DOMAIN next /\ next[p] \in Nat
  BY <1>2, HeaderTypes
<1>4. p < bp /\ (bp < next[p] \/ next[p] = Base)
  BY <1>1, <1>2, <1>3, Cycle DEF Between, Base
<1>5. ASSUME NEW z \in DOMAIN next PROVE z <= p \/ (bp < next[p] /\ next[p] <= z)
  <2>1. Successor(p, next[p])  BY <1>2 DEF FreeListSorted
  <2>. QED  BY <2>1, <1>2, <1>3, <1>4, HeaderTypes DEF Successor, Base
<1>. QED  BY <1>1, <1>2, <1>4, <1>5 DEF Place

\* The numbers behind a place.
LEMMA PlaceTypes ==
  ASSUME Inv, NEW q, NEW b, NEW u, Place(q, b, u)
  PROVE  /\ q \in Nat /\ b \in Nat \ {0} /\ u \in Nat
         /\ q \in DOMAIN size /\ u \in DOMAIN next /\ u \in DOMAIN size
         /\ size[q] \in Nat /\ size[b] \in Nat \ {0} /\ size[u] \in Nat
         /\ q # b /\ u # b
         /\ b + size[b] = u => u \in Blocks /\ b < u /\ u # q /\ u \in Nat \ {0} /\ next[u] # u
         /\ q + size[q] = b => q \in Blocks
<1>. USE DEF Inv
<1>1. /\ q \in Nat /\ b \in Nat \ {0} /\ u \in Nat
      /\ q \in DOMAIN size /\ u \in DOMAIN next /\ u \in DOMAIN size
      /\ size[q] \in Nat /\ size[b] \in Nat \ {0} /\ size[u] \in Nat
      /\ q # b /\ u # b
  BY HeaderTypes DEF Place, Disjoint, Blocks
<1>2. ASSUME b + size[b] = u
      PROVE  u \in Blocks /\ b < u /\ u # q /\ u \in Nat \ {0} /\ next[u] # u
  <2>1. u \in Blocks /\ b < u /\ u # q /\ u \in Nat \ {0}
    BY <1>1, <1>2 DEF Place, Blocks, Base
  <2>. QED  BY <1>1, <2>1, Cycle DEF Place
<1>3. ASSUME q + size[q] = b PROVE q \in Blocks
  BY <1>1, <1>3 DEF Place, Blocks, Base
<1>. QED  BY <1>1, <1>2, <1>3

\* No neighbour touches the block.
LEMMA InsertShape ==
  ASSUME Inv, NEW q, NEW b, NEW u, Place(q, b, u), arena' = arena,
         b + size[b] # u, q + size[q] # b,
         size' = size,
         next' = [x \in DOMAIN next \cup {b} |->
                    CASE x = q -> b [] x = b -> u [] OTHER -> next[x]]
  PROVE  Shape'
<1>. USE DEF Inv
<1>1. /\ q \in Nat /\ b \in Nat \ {0} /\ u \in Nat
      /\ q \in DOMAIN size /\ u \in DOMAIN next /\ u \in DOMAIN size
      /\ q # b /\ u # b
  BY PlaceTypes
<1>2. /\ DOMAIN next' = DOMAIN next \cup {b}
      /\ next'[q] = b /\ next'[b] = u
      /\ \A x \in DOMAIN next \ {q} : next'[x] = next[x]
  BY <1>1 DEF Place
<1>3. next' \in [DOMAIN next' -> DOMAIN next']
  <2>1. \A x \in DOMAIN next' : next'[x] \in DOMAIN next'
    BY <1>1, <1>2, HeaderTypes
  <2>. QED  BY <1>2, <2>1
<1>4. size' \in [DOMAIN size' -> Nat] /\ DOMAIN size' \subseteq Pointers
      /\ DOMAIN next' \subseteq DOMAIN size'
  BY <1>2 DEF TypeOK, Place, Blocks, Pointers
<1>5. Disjoint' /\ Covered'  BY DEF Disjoint, Covered, Blocks, In
<1>6. FreeListSorted'
  <2>1. SUFFICES ASSUME NEW x \in DOMAIN next' PROVE Successor(x, next[x])'
    BY DEF FreeListSorted
  <2>2. CASE x = q  BY <2>2, <1>1, <1>2, HeaderTypes DEF Place, Successor
  <2>3. CASE x = b  BY <2>3, <1>1, <1>2, HeaderTypes DEF Place, Successor, Base
  <2>4. CASE x # q /\ x # b
    <3>1. x \in DOMAIN next /\ Successor(x, next[x]) /\ next[x] # u
      BY <2>1, <2>4, <1>2, Cycle DEF FreeListSorted, Place
    <3>. QED  BY <2>4, <3>1, <1>1, <1>2, HeaderTypes DEF Place, Successor, Base
  <2>. QED  BY <2>2, <2>3, <2>4
<1>7. Coalesced'
  <2>1. SUFFICES ASSUME NEW x \in DOMAIN next' \ {Base} PROVE x + size[x] # next'[x]
    BY DEF Coalesced
  <2>. QED  BY <1>1, <1>2 DEF Coalesced
<1>. QED  BY <1>3, <1>4, <1>5, <1>6, <1>7 DEF Shape

\* A block that swallows the blocks G and covers exactly their units keeps
\* the arena tiled.
LEMMA MergeTiles ==
  ASSUME TypeOK, Disjoint, Covered, arena' = arena,
         NEW m \in Blocks, NEW G \in SUBSET Blocks, m \notin G,
         Blocks' = Blocks \ G,
         size'[m] \in Nat \ {0},
         \A x \in Blocks \ (G \cup {m}) : size'[x] = size[x],
         \A w \in Nat : In(w, m)' <=> In(w, m) \/ \E g \in G : In(w, g)
  PROVE  Disjoint' /\ Covered'
<1>1. \A x \in Blocks : x \in Nat /\ size[x] \in Nat \ {0}
  BY HeaderTypes DEF Blocks, Disjoint
<1>2. \A x, y \in Blocks : In(y, x) => x = y
  BY <1>1 DEF Disjoint, In
<1>3. \A x \in Blocks' : size'[x] > 0  BY <1>1
<1>4. ASSUME NEW x \in Blocks', NEW y \in Blocks', x < y PROVE x + size'[x] <= y
  <2>1. x \in Blocks /\ y \in Blocks /\ x \in Nat /\ y \in Nat /\ x # y /\ y \notin G
    BY <1>1, <1>4
  <2>2. CASE x = m
    <3>1. ~ In(y, m)'  BY <2>1, <2>2, <1>2
    <3>. QED  BY <3>1, <2>1, <2>2, <1>4 DEF In
  <2>3. CASE x # m
    <3>1. size'[x] = size[x]  BY <2>3
    <3>. QED  BY <2>1, <3>1, <1>4 DEF Disjoint
  <2>. QED  BY <2>2, <2>3
<1>5. Disjoint'  BY <1>3, <1>4 DEF Disjoint
<1>6. ASSUME NEW w \in arena' PROVE \E x \in Blocks' : In(w, x)'
  <2>1. PICK x \in Blocks : In(w, x)  BY <1>6 DEF Covered
  <2>2. w \in Nat  BY <1>6, HeaderTypes
  <2>3. CASE x \in G \/ x = m
    BY <2>1, <2>2, <2>3
  <2>4. CASE x \notin G /\ x # m
    BY <2>1, <2>4 DEF In
  <2>. QED  BY <2>3, <2>4
<1>7. ASSUME NEW x \in Blocks', NEW w \in Nat, In(w, x)' PROVE w \in arena'
  <2>1. CASE x = m  BY <2>1, <1>7 DEF Covered
  <2>2. CASE x # m
    <3>1. In(w, x)  BY <2>2, <1>7 DEF In
    <3>. QED  BY <3>1 DEF Covered
  <2>. QED  BY <2>1, <2>2
<1>. QED  BY <1>5, <1>6, <1>7 DEF Covered

\* The block and its upper neighbour become one block.
LEMMA JoinUpperShape ==
  ASSUME Inv, NEW q, NEW b, NEW u, Place(q, b, u), arena' = arena,
         b + size[b] = u, q + size[q] # b,
         size' = [x \in DOMAIN size \ {u} |->
                    IF x = b THEN size[b] + size[u] ELSE size[x]],
         next' = [x \in (DOMAIN next \cup {b}) \ {u} |->
                    CASE x = q -> b [] x = b -> next[u] [] OTHER -> next[x]]
  PROVE  Shape'
<1>. USE DEF Inv
<1>1. /\ q \in Nat /\ b \in Nat \ {0} /\ u \in Nat \ {0}
      /\ q \in DOMAIN size /\ u \in DOMAIN next /\ u \in DOMAIN size
      /\ size[q] \in Nat /\ size[b] \in Nat \ {0} /\ size[u] \in Nat
      /\ q # b /\ u # b /\ u \in Blocks /\ b < u /\ u # q /\ next[u] # u
  BY PlaceTypes
<1>2. /\ DOMAIN next' = (DOMAIN next \cup {b}) \ {u}
      /\ next'[q] = b /\ next'[b] = next[u]
      /\ \A x \in DOMAIN next \ {q, u} : next'[x] = next[x]
  BY <1>1 DEF Place
<1>3. /\ DOMAIN size' = DOMAIN size \ {u}
      /\ size'[b] = size[b] + size[u]
      /\ \A x \in DOMAIN size \ {b, u} : size'[x] = size[x]
  BY <1>1 DEF Place, Blocks
<1>4. Blocks' = Blocks \ {u}  BY <1>3 DEF Blocks
<1>5. next' \in [DOMAIN next' -> DOMAIN next']
  <2>1. \A x \in DOMAIN next' : next'[x] \in DOMAIN next'
    BY <1>1, <1>2, HeaderTypes, Cycle DEF Place
  <2>. QED  BY <1>2, <2>1
<1>6. size' \in [DOMAIN size' -> Nat] /\ DOMAIN size' \subseteq Pointers
      /\ DOMAIN next' \subseteq DOMAIN size'
  <2>1. \A x \in DOMAIN size' : size'[x] \in Nat  BY <1>1, <1>3, HeaderTypes
  <2>2. size' \in [DOMAIN size' -> Nat]  BY <1>3, <2>1
  <2>. QED  BY <2>2, <1>2, <1>3 DEF TypeOK, Place, Blocks, Pointers
<1>7. Disjoint' /\ Covered'
  <2>1. \A w \in Nat : In(w, b)' <=> In(w, b) \/ \E g \in {u} : In(w, g)
    BY <1>1, <1>3 DEF In
  <2>2. \A x \in Blocks \ ({u} \cup {b}) : size'[x] = size[x]  BY <1>3 DEF Blocks
  <2>3. size'[b] \in Nat \ {0}  BY <1>1, <1>3
  <2>4. b \in Blocks /\ {u} \subseteq Blocks /\ b \notin {u}  BY <1>1 DEF Place
  <2>. QED  BY <2>1, <2>2, <2>3, <2>4, <1>4, MergeTiles
<1>8. FreeListSorted'
  <2>1. SUFFICES ASSUME NEW x \in DOMAIN next' PROVE Successor(x, next[x])'
    BY DEF FreeListSorted
  <2>2. CASE x = q  BY <2>2, <1>1, <1>2, HeaderTypes DEF Place, Successor
  <2>3. CASE x = b
    <3>1. Successor(u, next[u])  BY <1>1 DEF FreeListSorted
    <3>. QED  BY <2>3, <3>1, <1>1, <1>2, HeaderTypes DEF Place, Successor, Base
  <2>4. CASE x # q /\ x # b
    <3>1. x \in DOMAIN next /\ Successor(x, next[x]) /\ next[x] # u
      BY <2>1, <2>4, <1>2, Cycle DEF FreeListSorted, Place
    <3>. QED  BY <2>1, <2>4, <3>1, <1>1, <1>2, HeaderTypes DEF Place, Successor, Base
  <2>. QED  BY <2>2, <2>3, <2>4
<1>9. Coalesced'
  <2>1. SUFFICES ASSUME NEW x \in DOMAIN next' \ {Base} PROVE x + size'[x] # next'[x]
    BY DEF Coalesced
  <2>2. CASE x = b
    <3>1. u + size[u] # next[u]  BY <1>1 DEF Coalesced, Blocks
    <3>. QED  BY <2>2, <3>1, <1>1, <1>2, <1>3
  <2>3. CASE x # b
    <3>1. x \in DOMAIN next /\ x \in DOMAIN size \ {b, u}
      BY <2>1, <2>3, <1>2, HeaderTypes
    <3>2. size'[x] = size[x]  BY <3>1, <1>3
    <3>. QED  BY <2>1, <2>3, <3>1, <3>2, <1>2 DEF Coalesced
  <2>. QED  BY <2>2, <2>3
<1>. QED  BY <1>5, <1>6, <1>7, <1>8, <1>9 DEF Shape

\* The lower neighbour swallows the block: the links stay as they are.
LEMMA JoinLowerShape ==
  ASSUME Inv, NEW q, NEW b, NEW u, Place(q, b, u), arena' = arena,
         b + size[b] # u, q + size[q] = b,
         size' = [x \in DOMAIN size \ {b} |->
                    IF x = q THEN size[q] + size[b] ELSE size[x]],
         next' = next
  PROVE  Shape'
<1>. USE DEF Inv
<1>1. /\ q \in Nat /\ b \in Nat \ {0} /\ u \in Nat
      /\ q \in DOMAIN size /\ u \in DOMAIN next /\ u \in DOMAIN size
      /\ size[q] \in Nat /\ size[b] \in Nat \ {0} /\ size[u] \in Nat
      /\ q # b /\ u # b /\ q \in Blocks
  BY PlaceTypes
<1>2. /\ DOMAIN size' = DOMAIN size \ {b}
      /\ size'[q] = size[q] + size[b]
      /\ \A x \in DOMAIN size \ {q, b} : size'[x] = size[x]
  BY <1>1
<1>3. Blocks' = Blocks \ {b}  BY <1>2 DEF Blocks
<1>4. size' \in [DOMAIN size' -> Nat] /\ DOMAIN size' \subseteq Pointers
      /\ next' \in [DOMAIN next' -> DOMAIN next'] /\ DOMAIN next' \subseteq DOMAIN size'
  <2>1. \A x \in DOMAIN size' : size'[x] \in Nat  BY <1>1, <1>2, HeaderTypes
  <2>2. size' \in [DOMAIN size' -> Nat]  BY <1>2, <2>1
  <2>. QED  BY <2>2, <1>2 DEF TypeOK, Place, Pointers
<1>5. Disjoint' /\ Covered'
  <2>1. \A w \in Nat : In(w, q)' <=> In(w, q) \/ \E g \in {b} : In(w, g)
    BY <1>1, <1>2 DEF In
  <2>2. \A x \in Blocks \ ({b} \cup {q}) : size'[x] = size[x]  BY <1>2 DEF Blocks
  <2>3. size'[q] \in Nat \ {0}  BY <1>1, <1>2
  <2>4. q \in Blocks /\ {b} \subseteq Blocks /\ q \notin {b}  BY <1>1 DEF Place
  <2>. QED  BY <2>1, <2>2, <2>3, <2>4, <1>3, MergeTiles
<1>6. FreeListSorted'  BY DEF FreeListSorted, Successor
<1>7. Coalesced'
  <2>1. SUFFICES ASSUME NEW x \in DOMAIN next \ {Base} PROVE x + size'[x] # next[x]
    BY DEF Coalesced
  <2>2. CASE x = q
    <3>1. q + size'[q] = b + size[b]  BY <1>1, <1>2
    <3>. QED  BY <2>2, <3>1 DEF Place
  <2>3. CASE x # q
    <3>1. x \in DOMAIN size \ {q, b}  BY <2>3, HeaderTypes DEF Place
    <3>. QED  BY <3>1, <1>2 DEF Coalesced
  <2>. QED  BY <2>2, <2>3
<1>. QED  BY <1>4, <1>5, <1>6, <1>7 DEF Shape

\* The block fills the gap between its neighbours: all three become one.
LEMMA JoinBothShape ==
  ASSUME Inv, NEW q, NEW b, NEW u, Place(q, b, u), arena' = arena,
         b + size[b] = u, q + size[q] = b,
         size' = [x \in DOMAIN size \ {b, u} |->
                    IF x = q THEN size[q] + (size[b] + size[u]) ELSE size[x]],
         next' = [x \in DOMAIN next \ {u} |->
                    IF x = q THEN next[u] ELSE next[x]]
  PROVE  Shape'
<1>. USE DEF Inv
<1>1. /\ q \in Nat /\ b \in Nat \ {0} /\ u \in Nat \ {0}
      /\ q \in DOMAIN size /\ u \in DOMAIN next /\ u \in DOMAIN size
      /\ size[q] \in Nat /\ size[b] \in Nat \ {0} /\ size[u] \in Nat
      /\ q # b /\ u # b /\ u \in Blocks /\ q \in Blocks /\ b < u /\ u # q /\ next[u] # u
  BY PlaceTypes
<1>2. /\ DOMAIN next' = DOMAIN next \ {u}
      /\ next'[q] = next[u]
      /\ \A x \in DOMAIN next \ {q, u} : next'[x] = next[x]
  BY <1>1 DEF Place
<1>3. /\ DOMAIN size' = DOMAIN size \ {b, u}
      /\ size'[q] = size[q] + (size[b] + size[u])
      /\ \A x \in DOMAIN size \ {q, b, u} : size'[x] = size[x]
  BY <1>1
<1>4. Blocks' = Blocks \ {b, u}  BY <1>3 DEF Blocks
<1>5. next' \in [DOMAIN next' -> DOMAIN next']
  <2>1. \A x \in DOMAIN next' : next'[x] \in DOMAIN next'
    BY <1>1, <1>2, HeaderTypes, Cycle DEF Place
  <2>. QED  BY <1>2, <2>1
<1>6. size' \in [DOMAIN size' -> Nat] /\ DOMAIN size' \subseteq Pointers
      /\ DOMAIN next' \subseteq DOMAIN size'
  <2>1. \A x \in DOMAIN size' : size'[x] \in Nat  BY <1>1, <1>3, HeaderTypes
  <2>2. size' \in [DOMAIN size' -> Nat]  BY <1>3, <2>1
  <2>. QED  BY <2>2, <1>2, <1>3 DEF TypeOK, Place, Pointers
<1>7. Disjoint' /\ Covered'
  <2>1. \A w \in Nat : In(w, q)' <=> In(w, q) \/ \E g \in {b, u} : In(w, g)
    BY <1>1, <1>3 DEF In
  <2>2. \A x \in Blocks \ ({b, u} \cup {q}) : size'[x] = size[x]  BY <1>3 DEF Blocks
  <2>3. size'[q] \in Nat \ {0}  BY <1>1, <1>3
  <2>4. q \in Blocks /\ {b, u} \subseteq Blocks /\ q \notin {b, u}  BY <1>1 DEF Place
  <2>. QED  BY <2>1, <2>2, <2>3, <2>4, <1>4, MergeTiles
<1>8. FreeListSorted'
  <2>1. SUFFICES ASSUME NEW x \in DOMAIN next' PROVE Successor(x, next[x])'
    BY DEF FreeListSorted
  <2>2. CASE x = q
    <3>1. Successor(u, next[u])  BY <1>1 DEF FreeListSorted
    <3>. QED  BY <2>2, <3>1, <1>1, <1>2, HeaderTypes DEF Place, Successor, Base
  <2>3. CASE x # q
    <3>1. x \in DOMAIN next /\ Successor(x, next[x])
      BY <2>1, <1>2 DEF FreeListSorted
    <3>. QED  BY <2>1, <2>3, <3>1, <1>1, <1>2, HeaderTypes DEF Successor
  <2>. QED  BY <2>2, <2>3
<1>9. Coalesced'
  <2>1. SUFFICES ASSUME NEW x \in DOMAIN next' \ {Base} PROVE x + size'[x] # next'[x]
    BY DEF Coalesced
  <2>2. CASE x = q
    <3>1. u + size[u] # next[u]  BY <1>1 DEF Coalesced, Blocks
    <3>2. q + size'[q] = u + size[u]  BY <1>1, <1>3
    <3>. QED  BY <2>2, <3>1, <3>2, <1>2
  <2>3. CASE x # q
    <3>1. x \in DOMAIN next /\ x \in DOMAIN size \ {q, b, u}
      BY <2>1, <2>3, <1>2, HeaderTypes DEF Place
    <3>2. size'[x] = size[x]  BY <3>1, <1>3
    <3>. QED  BY <2>1, <2>3, <3>1, <3>2, <1>2 DEF Coalesced
  <2>. QED  BY <2>2, <2>3
<1>. QED  BY <1>5, <1>6, <1>7, <1>8, <1>9 DEF Shape

\* kfree puts bp where it belongs and joins it with what it touches.
LEMMA JoinInv ==
  ASSUME Inv, kfree_join
  PROVE  Inv'
<1>. USE DEF Inv
<1>1. PICK q, b, u : q = p /\ b = bp /\ u = next[p]  OBVIOUS
<1>2. pc = "walk" /\ Between /\ UNCHANGED <<arena, held>> /\ freep' = q
  BY <1>1 DEF kfree_join
<1>3. Place(q, b, u)  BY <1>1, <1>2, PlaceFound
<1>4. /\ q \in Nat /\ b \in Nat \ {0} /\ u \in Nat
      /\ q \in DOMAIN size /\ u \in DOMAIN next /\ u \in DOMAIN size
      /\ q # b /\ u # b
      /\ b + size[b] = u => u \in Blocks /\ u # q
      /\ q + size[q] = b => q \in Blocks
  BY <1>3, PlaceTypes
<1>5. PICK gone : gone = (IF b + size[b] = u THEN {u} ELSE {})
                           \cup (IF q + size[q] = b THEN {b} ELSE {})
  OBVIOUS
<1>6. /\ size' = [x \in DOMAIN size \ gone |->
                    CASE x = q -> IF q + size[q] = b
                                  THEN size[q] + IF b + size[b] = u THEN size[b] + size[u]
                                                 ELSE size[b]
                                  ELSE size[q]
                      [] x = b -> IF b + size[b] = u THEN size[b] + size[u] ELSE size[b]
                      [] OTHER -> size[x]]
      /\ next' = [x \in (DOMAIN next \cup {b}) \ gone |->
                    CASE x = q -> IF q + size[q] = b
                                  THEN IF b + size[b] = u THEN next[u] ELSE u
                                  ELSE b
                      [] x = b -> IF b + size[b] = u THEN next[u] ELSE u
                      [] OTHER -> next[x]]
  BY <1>1, <1>5 DEF kfree_join, JoinsUpper, JoinsLower
<1>7. /\ DOMAIN size' = DOMAIN size \ gone
      /\ DOMAIN next' = (DOMAIN next \cup {b}) \ gone
      /\ gone \subseteq {b, u} /\ q \notin gone /\ Base \notin gone
      /\ \A x \in DOMAIN size \ {q, b, u} : size'[x] = size[x]
  BY <1>4, <1>5, <1>6 DEF Blocks, Base
<1>8. Shape'
  <2>1. CASE b + size[b] # u /\ q + size[q] # b
    <3>1. gone = {}  BY <2>1, <1>5
    <3>2. size' = size  BY <2>1, <3>1, <1>6 DEF TypeOK
    <3>3. next' = [x \in DOMAIN next \cup {b} |->
                     CASE x = q -> b [] x = b -> u [] OTHER -> next[x]]
      BY <2>1, <3>1, <1>6
    <3>. QED  BY <2>1, <3>2, <3>3, <1>2, <1>3, InsertShape
  <2>2. CASE b + size[b] = u /\ q + size[q] # b
    <3>1. gone = {u}  BY <2>2, <1>5
    <3>2. size' = [x \in DOMAIN size \ {u} |->
                     IF x = b THEN size[b] + size[u] ELSE size[x]]
      BY <2>2, <3>1, <1>4, <1>6
    <3>3. next' = [x \in (DOMAIN next \cup {b}) \ {u} |->
                     CASE x = q -> b [] x = b -> next[u] [] OTHER -> next[x]]
      BY <2>2, <3>1, <1>6
    <3>. QED  BY <2>2, <3>2, <3>3, <1>2, <1>3, JoinUpperShape
  <2>3. CASE b + size[b] # u /\ q + size[q] = b
    <3>1. gone = {b}  BY <2>3, <1>5
    <3>2. size' = [x \in DOMAIN size \ {b} |->
                     IF x = q THEN size[q] + size[b] ELSE size[x]]
      BY <2>3, <3>1, <1>6
    <3>3. next' = next
      <4>1. next' = [x \in DOMAIN next |-> IF x = q THEN u ELSE next[x]]
        <5>1. (DOMAIN next \cup {b}) \ {b} = DOMAIN next  BY <1>3 DEF Place
        <5>. QED  BY <2>3, <3>1, <5>1, <1>3, <1>6 DEF Place
      <4>. QED  BY <4>1, <1>3 DEF Place, TypeOK
    <3>. QED  BY <2>3, <3>2, <3>3, <1>2, <1>3, JoinLowerShape
  <2>4. CASE b + size[b] = u /\ q + size[q] = b
    <3>1. gone = {b, u}  BY <2>4, <1>5
    <3>2. size' = [x \in DOMAIN size \ {b, u} |->
                     IF x = q THEN size[q] + (size[b] + size[u]) ELSE size[x]]
      BY <2>4, <3>1, <1>6
    <3>3. next' = [x \in DOMAIN next \ {u} |->
                     IF x = q THEN next[u] ELSE next[x]]
      <4>1. (DOMAIN next \cup {b}) \ {b, u} = DOMAIN next \ {u}  BY <1>3 DEF Place
      <4>. QED  BY <2>4, <3>1, <4>1, <1>3, <1>6 DEF Place
    <3>. QED  BY <2>4, <3>2, <3>3, <1>2, <1>3, JoinBothShape
  <2>. QED  BY <2>1, <2>2, <2>3, <2>4
<1>9. q \in DOMAIN next' /\ next'[q] \in DOMAIN next'
  BY <1>3, <1>7, <1>8 DEF Place, Shape
<1>10. \/ /\ pc' = "idle" /\ nbytes' = 0 /\ nunits' = 1
          /\ p' = Base /\ prevp' = Base /\ bp' = Base /\ caller' = "user"
       \/ /\ caller = "acquire_more_heap" /\ pc' = "scan"
          /\ prevp' = q /\ p' = next'[q] /\ bp' = Base /\ caller' = "user"
          /\ UNCHANGED <<nbytes, nunits>>
  BY <1>1, <1>2 DEF kfree_join, LeaveCall, TypeOK
<1>11. TypeOK'
  <2>1. q \in Pointers /\ next'[q] \in Pointers /\ Base \in Pointers
    BY <1>8, <1>9 DEF Shape, Pointers
  <2>2. DOMAIN held \subseteq DOMAIN size'
    BY <1>1, <1>2, <1>4, <1>7 DEF TypeOK, Owned, Limbo
  <2>3. pc' \in {"idle", "scan"} /\ nbytes' \in Nat /\ nunits' \in Nat
        /\ p' \in Pointers /\ prevp' \in Pointers /\ bp' \in Pointers /\ caller' = "user"
    BY <1>10, <2>1 DEF TypeOK
  <2>. QED  BY <1>2, <1>8, <1>9, <2>2, <2>3 DEF TypeOK, Shape
<1>12. Started'
  <2>1. size'[Base] = 0
    <3>1. CASE Base = q
      <4>1. q + size[q] # b  BY <3>1, <1>4 DEF Blocks
      <4>. QED  BY <3>1, <4>1, <1>3, <1>4, <1>6, <1>7 DEF Place
    <3>2. CASE Base # q
      <4>1. Base # b /\ Base \in DOMAIN size  BY <1>3, HeaderTypes DEF Place, Blocks
      <4>. QED  BY <3>2, <4>1, <1>3, <1>6, <1>7 DEF Place
    <3>. QED  BY <3>1, <3>2
  <2>2. Base \in DOMAIN next'  BY <1>3, <1>7 DEF Place
  <2>3. freep' # NULL  BY <1>2, <1>4 DEF NULL
  <2>. QED  BY <2>1, <2>2, <2>3 DEF Started
<1>13. Owned'
  <2>1. Limbo = {b} /\ Limbo' = {}  BY <1>1, <1>2, <1>10 DEF Limbo
  <2>2. gone \cap DOMAIN held = {}  BY <2>1, <1>4, <1>7 DEF Owned
  <2>3. DOMAIN size = DOMAIN next \cup DOMAIN held \cup {b}  BY <2>1 DEF Owned
  <2>4. DOMAIN size' = DOMAIN next' \cup DOMAIN held'
    BY <2>2, <2>3, <1>2, <1>7
  <2>5. DOMAIN next' \cap DOMAIN held' = {}
    BY <2>1, <1>2, <1>7 DEF Owned
  <2>. QED  BY <2>1, <2>4, <2>5 DEF Owned
<1>14. RequestFits'
  <2>1. ASSUME NEW c \in DOMAIN held PROVE size'[c] = size[c]
    <3>1. c \in DOMAIN size /\ c \notin {q, b, u}
      BY <1>1, <1>2, <1>3, <1>4, HeaderTypes DEF Owned, Limbo, Place
    <3>. QED  BY <3>1, <1>7
  <2>. QED  BY <2>1, <1>2 DEF RequestFits
<1>15. Scanning' /\ Exhausted' /\ Walking'
  <2>1. caller = "acquire_more_heap" => nunits = UnitsFor(nbytes)
    BY <1>2 DEF Walking
  <2>2. CASE pc' = "scan"
    <3>1. prevp' = q /\ p' = next'[q] /\ nunits' = UnitsFor(nbytes)' /\ freep' = q
      BY <2>1, <2>2, <1>2, <1>10 DEF UnitsFor
    <3>2. ASSUME NEW x \in DOMAIN next' PROVE ~ Seen(x)'
      <4>1. x \in Nat  BY <3>2, <1>8, UnitsPositive DEF Shape, Pointers, Base
      <4>. QED  BY <3>1, <4>1, <1>4 DEF Seen
    <3>. QED  BY <3>1, <3>2, <2>2, <1>9 DEF Scanning, Exhausted, Walking
  <2>3. CASE pc' = "idle"  BY <2>3 DEF Scanning, Exhausted, Walking
  <2>. QED  BY <2>2, <2>3, <1>10
<1>. QED
  BY <1>8, <1>11, <1>12, <1>13, <1>14, <1>15 DEF Shape

-----------------------------------------------------------------------------
\* Every step of kmalloc and kfree keeps the invariant.
LEMMA NextInv == Inv /\ [Next]_vars => Inv'
<1>. SUFFICES ASSUME Inv, [Next]_vars PROVE Inv'
  OBVIOUS
<1>1. CASE UNCHANGED vars
  BY <1>1 DEF vars, list, locals, Inv, TypeOK, Started, Owned, Disjoint, Covered, In,
              FreeListSorted, Successor, Coalesced, RequestFits, Scanning, Seen,
              Exhausted, Walking, Blocks, Limbo
<1>2. CASE kmalloc_zero
  BY <1>1, <1>2 DEF kmalloc_zero
<1>3. CASE Step
  BY <1>3, ExactInv, SplitInv, WrappedInv, AdvanceInv, AcquireInv, FailsInv, WalkInv,
     JoinInv DEF Step
<1>. QED
  BY <1>1, <1>2, <1>3, KmallocInv, KfreeInv DEF Next

\* The invariant holds in every state the heap can reach.
THEOREM InvHolds == Spec => []Inv
  BY InitInv, NextInv, PTL DEF Spec

\* No pointer of the allocator leaves the heap, and the list is closed.
THEOREM TypeCorrect == Spec => []TypeOK
  BY InvHolds, PTL DEF Inv

\* The free list is one cycle in address order.
THEOREM ListStaysSorted == Spec => []FreeListSorted
  BY InvHolds, PTL DEF Inv

\* Two free neighbours are always one block.
THEOREM NeighboursJoined == Spec => []Coalesced
  BY InvHolds, PTL DEF Inv

\* A caller gets the memory it asked for, unless its request overflows.
THEOREM RequestsFit == Spec => []RequestFits
  BY InvHolds, PTL DEF Inv

\* Through every split and every join the blocks tile the arena.
THEOREM BlocksAlwaysTile == Spec => []BlocksTile
<1>1. ASSUME Inv PROVE BlocksTile
  <2>. USE <1>1 DEF Inv
  <2>1. ASSUME NEW b \in Blocks, NEW u
        PROVE  u \in BlockUnits(b) <=> u \in Nat /\ In(u, b)
    <3>1. b \in Nat /\ size[b] \in Nat  BY HeaderTypes DEF Blocks
    <3>. QED  BY <3>1 DEF BlockUnits, In
  <2>2. UNION {BlockUnits(b) : b \in Blocks} = arena
    BY <2>1, HeaderTypes DEF Covered
  <2>. QED  BY <2>2 DEF BlocksTile, Owned, Disjoint
<1>. QED  BY <1>1, InvHolds, PTL

\* kmalloc asks for more pages only when no gap of the arena is big enough.
\* A gap of nunits units would start in a free block x that is too small, go
\* on beyond its end, and so reach into a free block that follows x without
\* a gap, which kfree would have joined with it.
THEOREM NoGapIsMissed == Spec => []NoGapMissed
<1>1. ASSUME Inv PROVE NoGapMissed
  <2>. USE <1>1 DEF Inv
  <2>1. SUFFICES ASSUME pc = "acquire", NEW a \in arena,
                        a .. (a + nunits - 1) \subseteq arena \ HeldUnits
                 PROVE  FALSE
    BY DEF NoGapMissed
  <2>2. nunits \in Nat \ {0}
    BY <2>1, UnitsForPositive DEF Exhausted, TypeOK
  <2>3. ASSUME NEW u \in a .. (a + nunits - 1)
        PROVE  \E x \in DOMAIN next \ {Base} : In(u, x)
    <3>1. u \in arena /\ u \notin HeldUnits  BY <2>1
    <3>2. u \in Nat  BY <3>1, HeaderTypes
    <3>3. PICK x \in Blocks : In(u, x)  BY <3>1 DEF Covered
    <3>4. x \notin DOMAIN held
      <4>1. x \in Nat /\ size[x] \in Nat  BY HeaderTypes DEF Blocks
      <4>2. u \in BlockUnits(x)  BY <3>2, <3>3, <4>1 DEF BlockUnits, In
      <4>. QED  BY <3>1, <4>2 DEF HeldUnits
    <3>. QED  BY <3>3, <3>4, <2>1 DEF Owned, Limbo, Blocks
  <2>4. a \in Nat  BY HeaderTypes
  <2>5. PICK x \in DOMAIN next \ {Base} : In(a, x)
    <3>1. a \in a .. (a + nunits - 1)  BY <2>2, <2>4
    <3>. QED  BY <3>1, <2>3
  <2>6. x \in Blocks /\ x \in Nat /\ size[x] \in Nat /\ size[x] < nunits
    BY <2>1, HeaderTypes DEF Exhausted, Blocks
  <2>7. PICK y \in DOMAIN next \ {Base} : In(x + size[x], y)
    <3>1. x + size[x] \in a .. (a + nunits - 1)  BY <2>2, <2>4, <2>5, <2>6 DEF In
    <3>. QED  BY <3>1, <2>3
  <2>8. y \in Blocks /\ y \in Nat /\ size[y] \in Nat  BY HeaderTypes DEF Blocks
  <2>9. y = x + size[x] /\ x < y
    BY <2>6, <2>7, <2>8 DEF Disjoint, In
  <2>10. next[x] \in Nat /\ x < next[x] /\ next[x] <= y
    <3>1. Successor(x, next[x]) /\ next[x] \in Nat  BY HeaderTypes DEF FreeListSorted
    <3>. QED  BY <2>6, <2>8, <2>9, <3>1 DEF Successor
  <2>11. next[x] \in Blocks  BY <2>6, <2>10, HeaderTypes DEF Blocks, Base
  <2>12. x + size[x] <= next[x]  BY <2>6, <2>10, <2>11 DEF Disjoint
  <2>13. x + size[x] = next[x]  BY <2>6, <2>8, <2>9, <2>10, <2>12
  <2>. QED  BY <2>13 DEF Coalesced
<1>. QED  BY <1>1, InvHolds, PTL

-----------------------------------------------------------------------------
(***************************************************************************)
(* The free list implements the abstract heap.                             *)
(***************************************************************************)

\* Nobody holds a block before the first call.
LEMMA InitHeap == Init => AbstractHeap!Init
BY DEF Init, AbstractHeap!Init, HeldBlocks

\* A block of n units at b, cut from a free block x, is a block of the
\* abstract heap.
LEMMA MallocStep ==
  ASSUME Inv, NEW x \in DOMAIN next, NEW b \in Nat, NEW n \in Nat \ {0},
         x \in Blocks, x <= b, b + n <= x + size[x],
         DOMAIN held' = DOMAIN held \cup {b},
         size'[b] = n, \A c \in DOMAIN held : c # b /\ size'[c] = size[c],
         arena' = arena
  PROVE  AbstractHeap!Next
<1>. USE DEF Inv
<1>1. x \in Nat /\ size[x] \in Nat  BY HeaderTypes
<1>2. ASSUME NEW u \in b .. (b + n - 1) PROVE u \in arena \ AbstractHeap!Held
  <2>1. u \in Nat /\ In(u, x)  BY <1>1, <1>2 DEF In
  <2>2. ASSUME NEW c \in DOMAIN held PROVE u \notin AbstractHeap!Run(c, HeldBlocks[c])
    <3>1. c \in Blocks /\ c # x /\ c \in Nat /\ size[c] \in Nat
      <4>1. c # x /\ c # Base  BY DEF Owned, Started, Blocks
      <4>. QED  BY <4>1, HeaderTypes DEF Blocks
    <3>2. HeldBlocks[c] = size[c]  BY DEF HeldBlocks
    <3>3. ~ In(u, c)  BY <2>1, <3>1, <1>1 DEF Disjoint, In
    <3>. QED  BY <2>1, <3>1, <3>2, <3>3 DEF AbstractHeap!Run, In
  <2>3. DOMAIN HeldBlocks = DOMAIN held  BY DEF HeldBlocks
  <2>. QED  BY <2>1, <2>2, <2>3 DEF AbstractHeap!Held, Covered
<1>3. HeldBlocks' = [c \in DOMAIN HeldBlocks \cup {b} |->
                       IF c = b THEN n ELSE HeldBlocks[c]]
  BY DEF HeldBlocks
<1>4. AbstractHeap!Malloc(b, n)
  BY <1>2, <1>3 DEF AbstractHeap!Malloc, AbstractHeap!Run
<1>5. PICK last : last = b + n - 1  OBVIOUS
<1>6. b \in arena /\ last \in arena /\ last - b + 1 = n
  <2>1. b \in b .. (b + n - 1) /\ last \in b .. (b + n - 1) /\ last - b + 1 = n
    BY <1>5
  <2>. QED  BY <2>1, <1>2
<1>. QED  BY <1>4, <1>6 DEF AbstractHeap!Next

\* Every step of kmalloc and kfree is a step of the abstract heap.
LEMMA NextHeap == Inv /\ [Next]_vars => [AbstractHeap!Next]_(AbstractHeap!vars)
<1>. SUFFICES ASSUME Inv, [Next]_vars PROVE [AbstractHeap!Next]_(AbstractHeap!vars)
  OBVIOUS
<1>. USE DEF Inv
<1>1. ASSUME UNCHANGED <<size, held, arena>> PROVE UNCHANGED AbstractHeap!vars
  BY <1>1 DEF AbstractHeap!vars, HeldBlocks
<1>2. ASSUME NEW n \in Requests, kmalloc(n) PROVE UNCHANGED AbstractHeap!vars
  <2>1. CASE freep = NULL
    <3>1. DOMAIN held = {}  BY <2>1 DEF Started, TypeOK
    <3>2. UNCHANGED <<held, arena>>  BY <1>2 DEF kmalloc
    <3>. QED  BY <3>1, <3>2 DEF AbstractHeap!vars, HeldBlocks
  <2>2. CASE freep # NULL  BY <1>1, <1>2, <2>2 DEF kmalloc, list
  <2>. QED  BY <2>1, <2>2
<1>3. ASSUME NEW b \in DOMAIN held, kfree(b) PROVE AbstractHeap!Next
  <2>1. /\ DOMAIN held' = DOMAIN held \ {b}
        /\ UNCHANGED <<size, arena>>
    BY <1>3 DEF kfree, list
  <2>2. HeldBlocks' = [c \in DOMAIN HeldBlocks \ {b} |-> HeldBlocks[c]]
    BY <2>1 DEF HeldBlocks
  <2>3. AbstractHeap!Free(b)  BY <2>1, <2>2 DEF AbstractHeap!Free
  <2>4. b \in DOMAIN HeldBlocks  BY DEF HeldBlocks
  <2>. QED  BY <2>3, <2>4 DEF AbstractHeap!Next
<1>4. ASSUME kmalloc_exact PROVE AbstractHeap!Next
  <2>1. /\ pc = "scan" /\ size[p] = nunits
        /\ DOMAIN held' = DOMAIN held \cup {p} /\ UNCHANGED <<size, arena>>
    BY <1>4 DEF kmalloc_exact, Return
  <2>2. size[p] >= nunits  BY <2>1 DEF TypeOK
  <2>3. /\ p \in DOMAIN next /\ p \in Blocks /\ p \in Nat
        /\ nunits \in Nat \ {0}
    BY <2>1, <2>2, FoundBlock
  <2>4. PICK b : b = p  OBVIOUS
  <2>5. PICK n : n = nunits  OBVIOUS
  <2>6. \A c \in DOMAIN held : c # b /\ size'[c] = size[c]
    BY <2>1, <2>3, <2>4 DEF Owned
  <2>7. /\ b \in DOMAIN next /\ b \in Blocks /\ b \in Nat /\ n \in Nat \ {0}
        /\ b <= b /\ b + n <= b + size[b]
        /\ DOMAIN held' = DOMAIN held \cup {b} /\ size'[b] = n /\ arena' = arena
    BY <2>1, <2>3, <2>4, <2>5
  <2>. QED  BY <2>6, <2>7, MallocStep
<1>5. ASSUME kmalloc_split PROVE AbstractHeap!Next
  <2>1. PICK b, n : b = p + (size[p] - nunits) /\ n = nunits  OBVIOUS
  <2>2. /\ pc = "scan" /\ size[p] > nunits
        /\ size' = [x \in DOMAIN size \cup {b} |->
                      CASE x = p -> size[p] - nunits
                        [] x = b -> nunits
                        [] OTHER -> size[x]]
        /\ DOMAIN held' = DOMAIN held \cup {b} /\ UNCHANGED arena
    BY <1>5, <2>1 DEF kmalloc_split, Return
  <2>3. p \in DOMAIN size /\ size[p] \in Nat  BY <2>2, HeaderTypes DEF Scanning
  <2>4. size[p] >= nunits  BY <2>2, <2>3 DEF TypeOK
  <2>5. /\ p \in DOMAIN next /\ p \in Blocks /\ p \in Nat \ {0}
        /\ nunits \in Nat \ {0}
    BY <2>2, <2>4, FoundBlock
  <2>6. b \in Nat /\ p < b /\ b + n <= p + size[p] /\ b < p + size[p]
    BY <2>1, <2>2, <2>3, <2>5
  <2>7. b \notin DOMAIN size
    BY <2>3, <2>5, <2>6, HeaderTypes DEF Disjoint, Blocks, Base
  <2>8. size'[b] = n  BY <2>1, <2>2, <2>3, <2>7
  <2>9. \A c \in DOMAIN held : c # b /\ size'[c] = size[c]
    BY <2>2, <2>5, <2>7, HeaderTypes DEF Owned
  <2>10. PICK x : x = p  OBVIOUS
  <2>11. /\ x \in DOMAIN next /\ x \in Blocks /\ n \in Nat \ {0}
         /\ x <= b /\ b + n <= x + size[x]
         /\ DOMAIN held' = DOMAIN held \cup {b} /\ arena' = arena
    BY <2>1, <2>2, <2>5, <2>6, <2>10
  <2>. QED  BY <2>6, <2>8, <2>9, <2>11, MallocStep
<1>6. ASSUME acquire_more_heap PROVE AbstractHeap!Next
  <2>1. arena \subseteq arena' /\ arena' \in SUBSET Units
    BY <1>6 DEF acquire_more_heap, TypeOK
  <2>2. UNCHANGED HeldBlocks
    <3>1. PICK page \in 1 .. HeapPages :
            LET vaddr == page * PageUnits
                units == PageFrames * PageUnits
                chunk == vaddr .. (vaddr + units - 1)
            IN  /\ chunk \cap arena = {}
                /\ size' = [x \in DOMAIN size \cup {vaddr} |->
                              IF x = vaddr THEN units ELSE size[x]]
      BY <1>6 DEF acquire_more_heap
    <3>2. PICK v, k : v = page * PageUnits /\ k = PageFrames * PageUnits
      OBVIOUS
    <3>3. v \in Nat /\ k \in Nat \ {0}
      <4>1. k \in Nat \ {0}  BY <3>2, PageFramesPositive DEF TypeOK
      <4>2. page \in Nat  BY KmallocAssumption
      <4>. QED  BY <3>2, <4>1, <4>2, KmallocAssumption
    <3>4. v \notin arena
      <4>1. v \in v .. (v + k - 1)  BY <3>3
      <4>2. v .. (v + k - 1) \cap arena = {}  BY <3>1, <3>2
      <4>. QED  BY <4>1, <4>2
    <3>5. ASSUME NEW c \in DOMAIN held PROVE size'[c] = size[c]
      <4>1. c \in Blocks /\ c \in Nat /\ size[c] \in Nat \ {0}
        BY HeaderTypes DEF Owned, Started, Disjoint, Blocks
      <4>2. c \in arena  BY <4>1 DEF Covered, In
      <4>. QED  BY <3>1, <3>2, <3>4, <4>1, <4>2, HeaderTypes
    <3>6. held' = held  BY <1>6 DEF acquire_more_heap
    <3>. QED  BY <3>5, <3>6 DEF HeldBlocks
  <2>. QED  BY <2>1, <2>2 DEF AbstractHeap!Next, AbstractHeap!Grow
<1>7. ASSUME kfree_join PROVE UNCHANGED AbstractHeap!vars
  <2>1. UNCHANGED <<arena, held>> /\ pc = "walk" /\ Between
    BY <1>7 DEF kfree_join
  <2>2. Place(p, bp, next[p])  BY <2>1, PlaceFound
  <2>3. ASSUME NEW c \in DOMAIN held PROVE size'[c] = size[c]
    <3>1. c \in DOMAIN size /\ c \notin {p, bp, next[p]}
      BY <2>1, <2>2, HeaderTypes DEF Place, Owned, Limbo
    <3>. QED  BY <1>7, <3>1 DEF kfree_join
  <2>. QED  BY <2>1, <2>3 DEF AbstractHeap!vars, HeldBlocks
<1>8. ASSUME UNCHANGED vars PROVE UNCHANGED AbstractHeap!vars
  BY <1>1, <1>8 DEF vars, list
<1>9. ASSUME kmalloc_wrapped \/ kmalloc_advance \/ acquire_more_heap_fails \/ kfree_walk
      PROVE  UNCHANGED AbstractHeap!vars
  BY <1>1, <1>9 DEF kmalloc_wrapped, kmalloc_advance, acquire_more_heap_fails, kfree_walk,
                    list
<1>. QED
  BY <1>2, <1>3, <1>4, <1>5, <1>6, <1>7, <1>8, <1>9 DEF Next, Step, kmalloc_zero

\* The free list implements the abstract heap: blocks are handed out where
\* nobody holds anything, and nothing moves or resizes a block that is held.
THEOREM ImplementsHeap == Spec => HeapSpec
  BY InvHolds, InitHeap, NextHeap, PTL DEF Spec, HeapSpec, AbstractHeap!Spec
=============================================================================
