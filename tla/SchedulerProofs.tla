-------------------------- MODULE SchedulerProofs --------------------------
(***************************************************************************)
(* Proofs about the scheduler's list, for every number of elements.        *)
(***************************************************************************)
EXTENDS Scheduler, FiniteSetTheorems, SequenceTheorems, WellFoundedInduction,
        NaturalsInduction, TLAPS

-----------------------------------------------------------------------------
(***************************************************************************)
(* The inductive invariant.                                                *)
(***************************************************************************)

Size == Cardinality(DOMAIN next)

\* The next pointers lead from start through every element, once, to end.
Ordered ==
  /\ Walk \in [1 .. Size -> DOMAIN next]
  /\ \A j, k \in 1 .. Size : Walk[j] = Walk[k] => j = k
  /\ \A e \in DOMAIN next : \E k \in 1 .. Size : Walk[k] = e
  /\ \A k \in 1 .. (Size - 1) : next[Walk[k]] = Walk[k + 1]
  /\ Size > 0 => Walk[1] = start /\ Walk[Size] = end /\ next[end] = NULL

\* No pid is higher than the number of elements allows, and the one that is
\* about to be added is above all of them.
PidsBelow ==
  /\ \A e \in DOMAIN next : ps[e] \in 0 .. Size
  /\ created <= Size + 1
  /\ created > 0 => \A e \in DOMAIN next : ps[e] < created
  /\ \A d, e \in DOMAIN next : d # e /\ ps[d] # NULL => ps[d] # ps[e]

\* The element at place k of the list has been passed over at most once for
\* every place behind it, and the head not at all, unless it cannot run.
Turns ==
  /\ \A k \in 2 .. Size : skipped[Walk[k]] <= Size - k + 1
  /\ Size > 0 => skipped[start] <= Size - 1
  /\ HeadRunnable => skipped[start] = 0

Inv ==
  /\ TypeOK
  /\ Ordered
  /\ PidsBelow
  /\ Turns

-----------------------------------------------------------------------------
(***************************************************************************)
(* What the recursive walk along the list and the search for a pid         *)
(* compute.                                                                *)
(***************************************************************************)

\* A nonempty set of natural numbers has a smallest element.
LEMMA Smallest ==
  ASSUME NEW T \in SUBSET Nat, T # {}
  PROVE  \E x \in T : \A y \in T : x <= y
<1>1. IsWellFoundedOn(OpToRel(<, Nat), Nat)
  BY NatLessThanWellFounded
<1>2. PICK x \in T : \A y \in T : ~ (<<y, x>> \in OpToRel(<, Nat))
  BY <1>1, WFMin
<1>3. \A y \in T : ~ (y < x)
  BY <1>2 DEF OpToRel
<1>. QED  BY <1>3

\* Max0 is an upper bound, and one that the set contains.
LEMMA Max0Bound ==
  ASSUME NEW n \in Nat, NEW T \in SUBSET (0 .. n)
  PROVE  /\ Max0(T) \in 0 .. n
         /\ \A y \in T : y <= Max0(T)
<1>1. CASE T = {}  BY <1>1 DEF Max0
<1>2. CASE T # {}
  <2>. DEFINE U == {m \in Nat : \A y \in T : y <= m}
  <2>1. n \in U /\ U \in SUBSET Nat  OBVIOUS
  <2>2. PICK m \in U : \A k \in U : m <= k
    <3>. HIDE DEF U
    <3>. QED  BY <2>1, Smallest
  <2>3. m \in T
    <3>1. SUFFICES ASSUME m \notin T PROVE FALSE  OBVIOUS
    <3>2. PICK y \in T : y \in Nat /\ y <= m
      <4>1. \A y \in T : y \in Nat /\ y <= m  BY <2>2
      <4>. QED  BY <4>1, <1>2
    <3>3. m - 1 \in Nat /\ \A z \in T : z <= m - 1
      <4>1. \A z \in T : z \in Nat /\ z <= m /\ z # m  BY <2>2, <3>1
      <4>. QED  BY <3>2, <4>1
    <3>4. m - 1 \in U  BY <3>3
    <3>. QED  BY <3>3, <3>4, <2>2
  <2>4. \E x \in T : \A y \in T : y <= x  BY <2>2, <2>3
  <2>. QED  BY <1>2, <2>4 DEF Max0
<1>. QED  BY <1>1, <1>2

\* A sequence of elements that starts at st and follows the links nx is the
\* walk along them.
LEMMA WalkUnique ==
  ASSUME NEW n \in Nat, NEW S, NULL \notin S, NEW st, NEW nx,
         NEW w \in [1 .. n -> S],
         n > 0 => w[1] = st,
         \A k \in 1 .. (n - 1) : nx[w[k]] = w[k + 1]
  PROVE  (CHOOSE f : f = [k \in 1 .. n |->
                            IF k = 1 THEN st
                            ELSE IF f[k - 1] = NULL THEN NULL ELSE nx[f[k - 1]]])
         = w
<1>. DEFINE E(f) == f = [k \in 1 .. n |->
                           IF k = 1 THEN st
                           ELSE IF f[k - 1] = NULL THEN NULL ELSE nx[f[k - 1]]]
<1>1. E(w)
  <2>1. ASSUME NEW k \in 1 .. n
        PROVE  w[k] = IF k = 1 THEN st
                      ELSE IF w[k - 1] = NULL THEN NULL ELSE nx[w[k - 1]]
    <3>1. CASE k = 1  BY <3>1
    <3>2. CASE k # 1
      <4>1. k - 1 \in 1 .. (n - 1) /\ k - 1 \in 1 .. n /\ (k - 1) + 1 = k  BY <3>2
      <4>2. nx[w[k - 1]] = w[k] /\ w[k - 1] # NULL  BY <4>1
      <4>. QED  BY <3>2, <4>2
    <3>. QED  BY <3>1, <3>2
  <2>. QED  BY <2>1
<1>2. ASSUME NEW f, E(f) PROVE f = w
  <2>1. DOMAIN f = 1 .. n /\ f = [k \in 1 .. n |-> f[k]]  BY <1>2
  <2>. DEFINE T == {k \in 1 .. n : f[k] # w[k]}
  <2>2. SUFFICES ASSUME T # {} PROVE FALSE
    BY <2>1
  <2>3. PICK k \in T : \A j \in T : k <= j
    <3>1. T \in SUBSET Nat  OBVIOUS
    <3>. HIDE DEF T
    <3>. QED  BY <2>2, <3>1, Smallest
  <2>4. k # 1
    <3>1. CASE k = 1
      <4>1. f[1] = st  BY <1>2, <2>3, <3>1
      <4>. QED  BY <2>3, <3>1, <4>1
    <3>. QED  BY <3>1
  <2>5. k - 1 \in 1 .. (n - 1) /\ k - 1 \in 1 .. n /\ (k - 1) + 1 = k  BY <2>3, <2>4
  <2>6. f[k - 1] = w[k - 1]
    <3>1. k - 1 \notin T
      <4>. HIDE DEF T
      <4>1. k \in Nat  BY <2>3 DEF T
      <4>. QED  BY <4>1, <2>3
    <3>. QED  BY <3>1, <2>5
  <2>7. f[k] = nx[w[k - 1]]  BY <1>2, <2>3, <2>4, <2>5, <2>6
  <2>. QED  BY <2>3, <2>5, <2>7
<1>. HIDE DEF E
<1>3. (CHOOSE f : E(f)) = w
  <2>1. E(CHOOSE f : E(f))  BY <1>1
  <2>. QED  BY <1>2, <2>1
<1>. QED  BY <1>3 DEF E

\* The same for the links and the start of the list.
LEMMA WalkIs ==
  ASSUME NEW w \in [1 .. Size -> DOMAIN next], NULL \notin DOMAIN next,
         Size \in Nat,
         Size > 0 => w[1] = start,
         \A k \in 1 .. (Size - 1) : next[w[k]] = w[k + 1]
  PROVE  Walk = w
BY WalkUnique DEF Walk, Size

\* The types of the list, pointwise.
LEMMA ListTypes ==
  ASSUME TypeOK
  PROVE  /\ Size \in Nat /\ IsFiniteSet(DOMAIN next)
         /\ Size <= Cardinality(Elements) /\ Cardinality(Elements) \in Nat
         /\ DOMAIN next \subseteq Nat \ {0} /\ NULL \notin DOMAIN next
         /\ DOMAIN ps = DOMAIN next /\ DOMAIN skipped = DOMAIN next
         /\ Size = 0 <=> DOMAIN next = {}
         /\ created \in Int
         /\ \A e \in DOMAIN next : skipped[e] \in Nat
<1>1. /\ IsFiniteSet(DOMAIN next) /\ Size \in Nat /\ Size <= Cardinality(Elements)
      /\ Cardinality(Elements) \in Nat
  BY SchedulerAssumption, FS_Subset, FS_CardinalityType DEF TypeOK, Size
<1>2. Size = 0 <=> DOMAIN next = {}
  BY <1>1, FS_EmptySet DEF Size
<1>3. created \in Int  BY <1>1 DEF TypeOK, Pids, None, NULL
<1>4. \A e \in DOMAIN next : skipped[e] \in Nat  BY SchedulerAssumption DEF TypeOK
<1>. QED  BY <1>1, <1>2, <1>3, <1>4, SchedulerAssumption DEF TypeOK, NULL

-----------------------------------------------------------------------------
(***************************************************************************)
(* The invariant is inductive: one lemma for each action.                  *)
(***************************************************************************)

\* The empty list.
LEMMA InitInv == Init => Inv
<1>. SUFFICES ASSUME Init PROVE Inv
  OBVIOUS
<1>1. DOMAIN next = {} /\ DOMAIN ps = {} /\ DOMAIN skipped = {}  BY DEF Init
<1>2. Size = 0  BY <1>1, FS_EmptySet DEF Size
<1>3. TypeOK  BY <1>1 DEF Init, TypeOK, NULL, None
<1>4. Ordered
  <2>1. PICK w : w = [k \in 1 .. 0 |-> NULL]  OBVIOUS
  <2>2. w \in [1 .. Size -> DOMAIN next]  BY <2>1, <1>2
  <2>3. /\ Size \in Nat /\ ~ (Size > 0) /\ NULL \notin DOMAIN next
        /\ \A k \in 1 .. (Size - 1) : next[w[k]] = w[k + 1]
    BY <1>1, <1>2
  <2>4. Walk = w  BY <2>2, <2>3, WalkIs
  <2>. QED  BY <1>1, <1>2, <2>2, <2>4 DEF Ordered
<1>5. PidsBelow /\ Turns
  BY <1>1, <1>2 DEF Init, PidsBelow, Turns, HeadRunnable, None, NULL
<1>. QED  BY <1>3, <1>4, <1>5 DEF Inv

\* A step that leaves the list alone leaves its order alone.
LEMMA SameList ==
  ASSUME Inv, UNCHANGED <<list, skipped>>
  PROVE  (Ordered /\ Turns)'
BY DEF Inv, list, Ordered, Turns, Size, Walk, HeadRunnable

\* scheduler_next_pid sees every process, so the pid is above all of theirs.
LEMMA CreateInv ==
  ASSUME Inv, NEW ok \in BOOLEAN, process_create(ok)
  PROVE  Inv'
<1>. USE DEF Inv
<1>1. /\ UNCHANGED <<start, end, next, ps, running, skipped>>
      /\ created' = IF ok THEN scheduler_next_pid ELSE NULL
  BY DEF process_create, list
<1>2. Size' = Size  BY <1>1 DEF Size
<1>3. PICK T : T = {ps[e] : e \in DOMAIN ps} \ {NULL}  OBVIOUS
<1>4. T \in SUBSET (0 .. Size)
  BY <1>3, ListTypes DEF PidsBelow
<1>5. /\ scheduler_next_pid \in 1 .. (Size + 1)
      /\ \A e \in DOMAIN next : ps[e] < scheduler_next_pid
  <2>1. /\ Max0(T) \in 0 .. Size
        /\ \A y \in T : y <= Max0(T)
    BY <1>4, Max0Bound, ListTypes
  <2>2. scheduler_next_pid = Max0(T) + 1  BY <1>3 DEF scheduler_next_pid
  <2>3. ASSUME NEW e \in DOMAIN next PROVE ps[e] <= Max0(T)
    <3>1. CASE ps[e] = NULL  BY <3>1, <2>1, ListTypes DEF NULL
    <3>2. CASE ps[e] # NULL
      <4>1. ps[e] \in T  BY <3>2, <1>3, ListTypes
      <4>. QED  BY <4>1, <2>1
    <3>. QED  BY <3>1, <3>2
  <2>. QED  BY <2>1, <2>2, <2>3, ListTypes DEF PidsBelow
<1>6. PidsBelow'
  <2>1. created' \in 0 .. (Size + 1)
    BY <1>1, <1>5, ListTypes DEF NULL
  <2>2. created' > 0 => \A e \in DOMAIN next : ps[e] < created'
    BY <1>1, <1>5 DEF NULL
  <2>. QED  BY <2>1, <2>2, <1>1, <1>2, ListTypes DEF PidsBelow
<1>7. TypeOK'
  <2>1. created' \in {NULL} \cup Pids
    BY <1>1, <1>5, ListTypes DEF Pids
  <2>. QED  BY <1>1, <2>1 DEF TypeOK
<1>8. (Ordered /\ Turns)'
  BY <1>1, SameList DEF list
<1>. QED  BY <1>6, <1>7, <1>8

\* Without an element the list stays as it was.
LEMMA AddFailsInv ==
  ASSUME Inv, scheduler_add_process_fails
  PROVE  Inv'
<1>. USE DEF Inv
<1>1. /\ UNCHANGED <<start, end, next, ps, running, skipped>> /\ created' = None
  BY DEF scheduler_add_process_fails, list
<1>2. (Ordered /\ Turns)'
  BY <1>1, SameList DEF list
<1>3. PidsBelow'  BY <1>1, ListTypes DEF PidsBelow, Size, None
<1>4. TypeOK'  BY <1>1 DEF TypeOK
<1>. QED  BY <1>2, <1>3, <1>4

\* The new element goes behind the last one.
LEMMA AddInv ==
  ASSUME Inv, NEW e \in Elements \ DOMAIN next, scheduler_add_process(e)
  PROVE  /\ Inv'
         /\ Size' = Size + 1
         /\ Walk' = [k \in 1 .. (Size + 1) |-> IF k = Size + 1 THEN e ELSE Walk[k]]
<1>. USE DEF Inv
<1>1. /\ created # None /\ created' = None /\ UNCHANGED running
      /\ next' = [x \in DOMAIN next \cup {e} |->
                    CASE x = e -> NULL
                      [] x # e /\ x = end -> e
                      [] OTHER -> next[x]]
      /\ ps' = [x \in DOMAIN ps \cup {e} |-> IF x = e THEN created ELSE ps[x]]
      /\ start' = IF start = NULL THEN e ELSE start
      /\ end' = e
      /\ skipped' = [x \in DOMAIN skipped \cup {e} |-> IF x = e THEN 0 ELSE skipped[x]]
  BY DEF scheduler_add_process, AddDone
<1>2. DOMAIN next' = DOMAIN next \cup {e} /\ e \in Nat \ {0}
  BY <1>1, SchedulerAssumption
<1>3. Size' = Size + 1 /\ Size \in Nat
  BY <1>2, FS_AddElement, ListTypes DEF Size
<1>4. /\ next'[e] = NULL
      /\ \A x \in DOMAIN next : next'[x] = IF x = end THEN e ELSE next[x]
  BY <1>1
<1>5. /\ ps'[e] = created /\ skipped'[e] = 0
      /\ \A x \in DOMAIN next : ps'[x] = ps[x] /\ skipped'[x] = skipped[x]
  BY <1>1, ListTypes
<1>6. created \in 0 .. (Size + 1) /\ created \in {NULL} \cup Pids
  <2>1. created \in {NULL} \cup Pids  BY <1>1 DEF TypeOK
  <2>2. created \in Nat  BY <2>1, ListTypes DEF NULL, Pids
  <2>. QED  BY <2>1, <2>2, <1>3 DEF PidsBelow
<1>7. TypeOK'
  <2>1. next' \in [DOMAIN next' -> {NULL} \cup DOMAIN next']
    BY <1>1, <1>2 DEF TypeOK
  <2>2. ps' \in [DOMAIN next' -> {NULL} \cup Pids]
    BY <1>1, <1>2, <1>6, ListTypes DEF TypeOK
  <2>3. skipped' \in [DOMAIN next' -> 0 .. MaxSwitches]
    BY <1>1, <1>2, SchedulerAssumption, ListTypes DEF TypeOK
  <2>4. start' \in DOMAIN next' /\ end' \in DOMAIN next' /\ DOMAIN next' # {}
        /\ DOMAIN next' \subseteq Elements
    BY <1>1, <1>2 DEF TypeOK
  <2>. QED  BY <1>1, <2>1, <2>2, <2>3, <2>4 DEF TypeOK
<1>8. PICK w : w = [k \in 1 .. (Size + 1) |-> IF k = Size + 1 THEN e ELSE Walk[k]]
  OBVIOUS
<1>9. /\ w[Size + 1] = e
      /\ \A k \in 1 .. Size : w[k] = Walk[k] /\ Walk[k] \in DOMAIN next /\ w[k] # e
  BY <1>3, <1>8 DEF Ordered
<1>10. w \in [1 .. Size' -> DOMAIN next']
  <2>1. \A k \in 1 .. (Size + 1) : w[k] \in DOMAIN next \cup {e}
    <3>1. \A k \in 1 .. (Size + 1) : k = Size + 1 \/ k \in 1 .. Size  BY <1>3
    <3>. QED  BY <3>1, <1>9
  <2>. QED  BY <2>1, <1>2, <1>3, <1>8
<1>11. w[1] = start'
  <2>1. CASE Size = 0  BY <2>1, <1>1, <1>9, ListTypes DEF TypeOK
  <2>2. CASE Size > 0
    <3>1. start = Walk[1] /\ start # NULL  BY <2>2, ListTypes DEF Ordered, TypeOK
    <3>. QED  BY <2>2, <3>1, <1>1, <1>3, <1>9
  <2>. QED  BY <2>1, <2>2, <1>3
<1>12. ASSUME NEW k \in 1 .. Size PROVE next'[w[k]] = w[k + 1]
  <2>1. CASE k = Size
    BY <2>1, <1>3, <1>4, <1>9 DEF Ordered
  <2>2. CASE k # Size
    <3>1. k \in 1 .. (Size - 1) /\ k + 1 \in 1 .. Size /\ Size \in 1 .. Size  BY <2>2, <1>3
    <3>2. Walk[k] # end  BY <2>2, <3>1 DEF Ordered
    <3>3. next[Walk[k]] = Walk[k + 1]  BY <3>1 DEF Ordered
    <3>. QED  BY <3>1, <3>2, <3>3, <1>4, <1>9
  <2>. QED  BY <2>1, <2>2
<1>13. Walk' = w
  <2>1. NULL \notin DOMAIN next'  BY <1>2, ListTypes DEF NULL
  <2>2. \A k \in 1 .. (Size' - 1) : next'[w[k]] = w[k + 1]  BY <1>3, <1>12
  <2>. QED  BY <2>1, <2>2, <1>3, <1>10, <1>11, WalkUnique DEF Walk, Size
<1>14. Ordered'
  <2>1. \A j, k \in 1 .. Size' : w[j] = w[k] => j = k
    BY <1>3, <1>9 DEF Ordered
  <2>2. \A x \in DOMAIN next' : \E k \in 1 .. Size' : w[k] = x
    <3>1. ASSUME NEW x \in DOMAIN next PROVE \E k \in 1 .. Size' : w[k] = x
      <4>1. PICK k \in 1 .. Size : Walk[k] = x  BY DEF Ordered
      <4>. QED  BY <4>1, <1>3, <1>9
    <3>. QED  BY <3>1, <1>2, <1>3, <1>9
  <2>3. \A k \in 1 .. (Size' - 1) : next'[w[k]] = w[k + 1]  BY <1>3, <1>12
  <2>4. w[Size'] = end' /\ next'[end'] = NULL  BY <1>1, <1>3, <1>4, <1>9
  <2>. QED  BY <2>1, <2>2, <2>3, <2>4, <1>10, <1>11, <1>13 DEF Ordered
<1>15. PidsBelow'
  <2>1. \A x \in DOMAIN next' : ps'[x] \in 0 .. Size'
    BY <1>2, <1>3, <1>5, <1>6 DEF PidsBelow
  <2>2. created' <= Size' + 1 /\ ~ (created' > 0)  BY <1>1, <1>3 DEF None
  <2>3. \A c, d \in DOMAIN next' : c # d /\ ps'[c] # NULL => ps'[c] # ps'[d]
    <3>1. created # NULL => \A x \in DOMAIN next : ps[x] # created
      BY <1>3, <1>6 DEF PidsBelow, NULL
    <3>. QED  BY <3>1, <1>2, <1>5 DEF PidsBelow
  <2>. QED  BY <2>1, <2>2, <2>3 DEF PidsBelow
<1>16. Turns'
  <2>1. ASSUME NEW k \in 2 .. Size' PROVE skipped'[Walk'[k]] <= Size' - k + 1
    <3>1. CASE k = Size + 1  BY <3>1, <1>3, <1>5, <1>9, <1>13
    <3>2. CASE k # Size + 1
      <4>1. k \in 2 .. Size /\ k \in 1 .. Size  BY <3>2, <1>3
      <4>2. skipped'[Walk'[k]] = skipped[Walk[k]] /\ skipped[Walk[k]] \in Nat
        BY <4>1, <1>5, <1>9, <1>13, ListTypes
      <4>. QED  BY <4>1, <4>2, <1>3 DEF Turns
    <3>. QED  BY <3>1, <3>2
  <2>2. skipped'[start'] <= Size' - 1 /\ (HeadRunnable' => skipped'[start'] = 0)
    <3>1. CASE start = NULL
      BY <3>1, <1>1, <1>3, <1>5
    <3>2. CASE start # NULL
      <4>1. start \in DOMAIN next /\ Size > 0 /\ start' = start
        BY <3>2, <1>1, ListTypes DEF TypeOK
      <4>2. HeadRunnable' => HeadRunnable
        BY <3>2, <4>1, <1>5 DEF HeadRunnable
      <4>. QED  BY <4>1, <4>2, <1>3, <1>5, ListTypes DEF Turns
    <3>. QED  BY <3>1, <3>2
  <2>. QED  BY <2>1, <2>2 DEF Turns
<1>. QED  BY <1>3, <1>7, <1>8, <1>13, <1>14, <1>15, <1>16

\* The head moves behind the last element.
LEMMA RotateEffect ==
  ASSUME Inv, HeadRunnable, Rotate
  PROVE  /\ Size' = Size /\ Size \in Nat \ {0}
         /\ DOMAIN next' = DOMAIN next /\ ps' = ps
         /\ Walk' = [k \in 1 .. Size |-> IF k = Size THEN Walk[1] ELSE Walk[k + 1]]
         /\ Ordered'
         /\ start' \in DOMAIN next /\ end' \in DOMAIN next
         /\ next' \in [DOMAIN next -> {NULL} \cup DOMAIN next]
<1>. USE DEF Inv
<1>1. start # NULL /\ start \in DOMAIN next /\ end \in DOMAIN next /\ Size \in Nat \ {0}
  BY ListTypes DEF HeadRunnable, TypeOK
<1>2. /\ Walk \in [1 .. Size -> DOMAIN next]
      /\ \A j, k \in 1 .. Size : Walk[j] = Walk[k] => j = k
      /\ \A e \in DOMAIN next : \E k \in 1 .. Size : Walk[k] = e
      /\ \A k \in 1 .. (Size - 1) : next[Walk[k]] = Walk[k + 1]
      /\ Walk[1] = start /\ Walk[Size] = end /\ next[end] = NULL
  BY <1>1 DEF Ordered
<1>3. PICK w : w = [k \in 1 .. Size |-> IF k = Size THEN Walk[1] ELSE Walk[k + 1]]
  OBVIOUS
<1>4. CASE Size = 1
  <2>1. UNCHANGED list  BY <1>2, <1>4 DEF Rotate
  <2>2. UNCHANGED <<start, end, next, ps>>  BY <2>1 DEF list
  <2>3. Size' = Size /\ Walk' = Walk  BY <2>2 DEF Size, Walk
  <2>4. Ordered'  BY <2>2, <2>3 DEF Ordered
  <2>5. Walk = w  BY <1>2, <1>3, <1>4
  <2>. QED  BY <2>2, <2>3, <2>4, <2>5, <1>1, <1>3 DEF TypeOK
<1>5. CASE Size > 1
  <2>1. 1 \in 1 .. (Size - 1) /\ 1 \in 1 .. Size /\ 2 \in 1 .. Size /\ Size \in 1 .. Size
    BY <1>1, <1>5
  <2>2. next[start] = Walk[2] /\ next[start] \in DOMAIN next /\ next[start] # NULL
    BY <2>1, <1>2, ListTypes
  <2>3. start # end  BY <2>1, <1>2, <1>5
  <2>4. /\ start' = next[start] /\ end' = start /\ ps' = ps
        /\ next' = [next EXCEPT ![start] = NULL, ![end] = start]
    BY <2>2 DEF Rotate
  <2>5. /\ DOMAIN next' = DOMAIN next
        /\ next'[start] = NULL /\ next'[end] = start
        /\ \A x \in DOMAIN next \ {start, end} : next'[x] = next[x]
    BY <2>3, <2>4, <1>1 DEF TypeOK
  <2>6. next' \in [DOMAIN next -> {NULL} \cup DOMAIN next]
    BY <2>4, <1>1 DEF TypeOK
  <2>7. Size' = Size  BY <2>5 DEF Size
  <2>8. /\ w[Size] = start
        /\ \A k \in 1 .. (Size - 1) : w[k] = Walk[k + 1]
    BY <1>1, <1>2, <1>3
  <2>9. w \in [1 .. Size -> DOMAIN next]
    <3>1. \A k \in 1 .. (Size - 1) : k + 1 \in 1 .. Size  BY <1>1
    <3>2. \A k \in 1 .. Size : k = Size \/ k \in 1 .. (Size - 1)  BY <1>1
    <3>3. \A k \in 1 .. Size : w[k] \in DOMAIN next
      BY <2>8, <3>1, <3>2, <1>1, <1>2
    <3>. QED  BY <3>3, <1>3
  <2>10. w[1] = start'  BY <2>1, <2>2, <2>4, <2>8
  <2>11. ASSUME NEW k \in 1 .. (Size - 1) PROVE next'[w[k]] = w[k + 1]
    <3>1. k + 1 \in 1 .. Size /\ w[k] = Walk[k + 1] /\ Walk[k + 1] \in DOMAIN next
      BY <2>8, <1>1, <1>2
    <3>2. CASE k + 1 = Size
      BY <3>1, <3>2, <2>5, <2>8, <1>2
    <3>3. CASE k + 1 # Size
      <4>1. k + 1 \in 1 .. (Size - 1)  BY <3>1, <3>3, <1>1
      <4>2. k + 1 # 1  BY <1>1
      <4>3. Walk[k + 1] # start /\ Walk[k + 1] # end
        BY <2>1, <3>1, <3>3, <4>2, <1>2
      <4>4. next[Walk[k + 1]] = Walk[(k + 1) + 1]  BY <4>1, <1>2
      <4>. QED  BY <3>1, <4>1, <4>3, <4>4, <2>5, <2>8
    <3>. QED  BY <3>2, <3>3
  <2>12. Walk' = w
    BY <2>5, <2>7, <2>9, <2>10, <2>11, <1>1, ListTypes, WalkUnique DEF Walk, Size
  <2>13. Ordered'
    <3>1. \A j, k \in 1 .. Size : w[j] = w[k] => j = k
      <4>1. SUFFICES ASSUME NEW j \in 1 .. Size, NEW k \in 1 .. Size, w[j] = w[k]
                     PROVE  j = k
        OBVIOUS
      <4>2. ASSUME NEW i \in 1 .. (Size - 1) PROVE w[i] # start
        <5>1. i + 1 \in 1 .. Size /\ i + 1 # 1  BY <1>1
        <5>. QED  BY <5>1, <2>1, <2>8, <1>2
      <4>3. \A i \in 1 .. Size : i = Size \/ i \in 1 .. (Size - 1)  BY <1>1
      <4>4. CASE j \in 1 .. (Size - 1) /\ k \in 1 .. (Size - 1)
        <5>1. j + 1 \in 1 .. Size /\ k + 1 \in 1 .. Size  BY <4>4, <1>1
        <5>2. j + 1 = k + 1  BY <4>1, <4>4, <5>1, <2>8, <1>2
        <5>. QED  BY <5>2, <1>1
      <4>. QED  BY <4>1, <4>2, <4>3, <4>4, <2>8
    <3>2. ASSUME NEW x \in DOMAIN next PROVE \E k \in 1 .. Size : w[k] = x
      <4>1. PICK k \in 1 .. Size : Walk[k] = x  BY <1>2
      <4>2. CASE k = 1  BY <4>1, <4>2, <2>1, <2>8, <1>2
      <4>3. CASE k # 1
        <5>1. k - 1 \in 1 .. (Size - 1) /\ k - 1 \in 1 .. Size /\ (k - 1) + 1 = k
          BY <4>3, <1>1
        <5>. QED  BY <4>1, <5>1, <2>8
      <4>. QED  BY <4>2, <4>3
    <3>3. w[Size] = end' /\ next'[end'] = NULL  BY <2>4, <2>5, <2>8
    <3>. QED  BY <3>1, <3>2, <3>3, <2>5, <2>7, <2>9, <2>10, <2>11, <2>12 DEF Ordered
  <2>14. start' \in DOMAIN next /\ end' \in DOMAIN next  BY <2>2, <2>4, <1>1
  <2>. QED  BY <2>4, <2>5, <2>6, <2>7, <2>12, <2>13, <2>14, <1>1, <1>3
<1>. QED  BY <1>1, <1>4, <1>5

\* The head gives its turn to the next element, which has waited longest.
LEMMA ScheduleInv ==
  ASSUME Inv, schedule
  PROVE  Inv'
<1>. USE DEF Inv
<1>1. HeadRunnable /\ Rotate /\ UNCHANGED created  BY DEF schedule
<1>2. PICK n : n = Size  OBVIOUS
<1>3. PICK w : w = Walk  OBVIOUS
<1>4. /\ Size' = n /\ n \in Nat \ {0}
      /\ DOMAIN next' = DOMAIN next /\ ps' = ps
      /\ Walk' = [k \in 1 .. n |-> IF k = n THEN w[1] ELSE w[k + 1]]
      /\ Ordered'
      /\ start' \in DOMAIN next /\ end' \in DOMAIN next
      /\ next' \in [DOMAIN next -> {NULL} \cup DOMAIN next]
  BY <1>1, <1>2, <1>3, RotateEffect
<1>5. /\ Walk'[n] = w[1]
      /\ \A k \in 1 .. (n - 1) : Walk'[k] = w[k + 1]
      /\ Walk'[1] = start' /\ w[1] = start /\ start \in DOMAIN next
      /\ \A k \in 1 .. n : w[k] \in DOMAIN next /\ Walk'[k] \in DOMAIN next
      /\ \A j, k \in 1 .. n : Walk'[j] = Walk'[k] => j = k
  <2>1. Walk'[1] = start' /\ w[1] = start  BY <1>2, <1>3, <1>4 DEF Ordered
  <2>2. \A k \in 1 .. n : w[k] \in DOMAIN next /\ Walk'[k] \in DOMAIN next
    BY <1>2, <1>3, <1>4 DEF Ordered
  <2>3. \A j, k \in 1 .. n : Walk'[j] = Walk'[k] => j = k  BY <1>4 DEF Ordered
  <2>4. Walk'[n] = w[1] /\ \A k \in 1 .. (n - 1) : Walk'[k] = w[k + 1]  BY <1>4
  <2>. QED  BY <2>1, <2>2, <2>3, <2>4, <1>4
<1>6. \/ /\ ps[start'] = NULL /\ UNCHANGED <<running, skipped>>
      \/ /\ ps[start'] # NULL /\ running' = ps[start']
         /\ \A e \in DOMAIN skipped : skipped[e] < MaxSwitches
         /\ skipped' = [e \in DOMAIN skipped |->
                          IF e = start' THEN 0 ELSE skipped[e] + 1]
  BY <1>4 DEF schedule
<1>7. TypeOK'
  <2>1. running' \in {NULL} \cup Pids  BY <1>4, <1>6 DEF TypeOK
  <2>2. skipped' \in [DOMAIN next' -> 0 .. MaxSwitches]
    <3>1. skipped \in [DOMAIN next -> 0 .. MaxSwitches] /\ DOMAIN next' = DOMAIN next
      BY <1>4 DEF TypeOK
    <3>. QED  BY <3>1, <1>6, SchedulerAssumption
  <2>. QED  BY <2>1, <2>2, <1>1, <1>4 DEF TypeOK
<1>8. PidsBelow'
  BY <1>1, <1>2, <1>4 DEF PidsBelow
<1>9. skipped[start] = 0  BY <1>1 DEF Turns
<1>10. Turns'
  <2>1. CASE ps[start'] = NULL
    <3>1. skipped' = skipped /\ ~ HeadRunnable'
      BY <2>1, <1>4, <1>6 DEF HeadRunnable
    <3>2. ASSUME NEW k \in 1 .. (n - 1) PROVE skipped[Walk'[k]] <= n - k
      <4>1. k + 1 \in 2 .. n /\ k + 1 \in 1 .. n  BY <1>4
      <4>2. skipped[w[k + 1]] <= n - (k + 1) + 1  BY <4>1, <1>2, <1>3 DEF Turns
      <4>3. skipped[w[k + 1]] \in Nat  BY <4>1, <1>5, ListTypes
      <4>. QED  BY <4>2, <4>3, <1>4, <1>5
    <3>3. \A k \in 1 .. n : skipped[Walk'[k]] \in Nat  BY <1>5, ListTypes
    <3>4. \A k \in 2 .. n : skipped[Walk'[k]] <= n - k + 1
      <4>1. SUFFICES ASSUME NEW k \in 2 .. n PROVE skipped[Walk'[k]] <= n - k + 1
        OBVIOUS
      <4>2. CASE k = n  BY <4>2, <1>4, <1>5, <1>9
      <4>3. CASE k # n
        <5>1. k \in 1 .. (n - 1) /\ k \in 1 .. n  BY <4>3, <1>4
        <5>2. skipped[Walk'[k]] <= n - k /\ skipped[Walk'[k]] \in Nat  BY <5>1, <3>2, <3>3
        <5>3. n \in Nat  BY <1>4
        <5>. QED  BY <5>2, <5>3
      <4>. QED  BY <4>2, <4>3
    <3>5. skipped[start'] <= n - 1
      <4>1. CASE n = 1
        <5>1. start' = start  BY <4>1, <1>5
        <5>. QED  BY <4>1, <5>1, <1>9
      <4>2. CASE n # 1
        <5>1. 1 \in 1 .. (n - 1)  BY <4>2, <1>4
        <5>. QED  BY <5>1, <3>2, <1>5
      <4>. QED  BY <4>1, <4>2
    <3>. QED  BY <3>1, <3>4, <3>5, <1>4 DEF Turns
  <2>2. CASE ps[start'] # NULL
    <3>1. /\ skipped'[start'] = 0
          /\ \A e \in DOMAIN next : e # start' => skipped'[e] = skipped[e] + 1
      BY <2>2, <1>4, <1>6, ListTypes
    <3>2. ASSUME NEW k \in 2 .. n PROVE skipped'[Walk'[k]] <= n - k + 1
      <4>1. k \in 1 .. n /\ 1 \in 1 .. n /\ k # 1  BY <1>4
      <4>2. Walk'[k] # start' /\ Walk'[k] \in DOMAIN next  BY <4>1, <1>5
      <4>3. skipped'[Walk'[k]] = skipped[Walk'[k]] + 1  BY <4>2, <3>1
      <4>4. CASE k = n  BY <4>3, <4>4, <1>4, <1>5, <1>9
      <4>5. CASE k # n
        <5>1. k \in 1 .. (n - 1) /\ k + 1 \in 2 .. n /\ k + 1 \in 1 .. n
          BY <4>5, <1>4
        <5>2. skipped[w[k + 1]] <= n - (k + 1) + 1  BY <5>1, <1>2, <1>3 DEF Turns
        <5>3. skipped[w[k + 1]] \in Nat  BY <5>1, <1>5, ListTypes
        <5>. QED  BY <5>1, <5>2, <5>3, <4>3, <1>4, <1>5
      <4>. QED  BY <4>4, <4>5
    <3>3. skipped'[start'] <= n - 1  BY <3>1, <1>4
    <3>4. Size' = n  BY <1>4
    <3>. QED  BY <3>1, <3>2, <3>3, <3>4 DEF Turns
  <2>. QED  BY <2>1, <2>2
<1>. QED  BY <1>4, <1>7, <1>8, <1>10

\* Every call keeps the invariant.
LEMMA NextInv == Inv /\ [Next]_vars => Inv'
<1>. SUFFICES ASSUME Inv, [Next]_vars PROVE Inv'
  OBVIOUS
<1>1. ASSUME UNCHANGED <<list, created, running, skipped>> PROVE Inv'
  <2>1. (Ordered /\ Turns)'  BY <1>1, SameList
  <2>2. (TypeOK /\ PidsBelow)'  BY <1>1 DEF list, Inv, TypeOK, PidsBelow, Size
  <2>. QED  BY <2>1, <2>2 DEF Inv
<1>2. CASE schedule_none  BY <1>1, <1>2 DEF schedule_none
<1>3. CASE UNCHANGED vars  BY <1>1, <1>3 DEF vars
<1>. QED
  BY <1>2, <1>3, CreateInv, AddInv, AddFailsInv, ScheduleInv DEF Next

\* The invariant holds in every state the scheduler can reach.
THEOREM InvHolds == Spec => []Inv
  BY InitInv, NextInv, PTL DEF Spec

\* start and end are on the list, or both NULL, and no link leaves the list.
THEOREM TypeCorrect == Spec => []TypeOK
  BY InvHolds, PTL DEF Inv

\* The next pointers reach every element, once, and end at end.
THEOREM AlwaysOneChain == Spec => []Chain
<1>1. ASSUME Inv PROVE Chain
  <2>. USE <1>1 DEF Inv
  <2>1. DOMAIN Walk = 1 .. Size /\ {Walk[k] : k \in DOMAIN Walk} = DOMAIN next
    <3>1. PICK w : w = Walk  OBVIOUS
    <3>2. /\ w \in [1 .. Size -> DOMAIN next]
          /\ \A e \in DOMAIN next : \E k \in 1 .. Size : w[k] = e
      BY <3>1 DEF Ordered
    <3>3. DOMAIN w = 1 .. Size /\ {w[k] : k \in DOMAIN w} = DOMAIN next  BY <3>2
    <3>. QED  BY <3>1, <3>3
  <2>2. DOMAIN next # {} => Size > 0  BY ListTypes
  <2>. QED  BY <2>1, <2>2 DEF Chain, Ordered, Size
<1>. QED  BY <1>1, InvHolds, PTL

\* No two processes have the same pid.
THEOREM PidsAreUnique == Spec => []PidsUnique
<1>1. ASSUME Inv PROVE PidsUnique
  <2>. USE <1>1 DEF Inv
  <2>1. created > 0 => \A e \in DOMAIN next : ps[e] # created
    BY ListTypes DEF PidsBelow
  <2>. QED  BY <2>1, ListTypes DEF PidsUnique, PidsBelow
<1>. QED  BY <1>1, InvHolds, PTL

\* A process runs again after at most one switch for every other element.
THEOREM NobodyStarves == Spec => []NoStarvation
<1>1. ASSUME Inv PROVE NoStarvation
  <2>. USE <1>1 DEF Inv
  <2>1. SUFFICES ASSUME NEW e \in DOMAIN next PROVE skipped[e] < Size
    BY ListTypes DEF NoStarvation, Size
  <2>2. PICK k \in 1 .. Size : Walk[k] = e  BY DEF Ordered
  <2>3. Size \in Nat \ {0} /\ skipped[e] \in Nat  BY ListTypes
  <2>4. CASE k = 1  BY <2>2, <2>3, <2>4 DEF Ordered, Turns
  <2>5. CASE k # 1
    <3>1. k \in 2 .. Size  BY <2>3, <2>5
    <3>. QED  BY <3>1, <2>2, <2>3 DEF Turns
  <2>. QED  BY <2>4, <2>5
<1>. QED  BY <1>1, InvHolds, PTL

-----------------------------------------------------------------------------
(***************************************************************************)
(* The pointer list implements the abstract queue.                         *)
(***************************************************************************)

\* A function on 1 .. n is a sequence of length n.
LEMMA FunctionIsSeq ==
  ASSUME NEW n \in Nat, NEW S, NEW f \in [1 .. n -> S]
  PROVE  f \in Seq(S) /\ Len(f) = n
<1>1. f \in Seq(S)  BY SeqDef
<1>2. Len(f) \in Nat /\ DOMAIN f = 1 .. Len(f)  BY <1>1, LenProperties
<1>3. 1 .. n = 1 .. Len(f)  BY <1>2
<1>4. n = Len(f)
  <2>1. CASE n < Len(f)
    <3>1. n + 1 \in 1 .. Len(f)  BY <2>1, <1>2
    <3>. QED  BY <3>1, <1>3
  <2>2. CASE Len(f) < n
    <3>1. Len(f) + 1 \in 1 .. n  BY <2>2, <1>2
    <3>. QED  BY <3>1, <1>2, <1>3
  <2>. QED  BY <2>1, <2>2, <1>2
<1>. QED  BY <1>1, <1>4

\* Processes and NULL, what the queue can hold.
Slots == Pids \cup {NULL}

\* The queue has a place for every element.
LEMMA QueueTypes ==
  ASSUME Inv
  PROVE  /\ Queue \in [1 .. Size -> Slots]
         /\ Queue \in Seq(Slots) /\ Len(Queue) = Size
         /\ \A k \in 1 .. Size : Queue[k] = ps[Walk[k]]
<1>. USE DEF Inv
<1>1. \A k \in 1 .. Size : Walk[k] \in DOMAIN next  BY DEF Ordered
<1>2. \A k \in 1 .. Size : ps[Walk[k]] \in Slots  BY <1>1 DEF TypeOK, Slots
<1>3. Queue = [k \in 1 .. Size |-> ps[Walk[k]]]  BY DEF Queue, Size
<1>4. Queue \in [1 .. Size -> Slots]  BY <1>2, <1>3
<1>5. Queue \in Seq(Slots) /\ Len(Queue) = Size
  BY <1>4, FunctionIsSeq, ListTypes
<1>. QED  BY <1>3, <1>4, <1>5

\* The queue is empty before the first process is added.
LEMMA InitQueue == Init => AbstractQueue!Init
<1>. SUFFICES ASSUME Init PROVE AbstractQueue!Init
  OBVIOUS
<1>1. Inv  BY InitInv
<1>2. Size = 0  BY FS_EmptySet DEF Init, Size
<1>3. Queue \in Seq(Slots) /\ Len(Queue) = 0  BY <1>1, <1>2, QueueTypes
<1>4. Queue = <<>>  BY <1>3, EmptySeq
<1>. QED  BY <1>4 DEF Init, AbstractQueue!Init

\* scheduler_add_process appends to the queue.
LEMMA AddStep ==
  ASSUME Inv, NEW e \in Elements \ DOMAIN next, scheduler_add_process(e)
  PROVE  AbstractQueue!Next
<1>1. PICK q, q1, c : q = Queue /\ q1 = Queue' /\ c = created  OBVIOUS
<1>2. /\ Inv' /\ Size' = Size + 1
      /\ Walk' = [k \in 1 .. (Size + 1) |-> IF k = Size + 1 THEN e ELSE Walk[k]]
  BY AddInv
<1>3. /\ created # None /\ UNCHANGED running
      /\ ps' = [x \in DOMAIN ps \cup {e} |-> IF x = e THEN created ELSE ps[x]]
  BY DEF scheduler_add_process, AddDone
<1>4. Size \in Nat /\ DOMAIN ps = DOMAIN next  BY ListTypes DEF Inv
<1>5. c \in Slots  BY <1>1, <1>3 DEF Inv, TypeOK, Slots
<1>6. /\ q \in Seq(Slots) /\ Len(q) = Size
      /\ \A k \in 1 .. Size : q[k] = ps[Walk[k]]
  BY <1>1, QueueTypes
<1>7. q1 = [k \in 1 .. (Size + 1) |-> ps'[Walk'[k]]]
  BY <1>1, <1>2 DEF Queue, Size
<1>8. q1[Size + 1] = c
  BY <1>1, <1>2, <1>3, <1>4, <1>7
<1>9. ASSUME NEW k \in 1 .. Size PROVE q1[k] = q[k]
  <2>1. k \in 1 .. (Size + 1) /\ k # Size + 1  BY <1>4
  <2>2. Walk'[k] = Walk[k]  BY <2>1, <1>2
  <2>3. Walk[k] \in DOMAIN next  BY DEF Inv, Ordered
  <2>4. ps'[Walk[k]] = ps[Walk[k]]  BY <2>3, <1>3, <1>4
  <2>. QED  BY <2>1, <2>2, <2>4, <1>6, <1>7
<1>10. \A k \in 1 .. (Size + 1) : k = Size + 1 \/ k \in 1 .. Size  BY <1>4
<1>11. q1 \in Seq(Slots) /\ Len(q1) = Size + 1
  <2>1. \A k \in 1 .. Size : q[k] \in Slots  BY <1>6, ElementOfSeq
  <2>2. \A k \in 1 .. (Size + 1) : q1[k] \in Slots  BY <2>1, <1>5, <1>8, <1>9, <1>10
  <2>3. q1 \in [1 .. (Size + 1) -> Slots]  BY <2>2, <1>7
  <2>. QED  BY <2>3, <1>4, FunctionIsSeq
<1>12. PICK a : a = Append(q, c)  OBVIOUS
<1>13. /\ a \in Seq(Slots) /\ Len(a) = Size + 1
       /\ \A k \in 1 .. Size : a[k] = q[k]
       /\ a[Size + 1] = c
  BY <1>5, <1>6, <1>12, AppendProperties
<1>14. \A k \in 1 .. Len(q1) : q1[k] = a[k]  BY <1>8, <1>9, <1>10, <1>11, <1>13
<1>15. q1 = a  BY <1>11, <1>13, <1>14, SeqEqual
<1>16. AbstractQueue!Add(c)  BY <1>1, <1>3, <1>12, <1>15 DEF AbstractQueue!Add
<1>. QED  BY <1>5, <1>16 DEF AbstractQueue!Next, Slots

\* scheduler_schedule moves the head of the queue to its end and runs the
\* new head.
LEMMA SwitchStep ==
  ASSUME Inv, schedule
  PROVE  AbstractQueue!Next
<1>1. PICK q, q1, n, w : q = Queue /\ q1 = Queue' /\ n = Size /\ w = Walk  OBVIOUS
<1>2. HeadRunnable /\ Rotate  BY DEF schedule
<1>3. /\ Size' = n /\ n \in Nat \ {0} /\ ps' = ps
      /\ Walk' = [k \in 1 .. n |-> IF k = n THEN w[1] ELSE w[k + 1]]
      /\ Ordered'
  BY <1>1, <1>2, RotateEffect
<1>4. /\ q \in Seq(Slots) /\ Len(q) = n
      /\ \A k \in 1 .. n : q[k] = ps[w[k]]
  BY <1>1, QueueTypes
<1>5. q1 = [k \in 1 .. n |-> ps[Walk'[k]]]
  BY <1>1, <1>3 DEF Queue, Size
<1>6. /\ q1[n] = q[1]
      /\ \A k \in 1 .. (n - 1) : q1[k] = q[k + 1]
  <2>1. n \in Nat \ {0}  BY <1>3
  <2>2. Walk'[n] = w[1]  BY <2>1, <1>3
  <2>3. ASSUME NEW k \in 1 .. (n - 1) PROVE q1[k] = q[k + 1]
    <3>1. k \in 1 .. n /\ k # n /\ k + 1 \in 1 .. n  BY <2>1
    <3>2. Walk'[k] = w[k + 1]  BY <3>1, <1>3
    <3>. QED  BY <3>1, <3>2, <1>4, <1>5
  <2>4. 1 \in 1 .. n /\ n \in 1 .. n  BY <2>1
  <2>5. q1[n] = q[1]  BY <2>2, <2>4, <1>4, <1>5
  <2>. QED  BY <2>3, <2>5
<1>7. n \in Nat \ {0}  BY <1>3
<1>8. \A k \in 1 .. n : k = n \/ k \in 1 .. (n - 1)  BY <1>7
<1>9. q1 \in Seq(Slots) /\ Len(q1) = n
  <2>1. \A k \in 1 .. n : q[k] \in Slots  BY <1>4, ElementOfSeq
  <2>2. \A k \in 1 .. n : q1[k] \in Slots
    <3>1. \A k \in 1 .. (n - 1) : k + 1 \in 1 .. n  BY <1>7
    <3>. QED  BY <2>1, <3>1, <1>6, <1>7, <1>8
  <2>3. q1 \in [1 .. n -> Slots]  BY <2>2, <1>5
  <2>. QED  BY <2>3, <1>7, FunctionIsSeq
<1>10. q # <<>> /\ q1 # <<>>  BY <1>4, <1>7, <1>9, EmptySeq
<1>11. Head(q) = q[1] /\ Head(q1) = q1[1]  BY <1>4, <1>9, <1>10
<1>12. PICK r : r = IF Len(q) > 1 THEN Append(Tail(q), Head(q)) ELSE q  OBVIOUS
<1>13. q1 = r
  <2>1. CASE n = 1
    <3>1. r = q  BY <2>1, <1>4, <1>12
    <3>2. \A k \in 1 .. Len(q1) : q1[k] = q[k]  BY <2>1, <1>6, <1>9
    <3>. QED  BY <3>1, <3>2, <1>4, <1>9, SeqEqual
  <2>2. CASE n > 1
    <3>1. PICK t : t = Tail(q)  OBVIOUS
    <3>2. /\ t \in Seq(Slots) /\ Len(t) = n - 1 /\ Head(q) \in Slots
          /\ \A k \in 1 .. (n - 1) : t[k] = q[k + 1]
      BY <3>1, <1>4, <1>10, HeadTailProperties
    <3>3. r = Append(t, q[1])  BY <2>2, <3>1, <1>4, <1>11, <1>12
    <3>4. /\ r \in Seq(Slots) /\ Len(r) = (n - 1) + 1
          /\ \A k \in 1 .. (n - 1) : r[k] = t[k]
          /\ r[(n - 1) + 1] = q[1]
      BY <3>2, <3>3, <1>11, AppendProperties
    <3>5. (n - 1) + 1 = n  BY <1>7
    <3>6. \A k \in 1 .. Len(q1) : q1[k] = r[k]
      BY <3>2, <3>4, <3>5, <1>6, <1>8, <1>9
    <3>. QED  BY <3>4, <3>5, <3>6, <1>9, SeqEqual
  <2>. QED  BY <2>1, <2>2, <1>7
<1>14. q1[1] = ps[start'] /\ q[1] = ps[start]
  <2>1. Walk'[1] = start' /\ w[1] = start  BY <1>1, <1>3 DEF Inv, Ordered
  <2>. QED  BY <2>1, <1>4, <1>5, <1>7
<1>15. running' = IF ps[start'] = NULL THEN running ELSE ps[start']
  BY <1>3 DEF schedule
<1>16. ps[start] # NULL  BY <1>2 DEF HeadRunnable
<1>17. AbstractQueue!Switch
  <2>1. AbstractQueue!Rotated = q1
    BY <1>1, <1>12, <1>13 DEF AbstractQueue!Rotated
  <2>. QED  BY <2>1, <1>1, <1>10, <1>11, <1>14, <1>15, <1>16 DEF AbstractQueue!Switch
<1>. QED  BY <1>17 DEF AbstractQueue!Next

\* Every call of the scheduler is a step of the queue.
LEMMA NextQueue == Inv /\ [Next]_vars => [AbstractQueue!Next]_(AbstractQueue!vars)
<1>. SUFFICES ASSUME Inv, [Next]_vars PROVE [AbstractQueue!Next]_(AbstractQueue!vars)
  OBVIOUS
<1>1. ASSUME UNCHANGED <<list, running>> PROVE UNCHANGED AbstractQueue!vars
  BY <1>1 DEF list, AbstractQueue!vars, Queue, Walk
<1>2. ASSUME NEW ok \in BOOLEAN, process_create(ok) PROVE UNCHANGED AbstractQueue!vars
  BY <1>1, <1>2 DEF process_create
<1>3. CASE scheduler_add_process_fails \/ schedule_none \/ UNCHANGED vars
  BY <1>1, <1>3 DEF scheduler_add_process_fails, schedule_none, vars
<1>. QED  BY <1>2, <1>3, AddStep, SwitchStep DEF Next

\* The pointer list implements the queue: additions go to the end, and a
\* switch moves the head there and runs the new head.
THEOREM ImplementsQueue == Spec => QueueSpec
  BY InvHolds, InitQueue, NextQueue, PTL DEF Spec, QueueSpec, AbstractQueue!Spec
=============================================================================
