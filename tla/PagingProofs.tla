---------------------------- MODULE PagingProofs ----------------------------
(***************************************************************************)
(* What the operations of Paging do to page directories and tables that    *)
(* are in order, for every size of tables and every number of frames.      *)
(* F is the set of frames of the machine.                                  *)
(***************************************************************************)
EXTENDS Paging, WellFoundedInduction, NaturalsInduction, TLAPS

-----------------------------------------------------------------------------
(***************************************************************************)
(* Page directories and tables in order.                                   *)
(***************************************************************************)
KernelIdxs == KernelIdx .. (PdtEntries - 1)
StackIdx == KernelIdx - 1
UserIdxs == {0, StackIdx}

\* The directories of processes.
Dirs(m) == DOMAIN m.pdt \ {KernelPdt}

IsRecord(m) ==
  m = [pool |-> m.pool, pdt |-> m.pdt, pt |-> m.pt, upde |-> m.upde, upte |-> m.upte,
       low |-> m.low, flipped |-> m.flipped]

\* Every element of f is a function on I.
Matrix(f, I) == f = [x \in DOMAIN f |-> [y \in I |-> f[x][y]]]

Typed(m, F) ==
  /\ IsRecord(m)
  /\ m.pool \subseteq F
  /\ DOMAIN m.pdt \subseteq F \cup {KernelPdt}
  /\ KernelPdt \in DOMAIN m.pdt
  /\ Matrix(m.pdt, PdtIdx)
  /\ \A d \in DOMAIN m.pdt : \A i \in PdtIdx :
       m.pdt[d][i] \in F \cup {Absent, KernelPt, Identity}
  /\ DOMAIN m.pt \subseteq F \cup {KernelPt}
  /\ KernelPt \in DOMAIN m.pt
  /\ Matrix(m.pt, PtIdx)
  /\ \A t \in DOMAIN m.pt : \A j \in PtIdx :
       m.pt[t][j] \in F \cup {0, Absent, ImagePage, BitmapPage}
  /\ m.upde \subseteq Dirs(m) \X UserIdxs
  /\ m.upte \subseteq (DOMAIN m.pt) \X PtIdx

\* The kernel's directory: the identity page, kernel_pt, and other tables
\* behind it.  The temporary slot is empty.
KernelOK(m) ==
  /\ m.pdt[KernelPdt][0] = Identity
  /\ m.pdt[KernelPdt][KernelIdx] = KernelPt
  /\ \A i \in PdtIdx : (i # 0 /\ i < KernelIdx) => m.pdt[KernelPdt][i] = Absent
  /\ \A i \in PdtIdx : i > KernelIdx =>
       m.pdt[KernelPdt][i] \in {Absent} \cup (DOMAIN m.pt \ {KernelPt})
  /\ m.pt[KernelPt][TmpIdx] = Absent

\* A process's directory: a table for its code, unless it has been loaded, one
\* for its stack, and entries copied from the kernel.
DirsOK(m) ==
  \A d \in Dirs(m) : \A i \in PdtIdx :
    /\ i = 0 => m.pdt[d][i] \in {Absent, Identity} \cup (DOMAIN m.pt \ {KernelPt})
    /\ i = StackIdx => m.pdt[d][i] \in {Absent} \cup (DOMAIN m.pt \ {KernelPt})
    /\ i >= KernelIdx => m.pdt[d][i] \in {Absent, m.pdt[KernelPdt][i]}
    /\ (i \notin UserIdxs /\ i < KernelIdx) => m.pdt[d][i] = Absent

\* No table is in two places, but for the kernel's in the same place of
\* several directories.
TablesUnique(m) ==
  \A d, e \in DOMAIN m.pdt : \A i, k \in PdtIdx :
    (m.pdt[d][i] = m.pdt[e][k] /\ m.pdt[d][i] \in DOMAIN m.pt)
      => i = k /\ (d = e \/ i >= KernelIdx)

\* Entry j of table t is that of the last page of the address space.
LastIdx == PdtEntries - 1
IsLast(m, t, j) == t = m.pdt[KernelPdt][LastIdx] /\ j = TmpIdx

\* The last page shows frame x.
OnLast(m, x) ==
  /\ x \notin {0, Absent} /\ m.pdt[KernelPdt][LastIdx] \in DOMAIN m.pt
  /\ m.pt[m.pdt[KernelPdt][LastIdx]][TmpIdx] = x

\* The kernel has no page left.
KernelFull(m) ==
  \A i \in KernelIdxs : m.pdt[KernelPdt][i] # Absent /\ \A j \in PtIdx :
    m.pt[m.pdt[KernelPdt][i]][j] # Absent \/ IsTmp(i, j)

\* No frame is mapped twice, but for one that the last page may show as well:
\* that page is never unmapped.
PagesUnique(m, F) ==
  \A t, u \in DOMAIN m.pt : \A j, k \in PtIdx :
    (m.pt[t][j] = m.pt[u][k] /\ m.pt[t][j] \in F)
      => (t = u /\ j = k) \/ IsLast(m, t, j) \/ IsLast(m, u, k)

\* The frame x is not in use as far as the page tables tell.
Unused(m, x) ==
  /\ x \notin DOMAIN m.pt
  /\ \A t \in DOMAIN m.pt : \A j \in PtIdx : m.pt[t][j] # x

Apart(m) ==
  /\ \A x \in m.pool : Unused(m, x) /\ x \notin DOMAIN m.pdt
  /\ \A t \in DOMAIN m.pt : \A j \in PtIdx : m.pt[t][j] \notin DOMAIN m.pt

\* A table of a process holds one page, and only present entries are open to
\* user mode.
UserTables(m) ==
  /\ \A d \in Dirs(m) : \A j \in PtIdx :
       /\ (m.pdt[d][0] \in DOMAIN m.pt /\ j # 0) => m.pt[m.pdt[d][0]][j] = Absent
       /\ (m.pdt[d][StackIdx] \in DOMAIN m.pt /\ j # TmpIdx)
            => m.pt[m.pdt[d][StackIdx]][j] = Absent
  /\ \A t \in DOMAIN m.pt : \A j \in PtIdx :
       <<t, j>> \in m.upte => m.pt[t][j] # Absent

MemOK(m, F) ==
  /\ Typed(m, F)
  /\ KernelOK(m)
  /\ DirsOK(m)
  /\ TablesUnique(m)
  /\ PagesUnique(m, F)
  /\ Apart(m)
  /\ UserTables(m)

\* Frame x is a page table or is mapped, as seen from the directories.
InUse(m, x) ==
  \E d \in DOMAIN m.pdt : \E i \in PdtIdx :
    \/ m.pdt[d][i] = x
    \/ m.pdt[d][i] \in DOMAIN m.pt /\ \E j \in PtIdx : m.pt[m.pdt[d][i]][j] = x

Accounted(m, F) == \A x \in F : x \in m.pool \/ InUse(m, x)

(***************************************************************************)
(* From m to n the pool has only shrunk, the directories D of processes    *)
(* and their own tables are the same, and what the kernel has mapped is    *)
(* still there.  No page of theirs has become the last one.                *)
(***************************************************************************)
Keeps(m, n, D) ==
  /\ n.pool \subseteq m.pool /\ n.flipped = m.flipped
  /\ DOMAIN m.pdt \subseteq DOMAIN n.pdt
  /\ DOMAIN m.pt \subseteq DOMAIN n.pt
  /\ \A d \in D :
       /\ \A i \in PdtIdx : n.pdt[d][i] = m.pdt[d][i]
       /\ \A i \in PdtIdx : <<d, i>> \in m.upde => <<d, i>> \in n.upde
       /\ \A i \in UserIdxs : m.pdt[d][i] \in DOMAIN m.pt =>
            \A j \in PtIdx :
              /\ n.pt[m.pdt[d][i]][j] = m.pt[m.pdt[d][i]][j]
              /\ <<m.pdt[d][i], j>> \in m.upte => <<m.pdt[d][i], j>> \in n.upte
              /\ OnLast(n, m.pt[m.pdt[d][i]][j]) => OnLast(m, m.pt[m.pdt[d][i]][j])
  /\ \A i \in KernelIdxs : m.pdt[KernelPdt][i] # Absent =>
       /\ n.pdt[KernelPdt][i] = m.pdt[KernelPdt][i]
       /\ \A j \in PtIdx : m.pt[m.pdt[KernelPdt][i]][j] # Absent =>
            n.pt[m.pdt[KernelPdt][i]][j] = m.pt[m.pdt[KernelPdt][i]][j]

-----------------------------------------------------------------------------
(***************************************************************************)
(* Numbers.                                                                *)
(***************************************************************************)

\* The constants, in the form that the provers need.
LEMMA Sizes ==
  /\ PtEntries \in Nat /\ PtEntries > 2
  /\ PdtEntries \in Nat /\ KernelIdx \in Nat /\ 2 <= KernelIdx
  /\ KernelIdx < PdtEntries
  /\ 0 \in PtIdx /\ TmpIdx \in PtIdx /\ TmpIdx # 0
  /\ 0 \in PdtIdx /\ StackIdx \in PdtIdx /\ KernelIdx \in PdtIdx /\ StackIdx # 0
  /\ StackIdx < KernelIdx
BY PagingAssumption DEF PtIdx, PdtIdx, TmpIdx, StackIdx

\* A nonempty set of natural numbers has a smallest element, and Min is it.
LEMMA MinOf ==
  ASSUME NEW T \in SUBSET Nat, T # {}
  PROVE  Min(T) \in T /\ \A y \in T : Min(T) <= y
<1>1. IsWellFoundedOn(OpToRel(<, Nat), Nat)
  BY NatLessThanWellFounded
<1>2. PICK x \in T : \A y \in T : ~ (<<y, x>> \in OpToRel(<, Nat))
  BY <1>1, WFMin
<1>3. \A y \in T : ~ (y < x)
  BY <1>2 DEF OpToRel
<1>4. \A y \in T : x <= y
  BY <1>3
<1>. QED  BY <1>4 DEF Min

\* The largest element of a set is its Max.
LEMMA MaxOf ==
  ASSUME NEW T \in SUBSET Nat, NEW x \in T, \A y \in T : y <= x
  PROVE  Max(T) = x
<1>1. Max(T) \in T /\ \A y \in T : Max(T) >= y
  <2>1. \E z \in T : \A y \in T : z >= y  OBVIOUS
  <2>. QED  BY <2>1 DEF Max
<1>2. PICK z : z = Max(T)  OBVIOUS
<1>3. z \in Nat /\ x \in Nat /\ z >= x /\ z <= x  BY <1>1, <1>2
<1>4. z = x  BY <1>3
<1>. QED  BY <1>4, <1>2

\* Division with remainder.
LEMMA DivMod ==
  ASSUME NEW a \in Int, NEW b \in Nat, b > 0
  PROVE  /\ a \div b \in Int /\ a % b \in Nat /\ a % b < b
         /\ a = b * (a \div b) + (a % b)
OBVIOUS

\* The quotient and the remainder are determined by their equation.
LEMMA Quotient ==
  ASSUME NEW b \in Nat, b > 0, NEW q \in Int, NEW r \in Nat, r < b
  PROVE  ((q * b) + r) \div b = q /\ ((q * b) + r) % b = r
<1>1. PICK n : n = (q * b) + r  OBVIOUS
<1>2. n \in Int /\ n = b * q + r  BY <1>1
<1>3. PICK x : x = n \div b  OBVIOUS
<1>4. PICK y : y = n % b  OBVIOUS
<1>5. x \in Int /\ y \in Nat /\ y < b /\ n = b * x + y
  BY <1>2, <1>3, <1>4, DivMod
<1>6. PICK k : k = q - x  OBVIOUS
<1>7. k \in Int  BY <1>6, <1>5
<1>8. y - r = b * k  BY <1>6, <1>5, <1>2
<1>9. k > 0 => b * k >= b  BY <1>7
<1>10. k < 0 => b * k <= -b  BY <1>7
<1>11. k = 0  BY <1>8, <1>9, <1>10, <1>7, <1>5
<1>12. x = q /\ y = r  BY <1>11, <1>6, <1>5, <1>8
<1>. QED  BY <1>12, <1>1, <1>3, <1>4

\* An address is made of an index of the directory and one of the table.
LEMMA AddressOf ==
  ASSUME NEW i \in PdtIdx, NEW j \in PtIdx
  PROVE  /\ (i * PtEntries) + j \in Nat
         /\ pdt_idx((i * PtEntries) + j) = i
         /\ pt_idx((i * PtEntries) + j) = j
<1>1. i \in Nat /\ i < PdtEntries /\ j \in Nat /\ j < PtEntries
  BY Sizes DEF PdtIdx, PtIdx
<1>2. PICK v : v = (i * PtEntries) + j  OBVIOUS
<1>3. v \in Nat  BY <1>1, <1>2, Sizes
<1>4. v \div PtEntries = i /\ v % PtEntries = j
  BY <1>1, <1>2, Sizes, Quotient
<1>5. i % PdtEntries = i  BY <1>1, Sizes
<1>. QED  BY <1>2, <1>3, <1>4, <1>5 DEF pdt_idx, pt_idx

\* Every address has indices within the tables.
LEMMA IndicesOf ==
  ASSUME NEW v \in Nat
  PROVE  pdt_idx(v) \in PdtIdx /\ pt_idx(v) \in PtIdx
<1>1. PICK q : q = v \div PtEntries  OBVIOUS
<1>2. q \in Int  BY <1>1, Sizes, DivMod
<1>3. q % PdtEntries \in PdtIdx  BY <1>2, Sizes, DivMod DEF PdtIdx
<1>4. v % PtEntries \in PtIdx  BY Sizes, DivMod DEF PtIdx
<1>. QED  BY <1>1, <1>3, <1>4 DEF pdt_idx, pt_idx

\* Address 0 is the first one of the first table.
LEMMA ZeroAddress == pdt_idx(0) = 0 /\ pt_idx(0) = 0
<1>1. 0 \in PdtIdx /\ 0 \in PtIdx  BY Sizes
<1>2. (0 * PtEntries) + 0 = 0  BY Sizes
<1>. QED  BY <1>1, <1>2, AddressOf

\* The page below the kernel is the last one of the table below it.
LEMMA BelowKernel ==
  /\ KernelStart - 1 \in Nat
  /\ pdt_idx(KernelStart - 1) = StackIdx /\ pt_idx(KernelStart - 1) = TmpIdx
<1>1. KernelStart - 1 = (StackIdx * PtEntries) + TmpIdx
  BY Sizes DEF KernelStart, StackIdx, TmpIdx
<1>2. StackIdx \in PdtIdx /\ TmpIdx \in PtIdx  BY Sizes
<1>. QED  BY <1>1, <1>2, AddressOf

\* The addresses from KernelStart on are in the kernel's part of a directory.
LEMMA KernelAddress ==
  ASSUME NEW v \in 0 .. (PdtEntries * PtEntries - 1), v >= KernelStart
  PROVE  pdt_idx(v) \in KernelIdxs
<1>1. PICK q : q = v \div PtEntries  OBVIOUS
<1>2. PICK r : r = v % PtEntries  OBVIOUS
<1>0. v \in Nat /\ PdtEntries * PtEntries \in Nat /\ v < PdtEntries * PtEntries
  BY Sizes
<1>3. q \in Int /\ r \in Nat /\ r < PtEntries /\ v = PtEntries * q + r
  BY <1>0, <1>1, <1>2, Sizes, DivMod
<1>4. q >= KernelIdx
  <2>1. SUFFICES ASSUME q <= KernelIdx - 1 PROVE FALSE  BY <1>3, Sizes
  <2>2. PtEntries * q <= PtEntries * (KernelIdx - 1)  BY <2>1, <1>3, Sizes
  <2>3. PtEntries * (KernelIdx - 1) = KernelStart - PtEntries
    BY Sizes DEF KernelStart
  <2>4. PtEntries * q \in Int /\ KernelStart \in Int  BY <1>3, Sizes DEF KernelStart
  <2>. QED  BY <2>2, <2>3, <2>4, <1>3, Sizes
<1>5. q < PdtEntries
  <2>1. SUFFICES ASSUME q >= PdtEntries PROVE FALSE  BY <1>3, Sizes
  <2>2. PtEntries * q >= PtEntries * PdtEntries  BY <2>1, <1>3, Sizes
  <2>3. PtEntries * q \in Int /\ PtEntries * PdtEntries = PdtEntries * PtEntries
    BY <1>3, Sizes
  <2>. QED  BY <2>2, <2>3, <1>3, <1>0, Sizes
<1>6. q % PdtEntries = q  BY <1>3, <1>4, <1>5, Sizes
<1>. QED  BY <1>1, <1>6, <1>3, <1>4, <1>5, Sizes DEF pdt_idx, KernelIdxs

-----------------------------------------------------------------------------
(***************************************************************************)
(* The frame pool.                                                         *)
(***************************************************************************)

\* pfa_allocate takes n frames out of the pool or fails and changes nothing.
LEMMA Allocate ==
  ASSUME NEW F \in SUBSET (Nat \ {0}), NEW m, IsRecord(m), m.pool \subseteq F,
         NEW n \in Nat, n > 0
  PROVE  LET a == pfa_allocate(m, n)
         IN  \/ a.ret = 0 /\ a.m = m
             \/ /\ a.ret \in Nat \ {0}
                /\ a.ret .. (a.ret + n - 1) \subseteq m.pool
                /\ a.m.flipped = m.flipped /\ a.m.pool = m.pool \ (a.ret .. (a.ret + n - 1))
                /\ IsRecord(a.m) /\ a.m.pdt = m.pdt /\ a.m.pt = m.pt
                /\ a.m.upde = m.upde /\ a.m.upte = m.upte
<1>. DEFINE starts == {f \in m.pool : f .. (f + n - 1) \subseteq m.pool}
<1>1. CASE starts = {}
  <2>1. pfa_allocate(m, n) = [m |-> m, ret |-> 0]  BY <1>1 DEF pfa_allocate
  <2>. QED  BY <2>1
<1>2. CASE starts # {}
  <2>1. starts \in SUBSET Nat  OBVIOUS
  <2>2. Min(starts) \in starts  BY <1>2, <2>1, MinOf
  <2>3. PICK f : f = Min(starts)  OBVIOUS
  <2>4. f \in Nat \ {0} /\ f .. (f + n - 1) \subseteq m.pool  BY <2>2, <2>3
  <2>5. pfa_allocate(m, n) = [m   |-> [m EXCEPT !.pool = @ \ (f .. (f + n - 1))],
                              ret |-> f]
    BY <1>2, <2>3 DEF pfa_allocate
  <2>6. PICK a : a = pfa_allocate(m, n)  OBVIOUS
  <2>7. a.ret = f /\ a.m = [m EXCEPT !.pool = @ \ (f .. (f + n - 1))]
    BY <2>5, <2>6
  <2>8. /\ a.m.flipped = m.flipped /\ a.m.pool = m.pool \ (f .. (f + n - 1)) /\ IsRecord(a.m)
        /\ a.m.pdt = m.pdt /\ a.m.pt = m.pt /\ a.m.upde = m.upde /\ a.m.upte = m.upte
    BY <2>7 DEF IsRecord
  <2>. QED  BY <2>4, <2>6, <2>7, <2>8
<1>. QED  BY <1>1, <1>2

\* One frame is found whenever the pool has one.
LEMMA AllocateOne ==
  ASSUME NEW F \in SUBSET (Nat \ {0}), NEW m, IsRecord(m), m.pool \subseteq F
  PROVE  LET a == pfa_allocate(m, 1)
         IN  \/ a.ret = 0 /\ a.m = m /\ m.pool = {}
             \/ /\ a.ret \in m.pool
                /\ a.m.flipped = m.flipped /\ a.m.pool = m.pool \ {a.ret}
                /\ IsRecord(a.m) /\ a.m.pdt = m.pdt /\ a.m.pt = m.pt
                /\ a.m.upde = m.upde /\ a.m.upte = m.upte
<1>. DEFINE starts == {f \in m.pool : f .. (f + 1 - 1) \subseteq m.pool}
<1>1. \A f \in m.pool : f .. (f + 1 - 1) = {f}
  <2>1. \A f \in Nat : f .. (f + 1 - 1) = {f}  OBVIOUS
  <2>. QED  BY <2>1
<1>2. PICK a : a = pfa_allocate(m, 1)  OBVIOUS
<1>3. CASE a.ret = 0 /\ a.m = m
  <2>1. SUFFICES ASSUME m.pool # {} PROVE FALSE  BY <1>2, <1>3
  <2>2. starts # {}  BY <2>1, <1>1
  <2>3. starts \in SUBSET Nat  OBVIOUS
  <2>4. Min(starts) \in starts  BY <2>2, <2>3, MinOf
  <2>5. a.ret = Min(starts)  BY <1>2, <2>2 DEF pfa_allocate
  <2>. QED  BY <2>4, <2>5, <1>3
<1>4. CASE ~ (a.ret = 0 /\ a.m = m)
  <2>1. /\ a.ret \in Nat \ {0}
        /\ a.ret .. (a.ret + 1 - 1) \subseteq m.pool
        /\ a.m.flipped = m.flipped /\ a.m.pool = m.pool \ (a.ret .. (a.ret + 1 - 1))
        /\ IsRecord(a.m) /\ a.m.pdt = m.pdt /\ a.m.pt = m.pt
        /\ a.m.upde = m.upde /\ a.m.upte = m.upte
    <3>1. 1 \in Nat /\ 1 > 0  OBVIOUS
    <3>. HIDE DEF starts
    <3>. QED  BY <1>2, <1>4, <3>1, Allocate
  <2>2. a.ret .. (a.ret + 1 - 1) = {a.ret}  BY <2>1
  <2>. QED  BY <1>2, <2>1, <2>2
<1>. QED  BY <1>3, <1>4

-----------------------------------------------------------------------------
(***************************************************************************)
(* Functions of functions.                                                 *)
(***************************************************************************)

\* A new row r for an old one.
LEMMA MatrixRow ==
  ASSUME NEW I, NEW f, Matrix(f, I), NEW x \in DOMAIN f, NEW r, NEW g,
         r = [k \in I |-> r[k]], g = [f EXCEPT ![x] = r]
  PROVE  /\ Matrix(g, I) /\ DOMAIN g = DOMAIN f
         /\ \A u \in DOMAIN f : \A k \in I : g[u][k] = IF u = x THEN r[k] ELSE f[u][k]
<1>1. \A u \in DOMAIN f : f[u] = [k \in I |-> f[u][k]]  BY DEF Matrix
<1>2. DOMAIN g = DOMAIN f /\ g[x] = r  OBVIOUS
<1>3. \A u \in DOMAIN f : u # x => g[u] = f[u]  OBVIOUS
<1>4. \A u \in DOMAIN f : g[u] = [k \in I |-> g[u][k]]  BY <1>1, <1>2, <1>3
<1>5. Matrix(g, I)
  <2>1. g = [u \in DOMAIN g |-> g[u]]  BY <1>2
  <2>. QED  BY <2>1, <1>2, <1>4 DEF Matrix
<1>. QED  BY <1>2, <1>3, <1>5

\* One row more.
LEMMA MatrixAdd ==
  ASSUME NEW I, NEW f, Matrix(f, I), NEW x, NEW r, NEW g,
         r = [k \in I |-> r[k]], g = [u \in DOMAIN g |-> g[u]],
         DOMAIN g = DOMAIN f \cup {x},
         \A u \in DOMAIN g : g[u] = IF u = x THEN r ELSE f[u]
  PROVE  /\ Matrix(g, I) /\ DOMAIN g = DOMAIN f \cup {x}
         /\ \A u \in DOMAIN g : \A k \in I : g[u][k] = IF u = x THEN r[k] ELSE f[u][k]
<1>1. \A u \in DOMAIN f : f[u] = [k \in I |-> f[u][k]]  BY DEF Matrix
<1>2. DOMAIN g = DOMAIN f \cup {x} /\ g[x] = r  OBVIOUS
<1>3. \A u \in DOMAIN f : u # x => g[u] = f[u]  OBVIOUS
<1>4. \A u \in DOMAIN g : g[u] = [k \in I |-> g[u][k]]  BY <1>1, <1>2, <1>3
<1>5. Matrix(g, I)  BY <1>2, <1>4 DEF Matrix
<1>. QED  BY <1>2, <1>3, <1>5

\* Two functions of functions that agree everywhere are equal.
LEMMA MatrixEqual ==
  ASSUME NEW I, NEW f, NEW g, Matrix(f, I), Matrix(g, I), DOMAIN f = DOMAIN g,
         \A u \in DOMAIN f : \A k \in I : f[u][k] = g[u][k]
  PROVE  f = g
<1>1. \A u \in DOMAIN f : f[u] = [k \in I |-> f[u][k]] /\ g[u] = [k \in I |-> g[u][k]]
  BY DEF Matrix
<1>2. \A u \in DOMAIN f : f[u] = g[u]  BY <1>1
<1>3. f = [u \in DOMAIN f |-> f[u]] /\ g = [u \in DOMAIN f |-> g[u]]  BY DEF Matrix
<1>. QED  BY <1>2, <1>3

-----------------------------------------------------------------------------
(***************************************************************************)
(* The steps of mapping and unmapping.                                     *)
(***************************************************************************)

\* What makes m a memory at all.
Shape(m) ==
  /\ IsRecord(m) /\ Matrix(m.pdt, PdtIdx) /\ Matrix(m.pt, PtIdx)
  /\ KernelPt \in DOMAIN m.pt

\* n is m with e in the temporary slot.
SlotSet(m, n, e) ==
  /\ Shape(n) /\ n.pool = m.pool /\ n.flipped = m.flipped /\ n.pdt = m.pdt
  /\ n.upde = m.upde /\ n.upte = m.upte /\ n.low = m.low /\ DOMAIN n.pt = DOMAIN m.pt
  /\ \A u \in DOMAIN m.pt : \A k \in PtIdx :
       n.pt[u][k] = IF u = KernelPt /\ k = TmpIdx THEN e ELSE m.pt[u][k]

\* Writing the temporary slot changes nothing else.
LEMMA SetSlot ==
  ASSUME NEW m, Shape(m), NEW e
  PROVE  /\ SlotSet(m, kernel_set_temporary_entry(m, e), e)
         /\ SlotSet(m, kernel_map_temporary_memory(m, e), e)
<1>0. PICK n : n = [m EXCEPT !.pt[KernelPt][TmpIdx] = e]  OBVIOUS
<1>1. n.pt = [m.pt EXCEPT ![KernelPt][TmpIdx] = e]  BY <1>0 DEF IsRecord, Shape
<1>2. /\ IsRecord(n) /\ n.pool = m.pool /\ n.flipped = m.flipped /\ n.pdt = m.pdt
      /\ n.upde = m.upde /\ n.upte = m.upte /\ n.low = m.low
  BY <1>0 DEF IsRecord, Shape
<1>3. TmpIdx \in PtIdx  BY Sizes
<1>4. PICK f : f = m.pt  OBVIOUS
<1>5. PICK g : g = n.pt  OBVIOUS
<1>6. /\ Matrix(g, PtIdx) /\ DOMAIN g = DOMAIN f
      /\ \A u \in DOMAIN f : \A k \in PtIdx :
           g[u][k] = IF u = KernelPt /\ k = TmpIdx THEN e ELSE f[u][k]
  <2>1. PICK r : r = [f[KernelPt] EXCEPT ![TmpIdx] = e]  OBVIOUS
  <2>2. g = [f EXCEPT ![KernelPt] = r]  BY <1>1, <1>4, <1>5, <2>1
  <2>3. Matrix(f, PtIdx) /\ KernelPt \in DOMAIN f  BY <1>4 DEF Shape
  <2>4. f[KernelPt] = [k \in PtIdx |-> f[KernelPt][k]]  BY <2>3 DEF Matrix
  <2>5. /\ r = [k \in PtIdx |-> r[k]]
        /\ \A k \in PtIdx : r[k] = IF k = TmpIdx THEN e ELSE f[KernelPt][k]
    BY <2>1, <2>4, <1>3
  <2>. QED  BY <2>2, <2>3, <2>5, MatrixRow
<1>7. SlotSet(m, n, e)
  <2>1. Shape(n)  BY <1>2, <1>4, <1>5, <1>6 DEF Shape
  <2>. QED  BY <2>1, <1>2, <1>4, <1>5, <1>6 DEF SlotSet
<1>. QED  BY <1>0, <1>7 DEF kernel_set_temporary_entry, kernel_map_temporary_memory

\* Writing it and writing the old value again changes nothing.
LEMMA SlotTwice ==
  ASSUME NEW m, Shape(m), NEW a, NEW t, SlotSet(m, a, t),
         NEW b, SlotSet(a, b, kernel_get_temporary_entry(m))
  PROVE  b = m
<1>1. PICK f : f = b.pt  OBVIOUS
<1>2. PICK g : g = m.pt  OBVIOUS
<1>3. f = g
  <2>1. Matrix(f, PtIdx) /\ Matrix(g, PtIdx) /\ DOMAIN f = DOMAIN g
    BY <1>1, <1>2 DEF SlotSet, Shape
  <2>2. \A u \in DOMAIN f : \A k \in PtIdx : f[u][k] = g[u][k]
    BY <1>1, <1>2 DEF SlotSet, kernel_get_temporary_entry
  <2>. QED  BY <2>1, <2>2, MatrixEqual
<1>4. /\ b.pool = m.pool /\ b.flipped = m.flipped /\ b.pdt = m.pdt /\ b.pt = m.pt
      /\ b.upde = m.upde /\ b.upte = m.upte /\ b.low = m.low
  BY <1>1, <1>2, <1>3 DEF SlotSet
<1>. QED  BY <1>4 DEF SlotSet, Shape, IsRecord

\* n is m but for the word at address 0.
SameTables(m, n) ==
  /\ IsRecord(n) /\ n.pool = m.pool /\ n.flipped = m.flipped /\ n.pdt = m.pdt
  /\ n.pt = m.pt /\ n.upde = m.upde /\ n.upte = m.upte

\* With a write to the word at address 0 in between, the tables are the same.
LEMMA SlotLow ==
  ASSUME NEW m, Shape(m), NEW a, NEW t, SlotSet(m, a, t), NEW c, SameTables(a, c),
         NEW b, SlotSet(c, b, kernel_get_temporary_entry(m))
  PROVE  SameTables(m, b)
<1>1. PICK f : f = b.pt  OBVIOUS
<1>2. PICK g : g = m.pt  OBVIOUS
<1>3. f = g
  <2>1. Matrix(f, PtIdx) /\ Matrix(g, PtIdx) /\ DOMAIN f = DOMAIN g
    BY <1>1, <1>2 DEF SlotSet, Shape, SameTables
  <2>2. \A u \in DOMAIN f : \A k \in PtIdx : f[u][k] = g[u][k]
    BY <1>1, <1>2 DEF SlotSet, kernel_get_temporary_entry, SameTables
  <2>. QED  BY <2>1, <2>2, MatrixEqual
<1>4. /\ b.pool = m.pool /\ b.flipped = m.flipped /\ b.pdt = m.pdt /\ b.pt = m.pt
      /\ b.upde = m.upde /\ b.upte = m.upte
  BY <1>1, <1>2, <1>3 DEF SlotSet, SameTables
<1>. QED  BY <1>4 DEF SlotSet, Shape, SameTables

\* The n entries from j on of table t, which is in place i, are free.
RunFree(m, t, i, j, n) ==
  /\ t \in DOMAIN m.pt
  /\ \A k \in j .. (j + n - 1) : m.pt[t][k] = Absent /\ ~IsTmp(i, k)

\* n is m with c pages from paddr on in table t from entry j on.
PagesPut(m, n, t, j, paddr, c, pl) ==
  /\ Shape(n) /\ n.pool = m.pool /\ n.flipped = m.flipped /\ n.pdt = m.pdt /\ n.upde = m.upde
  /\ n.upte = Grant(m.upte, {t} \X (j .. (j + c - 1)), pl)
  /\ DOMAIN n.pt = DOMAIN m.pt
  /\ \A u \in DOMAIN m.pt : \A k \in PtIdx :
       n.pt[u][k] = IF u = t /\ k \in j .. (j + c - 1)
                    THEN paddr + (k - j) ELSE m.pt[u][k]

\* pt_map_memory maps all of n pages into free entries.
LEMMA PtMap ==
  ASSUME NEW m, Shape(m), NEW t, NEW i, NEW paddr \in Nat,
         NEW v, NEW j \in PtIdx, pt_idx(v) = j, NEW n \in Nat, n > 0,
         j + n <= PtEntries, RunFree(m, t, i, j, n), NEW pl
  PROVE  /\ pt_map_memory(m, t, i, paddr, v, n, pl).ret = n
         /\ PagesPut(m, pt_map_memory(m, t, i, paddr, v, n, pl).m, t, j, paddr, n, pl)
<1>1. PICK r : r = pt_map_memory(m, t, i, paddr, v, n, pl)  OBVIOUS
<1>2. Max({c \in 0 .. n : \/ c = 0 \/ CanMap(m, t, i, j, c)
                           \/ CanMapLow(m, t, j, c)}) = n
  <2>. DEFINE T == {c \in 0 .. n : \/ c = 0 \/ CanMap(m, t, i, j, c)
                                  \/ CanMapLow(m, t, j, c)}
  <2>1. T \in SUBSET Nat /\ \A y \in T : y <= n  OBVIOUS
  <2>2. n \in T  BY DEF CanMap, RunFree, IsTable
  <2>. QED  BY <2>1, <2>2, MaxOf
<1>3. PICK row : row = [k \in PtIdx |-> IF k \in j .. (j + n - 1)
                                        THEN paddr + (k - j) ELSE m.pt[t][k]]
  OBVIOUS
<1>4. /\ r.ret = n
      /\ r.m = [m EXCEPT !.pt[t] = row,
                         !.upte = Grant(@, {t} \X (j .. (j + n - 1)), pl)]
  <2>1. PICK c : c = Max({x \in 0 .. n : \/ x = 0 \/ CanMap(m, t, i, j, x)
                                        \/ CanMapLow(m, t, j, x)})
    OBVIOUS
  <2>2. r = [m   |-> CASE c = 0 -> m
                       [] c > 0 /\ IsTable(m, t) ->
                            [m EXCEPT !.pt[t] = [k \in PtIdx |->
                                                   IF k \in j .. (j + c - 1)
                                                   THEN paddr + (k - j) ELSE m.pt[t][k]],
                                      !.upte = Grant(@, {t} \X (j .. (j + c - 1)), pl)]
                       [] c > 0 /\ ~IsTable(m, t) -> [m EXCEPT !.low = TRUE],
             ret |-> c]
    BY <1>1, <2>1, Zenon DEF pt_map_memory
  <2>3. c = n /\ c # 0 /\ c > 0  BY <2>1, <1>2
  <2>4. IsTable(m, t)  BY DEF RunFree, IsTable
  <2>. QED  BY <2>2, <2>3, <2>4, <1>3
<1>5. PICK g : g = Grant(m.upte, {t} \X (j .. (j + n - 1)), pl)  OBVIOUS
<1>6. r.m = [m EXCEPT !.pt[t] = row, !.upte = g]  BY <1>4, <1>5 DEF IsRecord, Shape
<1>7. /\ IsRecord(r.m) /\ r.m.pool = m.pool /\ r.m.flipped = m.flipped /\ r.m.pdt = m.pdt
      /\ r.m.upde = m.upde /\ r.m.upte = g
      /\ r.m.pt = [m.pt EXCEPT ![t] = row]
  BY <1>6 DEF IsRecord, Shape
<1>8. t \in DOMAIN m.pt /\ row = [k \in PtIdx |-> row[k]]  BY <1>3 DEF RunFree
<1>9. /\ Matrix(r.m.pt, PtIdx) /\ DOMAIN r.m.pt = DOMAIN m.pt
      /\ \A u \in DOMAIN m.pt : \A k \in PtIdx :
           r.m.pt[u][k] = IF u = t THEN row[k] ELSE m.pt[u][k]
  BY <1>7, <1>8, MatrixRow DEF Shape
<1>10. \A u \in DOMAIN m.pt : \A k \in PtIdx :
         r.m.pt[u][k] = IF u = t /\ k \in j .. (j + n - 1)
                        THEN paddr + (k - j) ELSE m.pt[u][k]
  BY <1>9, <1>3
<1>11. Shape(r.m)  BY <1>7, <1>9 DEF Shape
<1>. QED  BY <1>1, <1>4, <1>5, <1>7, <1>9, <1>10, <1>11 DEF PagesPut

\* pt_map_memory of one page fails if its entry is not free.
LEMMA PtMapNot ==
  ASSUME NEW m, NEW t, NEW i, NEW paddr, NEW v, NEW j \in PtIdx, pt_idx(v) = j,
         ~RunFree(m, t, i, j, 1), ~CanMapLow(m, t, j, 1), NEW pl
  PROVE  pt_map_memory(m, t, i, paddr, v, 1, pl) = [m |-> m, ret |-> 0]
<1>1. j \in Nat /\ j .. (j + 1 - 1) = {j}  BY Sizes DEF PtIdx
<1>2. ~CanMap(m, t, i, j, 1)  BY <1>1 DEF CanMap, RunFree, IsTable
<1>3. Max({c \in 0 .. 1 : \/ c = 0 \/ CanMap(m, t, i, j, c)
                           \/ CanMapLow(m, t, j, c)}) = 0
  <2>. DEFINE T == {c \in 0 .. 1 : \/ c = 0 \/ CanMap(m, t, i, j, c)
                                  \/ CanMapLow(m, t, j, c)}
  <2>1. T = {0}  BY <1>2
  <2>2. T \in SUBSET Nat /\ 0 \in T /\ \A y \in T : y <= 0  BY <2>1
  <2>. QED  BY <2>2, MaxOf
<1>. QED  BY <1>3 DEF pt_map_memory

\* At address 0 it succeeds when the word there is not that of a present entry.
LEMMA PtMapLow ==
  ASSUME NEW m, Shape(m), Identity \notin DOMAIN m.pt, NEW i, NEW paddr, NEW v,
         pt_idx(v) = 0, NEW pl, NEW r, r = pt_map_memory(m, Identity, i, paddr, v, 1, pl)
  PROVE  \/ r = [m |-> m, ret |-> 0]
         \/ r.ret = 1 /\ SameTables(m, r.m)
<1>0. 0 \in PtIdx  BY Sizes
<1>1. ~RunFree(m, Identity, i, 0, 1)  BY DEF RunFree
<1>2. CASE ~CanMapLow(m, Identity, 0, 1)
  BY <1>0, <1>1, <1>2, PtMapNot
<1>3. CASE CanMapLow(m, Identity, 0, 1)
  <2>1. PICK c : c = Max({x \in 0 .. 1 : \/ x = 0 \/ CanMap(m, Identity, i, 0, x)
                                        \/ CanMapLow(m, Identity, 0, x)})
    OBVIOUS
  <2>2. c = 1
    <3>. DEFINE T == {x \in 0 .. 1 : \/ x = 0 \/ CanMap(m, Identity, i, 0, x)
                                     \/ CanMapLow(m, Identity, 0, x)}
    <3>1. T \in SUBSET Nat /\ 1 \in T /\ \A y \in T : y <= 1  BY <1>3
    <3>. QED  BY <3>1, <2>1, MaxOf
  <2>3. r = [m   |-> CASE c = 0 -> m
                       [] c > 0 /\ IsTable(m, Identity) ->
                            [m EXCEPT !.pt[Identity] =
                                        [k \in PtIdx |->
                                           IF k \in 0 .. (0 + c - 1)
                                           THEN paddr + (k - 0) ELSE m.pt[Identity][k]],
                                      !.upte = Grant(@, {Identity} \X (0 .. (0 + c - 1)), pl)]
                       [] c > 0 /\ ~IsTable(m, Identity) -> [m EXCEPT !.low = TRUE],
             ret |-> c]
    BY <2>1, Zenon DEF pt_map_memory
  <2>4. ~IsTable(m, Identity)  BY DEF IsTable
  <2>5. r.ret = 1 /\ r.m = [m EXCEPT !.low = TRUE]
    <3>1. PICK w : w = [m EXCEPT !.pt[Identity] =
                                   [k \in PtIdx |->
                                      IF k \in 0 .. (0 + c - 1)
                                      THEN paddr + (k - 0) ELSE m.pt[Identity][k]],
                                 !.upte = Grant(@, {Identity} \X (0 .. (0 + c - 1)), pl)]
      OBVIOUS
    <3>2. PICK z : z = [m EXCEPT !.low = TRUE]  OBVIOUS
    <3>3. PICK b : b = IsTable(m, Identity)  OBVIOUS
    <3>4. r = [m   |-> CASE c = 0 -> m [] c > 0 /\ b -> w [] c > 0 /\ ~b -> z,
               ret |-> c]
      BY <2>3, <3>1, <3>2, <3>3, Zenon
    <3>5. ~b  BY <3>3, <2>4
    <3>6. r.ret = 1 /\ r.m = z  BY <3>4, <3>5, <2>2
    <3>. QED  BY <3>6, <3>2
  <2>. QED  BY <2>5 DEF SameTables, Shape, IsRecord
<1>. QED  BY <1>2, <1>3

\* n is m with one more page table, f, which is empty.
TableAdded(m, n, f) ==
  /\ Shape(n) /\ n.pool = m.pool /\ n.flipped = m.flipped /\ n.pdt = m.pdt
  /\ n.upde = m.upde /\ n.upte = m.upte
  /\ DOMAIN n.pt = DOMAIN m.pt \cup {f}
  /\ \A k \in PtIdx : n.pt[f][k] = Absent
  /\ \A u \in DOMAIN m.pt : \A k \in PtIdx : n.pt[u][k] = m.pt[u][k]

\* A new page table, of a frame that was none, is empty.
LEMMA AddTable ==
  ASSUME NEW m, Shape(m),
         m.upte \subseteq (DOMAIN m.pt) \X PtIdx, NEW f, f \notin DOMAIN m.pt
  PROVE  TableAdded(m, NewTable(m, f), f)
<1>1. PICK n : n = NewTable(m, f)  OBVIOUS
<1>2. PICK r : r = [k \in PtIdx |-> Absent]  OBVIOUS
<1>3. PICK h : h = m.pt  OBVIOUS
<1>4. PICK g : g = [u \in DOMAIN h \cup {f} |-> IF u = f THEN r ELSE h[u]]  OBVIOUS
<1>5. n = [m EXCEPT !.pt = g, !.upte = m.upte \ ({f} \X PtIdx)]
  BY <1>1, <1>2, <1>3, <1>4 DEF NewTable, IsRecord, Shape
<1>6. m.upte \ ({f} \X PtIdx) = m.upte  OBVIOUS
<1>7. /\ IsRecord(n) /\ n.pool = m.pool /\ n.flipped = m.flipped /\ n.pdt = m.pdt
      /\ n.upde = m.upde /\ n.upte = m.upte /\ n.pt = g
  BY <1>5, <1>6 DEF IsRecord, Shape
<1>8. r = [k \in PtIdx |-> r[k]]  BY <1>2
<1>9. /\ Matrix(g, PtIdx) /\ DOMAIN g = DOMAIN h \cup {f}
      /\ \A u \in DOMAIN g : \A k \in PtIdx : g[u][k] = IF u = f THEN r[k] ELSE h[u][k]
  <2>1. Matrix(h, PtIdx)  BY <1>3 DEF Shape
  <2>2. /\ g = [u \in DOMAIN g |-> g[u]] /\ DOMAIN g = DOMAIN h \cup {f}
        /\ \A u \in DOMAIN g : g[u] = IF u = f THEN r ELSE h[u]
    BY <1>4
  <2>. QED  BY <2>1, <2>2, <1>8, MatrixAdd
<1>10. \A k \in PtIdx : r[k] = Absent  BY <1>2
<1>11. Shape(n)  BY <1>3, <1>7, <1>9 DEF Shape
<1>. QED  BY <1>1, <1>3, <1>7, <1>9, <1>10, <1>11 DEF TableAdded

\* n is m with table t in place i of directory d.
PdeSet(m, n, d, i, t, pl) ==
  /\ Shape(n) /\ n.pool = m.pool /\ n.flipped = m.flipped /\ n.pt = m.pt /\ n.upte = m.upte
  /\ n.upde = Grant(m.upde, {<<d, i>>}, pl)
  /\ DOMAIN n.pdt = DOMAIN m.pdt
  /\ \A e \in DOMAIN m.pdt : \A k \in PdtIdx :
       n.pdt[e][k] = IF e = d /\ k = i THEN t ELSE m.pdt[e][k]

\* create_pdt_entry writes one entry of a directory.
LEMMA CreatePde ==
  ASSUME NEW m, Shape(m), NEW d \in DOMAIN m.pdt, NEW i \in PdtIdx, NEW t, NEW pl
  PROVE  PdeSet(m, create_pdt_entry(m, d, i, t, pl), d, i, t, pl)
<1>1. PICK n : n = create_pdt_entry(m, d, i, t, pl)  OBVIOUS
<1>2. PICK h : h = m.pdt  OBVIOUS
<1>3. PICK r : r = [h[d] EXCEPT ![i] = t]  OBVIOUS
<1>4. PICK g : g = [h EXCEPT ![d] = r]  OBVIOUS
<1>5. PICK up : up = Grant(m.upde, {<<d, i>>}, pl)  OBVIOUS
<1>6. n = [m EXCEPT !.pdt = g, !.upde = up]
  BY <1>1, <1>2, <1>3, <1>4, <1>5 DEF create_pdt_entry, IsRecord, Shape
<1>7. /\ IsRecord(n) /\ n.pool = m.pool /\ n.flipped = m.flipped /\ n.pt = m.pt /\ n.upte = m.upte
      /\ n.upde = up /\ n.pdt = g
  BY <1>6 DEF IsRecord, Shape
<1>8. Matrix(h, PdtIdx) /\ d \in DOMAIN h  BY <1>2 DEF Shape
<1>9. h[d] = [k \in PdtIdx |-> h[d][k]]  BY <1>8 DEF Matrix
<1>10. /\ r = [k \in PdtIdx |-> r[k]]
       /\ \A k \in PdtIdx : r[k] = IF k = i THEN t ELSE h[d][k]
  BY <1>3, <1>9
<1>11. /\ Matrix(g, PdtIdx) /\ DOMAIN g = DOMAIN h
       /\ \A e \in DOMAIN h : \A k \in PdtIdx : g[e][k] = IF e = d THEN r[k] ELSE h[e][k]
  BY <1>4, <1>8, <1>10, MatrixRow
<1>12. Shape(n)  BY <1>7, <1>11 DEF Shape
<1>. QED  BY <1>1, <1>2, <1>5, <1>7, <1>10, <1>11, <1>12 DEF PdeSet

-----------------------------------------------------------------------------
(***************************************************************************)
(* pdt_map_memory within one page table.                                   *)
(***************************************************************************)

\* n is m with c pages from paddr on mapped from entry j on of the table t in
\* place i of directory d, which m has but perhaps not in that place.
MapsInto(m, n, d, i, t, j, paddr, c, pl) ==
  /\ Shape(n) /\ DOMAIN n.pdt = DOMAIN m.pdt
  /\ \A e \in DOMAIN m.pdt : \A k \in PdtIdx :
       n.pdt[e][k] = IF e = d /\ k = i THEN t ELSE m.pdt[e][k]
  /\ n.pool = m.pool /\ n.flipped = m.flipped /\ DOMAIN n.pt = DOMAIN m.pt
  /\ n.upde = IF m.pdt[d][i] = Absent THEN Grant(m.upde, {<<d, i>>}, pl)
              ELSE m.upde
  /\ \A u \in DOMAIN m.pt : \A k \in PtIdx :
       n.pt[u][k] = IF u = t /\ k \in j .. (j + c - 1)
                    THEN paddr + (k - j) ELSE m.pt[u][k]
  /\ n.upte = Grant(m.upte, {t} \X (j .. (j + c - 1)), pl)

\* The part of an iteration after the table has been found.
LEMMA MapInto ==
  ASSUME NEW m, Shape(m), m.pt[KernelPt][TmpIdx] = Absent,
         NEW d \in DOMAIN m.pdt, NEW i \in PdtIdx, NEW j \in PtIdx, NEW v, pt_idx(v) = j,
         NEW t, t # Absent, m.pdt[d][i] \in {Absent, t},
         t = KernelPt => i = KernelIdx,
         NEW paddr \in Nat, NEW c \in Nat, c > 0, j + c <= PtEntries,
         RunFree(m, t, i, j, c), NEW pl, NEW a, NEW r, NEW n,
         a = kernel_map_temporary_memory(m, t),
         r = pt_map_memory(a, t, i, paddr, v, c, pl),
         n = kernel_set_temporary_entry(SetPde(r.m, d, i, t, pl), Absent)
  PROVE  r.ret = c /\ MapsInto(m, n, d, i, t, j, paddr, c, pl)
<1>1. SlotSet(m, a, t)  BY SetSlot
<1>2. \A k \in j .. (j + c - 1) : k \in PtIdx /\ ~(t = KernelPt /\ k = TmpIdx)
  <2>1. j .. (j + c - 1) \subseteq PtIdx  BY Sizes DEF PtIdx
  <2>. QED  BY <2>1 DEF RunFree, IsTmp
<1>3. Shape(a) /\ RunFree(a, t, i, j, c)  BY <1>1, <1>2 DEF RunFree, SlotSet
<1>4. r.ret = c /\ PagesPut(a, r.m, t, j, paddr, c, pl)
  BY <1>3, PtMap
<1>5. PICK b : b = r.m  OBVIOUS
<1>6. PICK s : s = SetPde(b, d, i, t, pl)  OBVIOUS
<1>7. Shape(b) /\ b.pdt = m.pdt /\ b.upde = m.upde
  BY <1>1, <1>4, <1>5 DEF SlotSet, PagesPut
<1>8. /\ Shape(s) /\ s.pool = b.pool /\ s.flipped = b.flipped /\ s.pt = b.pt /\ s.upte = b.upte
      /\ s.upde = IF m.pdt[d][i] = Absent THEN Grant(m.upde, {<<d, i>>}, pl)
                  ELSE m.upde
      /\ DOMAIN s.pdt = DOMAIN m.pdt
      /\ \A e \in DOMAIN m.pdt : \A k \in PdtIdx :
           s.pdt[e][k] = IF e = d /\ k = i THEN t ELSE m.pdt[e][k]
  <2>2. CASE m.pdt[d][i] = Absent
    <3>1. s = create_pdt_entry(b, d, i, t, pl)  BY <1>7, <2>2, <1>6 DEF SetPde
    <3>2. PdeSet(b, s, d, i, t, pl)  BY <3>1, <1>7, CreatePde
    <3>. QED  BY <3>2, <1>7, <2>2 DEF PdeSet
  <2>3. CASE m.pdt[d][i] # Absent
    <3>1. s = b  BY <1>7, <2>3, <1>6 DEF SetPde
    <3>. QED  BY <3>1, <1>7, <2>3
  <2>. QED  BY <2>2, <2>3
<1>9. SlotSet(s, n, Absent)  BY <1>5, <1>6, <1>8, SetSlot
<1>10. DOMAIN s.pt = DOMAIN m.pt /\ DOMAIN b.pt = DOMAIN m.pt /\ DOMAIN a.pt = DOMAIN m.pt
  BY <1>1, <1>4, <1>5, <1>8 DEF SlotSet, PagesPut
<1>11. \A u \in DOMAIN m.pt : \A k \in PtIdx :
         n.pt[u][k] = IF u = t /\ k \in j .. (j + c - 1)
                      THEN paddr + (k - j) ELSE m.pt[u][k]
  <2>. SUFFICES ASSUME NEW u \in DOMAIN m.pt, NEW k \in PtIdx
                PROVE  n.pt[u][k] = IF u = t /\ k \in j .. (j + c - 1)
                                    THEN paddr + (k - j) ELSE m.pt[u][k]
    OBVIOUS
  <2>1. n.pt[u][k] = IF u = KernelPt /\ k = TmpIdx THEN Absent ELSE b.pt[u][k]
    BY <1>9, <1>10, <1>8 DEF SlotSet
  <2>2. b.pt[u][k] = IF u = t /\ k \in j .. (j + c - 1)
                     THEN paddr + (k - j) ELSE a.pt[u][k]
    BY <1>4, <1>5, <1>10 DEF PagesPut
  <2>3. a.pt[u][k] = IF u = KernelPt /\ k = TmpIdx THEN t ELSE m.pt[u][k]
    BY <1>1 DEF SlotSet
  <2>. QED  BY <2>1, <2>2, <2>3, <1>2
<1>12. n.upte = Grant(m.upte, {t} \X (j .. (j + c - 1)), pl)
  BY <1>1, <1>4, <1>5, <1>8, <1>9 DEF SlotSet, PagesPut
<1>13. n.pool = m.pool /\ n.flipped = m.flipped  BY <1>1, <1>4, <1>5, <1>8, <1>9 DEF SlotSet, PagesPut
<1>14. Shape(n) /\ n.pdt = s.pdt /\ n.upde = s.upde /\ DOMAIN n.pt = DOMAIN m.pt
  BY <1>9, <1>10 DEF SlotSet
<1>. QED  BY <1>4, <1>8, <1>11, <1>12, <1>13, <1>14 DEF MapsInto

\* n is m with c pages from paddr on mapped from entry j on of the table in
\* place i of directory d, a new table if there was none.
MapsTo(m, n, d, i, j, paddr, c, pl) ==
  LET t == n.pdt[d][i]
  IN  /\ Shape(n) /\ DOMAIN n.pdt = DOMAIN m.pdt /\ t # Absent
      /\ \A e \in DOMAIN m.pdt : \A k \in PdtIdx :
           ~(e = d /\ k = i) => n.pdt[e][k] = m.pdt[e][k]
      /\ \/ /\ m.pdt[d][i] = Absent
            /\ t \in m.pool /\ n.flipped = m.flipped /\ n.pool = m.pool \ {t}
            /\ n.upde = Grant(m.upde, {<<d, i>>}, pl)
            /\ DOMAIN n.pt = DOMAIN m.pt \cup {t}
            /\ \A k \in PtIdx : n.pt[t][k] = IF k \in j .. (j + c - 1)
                                             THEN paddr + (k - j) ELSE Absent
         \/ /\ m.pdt[d][i] = t /\ RunFree(m, t, i, j, c)
            /\ n.pool = m.pool /\ n.flipped = m.flipped /\ n.upde = m.upde /\ DOMAIN n.pt = DOMAIN m.pt
            /\ \A k \in PtIdx : n.pt[t][k] = IF k \in j .. (j + c - 1)
                                             THEN paddr + (k - j) ELSE m.pt[t][k]
      /\ \A u \in DOMAIN m.pt : \A k \in PtIdx : u # t => n.pt[u][k] = m.pt[u][k]
      /\ n.upte = Grant(m.upte, {t} \X (j .. (j + c - 1)), pl)

\* Mapping a page there fails: no frame for a table, or the entry is in use.
MapFails(m, d, i, j) ==
  \/ m.pdt[d][i] = Absent /\ m.pool = {}
  \/ m.pdt[d][i] # Absent /\ ~RunFree(m, m.pdt[d][i], i, j, 1)

\* What the operations below need of a memory.
Ready(m, F) ==
  /\ F \in SUBSET (Nat \ {0}) /\ Shape(m) /\ m.pool \subseteq F
  /\ m.pool \cap DOMAIN m.pt = {} /\ m.upte \subseteq (DOMAIN m.pt) \X PtIdx
  /\ m.pt[KernelPt][TmpIdx] = Absent

\* Pages may be asked for at entry j of place i of directory d, and one
\* table is enough for all of them.
Place(m, d, i, j, c) ==
  /\ d \in DOMAIN m.pdt /\ i \in PdtIdx /\ j \in PtIdx
  /\ c \in Nat /\ c > 0 /\ j + c <= PtEntries
  /\ m.pdt[d][i] = KernelPt => i = KernelIdx
  /\ m.pdt[d][i] = Absent => i # KernelIdx
  /\ m.pdt[d][i] # Identity
  /\ m.pdt[d][i] = Absent \/ c = 1 \/ RunFree(m, m.pdt[d][i], i, j, c)

\* The result r of such a request.
MapResult(m, r, d, i, j, paddr, c, pl) ==
  \/ r.ret = 0 /\ r.m = m /\ MapFails(m, d, i, j)
  \/ r.ret = c /\ MapsTo(m, r.m, d, i, j, paddr, c, pl)

\* The loop before its first iteration.
Start(m) == [m |-> m, mapped |-> 0, over |-> FALSE, ret |-> 0]

\* The end r of an iteration that began in l, when pt_map_memory returned q and
\* the temporary slot held e.
Iterated(l, q, e, d, i, t, n, pl, r) ==
  /\ q.ret = 0 =>
       r = [l EXCEPT !.m = kernel_set_temporary_entry(q.m, e), !.over = TRUE]
  /\ q.ret # 0 =>
       r = [m |-> kernel_set_temporary_entry(SetPde(q.m, d, i, t, pl), e),
            mapped |-> l.mapped + q.ret, over |-> l.mapped + q.ret = n,
            ret |-> IF l.mapped + q.ret = n THEN n ELSE 0]

\* What an iteration comes to once there is a table.
LEMMA InTable ==
  ASSUME NEW l, NEW find, NEW d, NEW i, NEW paddr, NEW v, NEW n, NEW pl,
         NEW t, find.t = t, t # Absent,
         NEW a, a = kernel_map_temporary_memory(find.m, t),
         NEW q, q = pt_map_memory(a, t, i, paddr, v, n - l.mapped, pl),
         NEW e, e = kernel_get_temporary_entry(l.m),
         NEW r, r = MapInTable(l, find, d, i, paddr, v, n, pl)
  PROVE  Iterated(l, q, e, d, i, t, n, pl, r)
BY Zenon DEF MapInTable, Iterated

\* One iteration finishes the call when the pages are in one table.
LEMMA FirstIteration ==
  ASSUME NEW F, NEW m, Ready(m, F), NEW d, NEW i, NEW j, NEW c, Place(m, d, i, j, c),
         NEW v \in Nat, pdt_idx(v) = i, pt_idx(v) = j, NEW paddr \in Nat, NEW pl,
         NEW l, l = Start(m), NEW r, r = pdt_map_table(l, d, paddr, v, c, pl)
  PROVE  r.over = TRUE /\ MapResult(m, r, d, i, j, paddr, c, pl)
<1>. /\ d \in DOMAIN m.pdt /\ i \in PdtIdx /\ j \in PtIdx
     /\ c \in Nat /\ c > 0 /\ j + c <= PtEntries
     /\ m.pdt[d][i] = KernelPt => i = KernelIdx
     /\ m.pdt[d][i] = Absent => i # KernelIdx
     /\ m.pdt[d][i] # Identity
     /\ m.pdt[d][i] = Absent \/ c = 1 \/ RunFree(m, m.pdt[d][i], i, j, c)
  BY DEF Place
<1>. l = [m |-> m, mapped |-> 0, over |-> FALSE, ret |-> 0]  BY DEF Start
<1>. SUFFICES /\ r.over = TRUE
              /\ \/ r.ret = 0 /\ r.m = m /\ MapFails(m, d, i, j)
                 \/ r.ret = c /\ MapsTo(m, r.m, d, i, j, paddr, c, pl)
  BY DEF MapResult
<1>1. l.m = m /\ l.mapped = 0 /\ l.over = FALSE /\ l.ret = 0  OBVIOUS
<1>2. v + 0 = v /\ paddr + 0 = paddr /\ c - 0 = c /\ 0 + c = c  OBVIOUS
<1>3. PICK al : al = pfa_allocate(m, 1)  OBVIOUS
<1>4. kernel_get_temporary_entry(m) = Absent  BY DEF kernel_get_temporary_entry, Ready
<1>5. \/ al.ret = 0 /\ al.m = m /\ m.pool = {}
      \/ /\ al.ret \in m.pool
         /\ al.m.flipped = m.flipped /\ al.m.pool = m.pool \ {al.ret}
         /\ IsRecord(al.m) /\ al.m.pdt = m.pdt /\ al.m.pt = m.pt
         /\ al.m.upde = m.upde /\ al.m.upte = m.upte
  BY <1>3, AllocateOne DEF Ready, Shape
<1>10. PICK find : find = FindTable(m, d, i)  OBVIOUS
<1>11. /\ find.t = Absent => r = [l EXCEPT !.over = TRUE]
       /\ find.t # Absent => r = MapInTable(l, find, d, i, paddr, v, c, pl)
  <2>1. v + l.mapped = v /\ paddr + l.mapped = paddr /\ find = FindTable(l.m, d, i)
    BY <1>1, <1>2, <1>10
  <2>2. r = MapInTable(l, find, d, i, paddr, v, c, pl)  BY <2>1, <1>1 DEF pdt_map_table
  <2>3. find.t = Absent => r = [l EXCEPT !.over = TRUE]  BY <2>2 DEF MapInTable
  <2>. QED  BY <2>2, <2>3
<1>6. CASE m.pdt[d][i] = Absent /\ al.ret = 0
  <2>1. r = [l EXCEPT !.over = TRUE]
    <3>1. find.t = Absent  BY <1>3, <1>6, <1>10 DEF FindTable
    <3>. QED  BY <3>1, <1>11
  <2>2. m.pool = {}  BY <1>5, <1>6 DEF Ready
  <2>. QED  BY <2>1, <2>2, <1>1, <1>6 DEF MapFails
<1>7. CASE m.pdt[d][i] = Absent /\ al.ret # 0
  <2>1. PICK t : t = al.ret  OBVIOUS
  <2>2. t \in m.pool /\ t # 0 /\ t \in Nat /\ t \notin DOMAIN m.pt
    BY <1>5, <1>7, <2>1 DEF Ready
  <2>3. PICK b : b = NewTable(al.m, t)  OBVIOUS
  <2>4. TableAdded(al.m, b, t)
    <3>1. Shape(al.m) /\ t \notin DOMAIN al.m.pt
          /\ al.m.upte \subseteq (DOMAIN al.m.pt) \X PtIdx
      BY <1>5, <1>7, <2>2 DEF Shape, Ready
    <3>. QED  BY <3>1, <2>3, AddTable
  <2>5. PICK a : a = kernel_map_temporary_memory(b, t)  OBVIOUS
  <2>6. PICK q : q = pt_map_memory(a, t, i, paddr, v, c, pl)  OBVIOUS
  <2>7. PICK n : n = kernel_set_temporary_entry(SetPde(q.m, d, i, t, pl), Absent)
    OBVIOUS
  <2>8. b.pdt = m.pdt /\ b.upde = m.upde /\ b.upte = m.upte /\ Shape(b)
        /\ b.flipped = m.flipped /\ b.pool = m.pool \ {t} /\ DOMAIN b.pt = DOMAIN m.pt \cup {t}
    BY <2>4, <1>5, <1>7, <2>1 DEF TableAdded
  <2>9. /\ \A k \in PtIdx : b.pt[t][k] = Absent
        /\ \A u \in DOMAIN m.pt : \A k \in PtIdx : b.pt[u][k] = m.pt[u][k]
    BY <2>4, <1>5, <1>7 DEF TableAdded
  <2>10. b.pt[KernelPt][TmpIdx] = Absent  BY <2>9, Sizes DEF Ready, Shape
  <2>11. t # Absent /\ t # KernelPt  BY <2>2 DEF Absent, KernelPt
  <2>12. RunFree(b, t, i, j, c)
    <3>1. j .. (j + c - 1) \subseteq PtIdx  BY Sizes DEF PtIdx
    <3>2. i # KernelIdx  BY <1>7
    <3>. QED  BY <3>1, <3>2, <2>8, <2>9 DEF RunFree, IsTmp
  <2>13. q.ret = c /\ MapsInto(b, n, d, i, t, j, paddr, c, pl)
    <3>1. d \in DOMAIN b.pdt /\ b.pdt[d][i] \in {Absent, t}  BY <2>8, <1>7
    <3>. QED  BY <2>5, <2>6, <2>7, <2>8, <2>10, <2>11, <2>12, <3>1, MapInto
  <2>14. r = [m |-> n, mapped |-> c, over |-> TRUE, ret |-> c]
    <3>1. find.m = b /\ find.t = t  BY <1>3, <1>7, <1>10, <2>1, <2>3 DEF FindTable
    <3>2. r = MapInTable(l, find, d, i, paddr, v, c, pl)  BY <3>1, <2>11, <1>11
    <3>3. a = kernel_map_temporary_memory(find.m, t)
          /\ q = pt_map_memory(a, t, i, paddr, v, c - l.mapped, pl)
          /\ Absent = kernel_get_temporary_entry(l.m)
          /\ q.ret # 0 /\ l.mapped + q.ret = c
      BY <1>1, <1>2, <1>4, <2>5, <2>6, <2>13, <3>1
    <3>4. Iterated(l, q, Absent, d, i, t, c, pl, r)  BY <3>1, <3>2, <3>3, <2>11, InTable
    <3>. QED  BY <3>3, <3>4, <2>7 DEF Iterated
  <2>15. MapsTo(m, n, d, i, j, paddr, c, pl)
    <3>1. n.pdt[d][i] = t /\ Shape(n) /\ DOMAIN n.pdt = DOMAIN m.pdt
      BY <2>13, <2>8 DEF MapsInto
    <3>2. \A e \in DOMAIN m.pdt : \A k \in PdtIdx :
            ~(e = d /\ k = i) => n.pdt[e][k] = m.pdt[e][k]
      BY <2>13, <2>8 DEF MapsInto
    <3>3. /\ n.flipped = m.flipped /\ n.pool = m.pool \ {t} /\ DOMAIN n.pt = DOMAIN m.pt \cup {t}
          /\ n.upde = Grant(m.upde, {<<d, i>>}, pl)
      BY <2>13, <2>8, <1>7 DEF MapsInto
    <3>4. \A k \in PtIdx : n.pt[t][k] = IF k \in j .. (j + c - 1)
                                        THEN paddr + (k - j) ELSE Absent
      BY <2>13, <2>8, <2>9 DEF MapsInto
    <3>5. \A u \in DOMAIN m.pt : \A k \in PtIdx : u # t => n.pt[u][k] = m.pt[u][k]
      BY <2>13, <2>8, <2>9 DEF MapsInto
    <3>6. n.upte = Grant(m.upte, {t} \X (j .. (j + c - 1)), pl)
      BY <2>13, <2>8 DEF MapsInto
    <3>. QED  BY <3>1, <3>2, <3>3, <3>4, <3>5, <3>6, <2>2, <2>11, <1>7 DEF MapsTo
  <2>. QED  BY <2>14, <2>15
<1>8. CASE m.pdt[d][i] # Absent
  <2>1. PICK t : t = m.pdt[d][i]  OBVIOUS
  <2>2. PICK a : a = kernel_map_temporary_memory(m, t)  OBVIOUS
  <2>3. PICK q : q = pt_map_memory(a, t, i, paddr, v, c, pl)  OBVIOUS
  <2>4. SlotSet(m, a, t)  BY <2>2, SetSlot DEF Ready
  <2>7. find.m = m /\ find.t = t  BY <1>8, <1>10, <2>1 DEF FindTable
  <2>8. r = MapInTable(l, find, d, i, paddr, v, c, pl)  BY <2>7, <2>1, <1>8, <1>11
  <2>9. a = kernel_map_temporary_memory(find.m, t)
        /\ q = pt_map_memory(a, t, i, paddr, v, c - l.mapped, pl)
        /\ Absent = kernel_get_temporary_entry(l.m)
    BY <1>1, <1>2, <1>4, <2>2, <2>3, <2>7
  <2>10. Iterated(l, q, Absent, d, i, t, c, pl, r)
    BY <2>1, <2>7, <2>8, <2>9, <1>8, InTable
  <2>5. CASE RunFree(m, t, i, j, c)
    <3>1. PICK n : n = kernel_set_temporary_entry(SetPde(q.m, d, i, t, pl), Absent)
      OBVIOUS
    <3>2. q.ret = c /\ MapsInto(m, n, d, i, t, j, paddr, c, pl)
      <4>1. /\ Shape(m) /\ m.pt[KernelPt][TmpIdx] = Absent /\ t # Absent
            /\ m.pdt[d][i] \in {Absent, t} /\ (t = KernelPt => i = KernelIdx)
        BY <2>1, <1>8 DEF Ready
      <4>. QED  BY <2>2, <2>3, <2>5, <3>1, <4>1, MapInto
    <3>3. r = [m |-> n, mapped |-> c, over |-> TRUE, ret |-> c]
      <4>1. q.ret # 0 /\ l.mapped + q.ret = c  BY <3>2, <1>1, <1>2
      <4>. QED  BY <4>1, <2>10, <3>1 DEF Iterated
    <3>4. MapsTo(m, n, d, i, j, paddr, c, pl)
      <4>1. n.pdt[d][i] = t  BY <3>2 DEF MapsInto
      <4>2. t \in DOMAIN m.pt  BY <2>5 DEF RunFree
      <4>. QED  BY <4>1, <4>2, <3>2, <2>1, <2>5, <1>8 DEF MapsTo, MapsInto
    <3>. QED  BY <3>3, <3>4
  <2>6. CASE ~RunFree(m, t, i, j, c)
    <3>1. c = 1  BY <2>6, <2>1, <1>8
    <3>2. ~RunFree(a, t, i, j, 1)
      <4>1. j \in Nat /\ j .. (j + 1 - 1) = {j}  BY Sizes DEF PtIdx
      <4>2. t = KernelPt /\ j = TmpIdx => IsTmp(i, j)  BY <2>1 DEF IsTmp
      <4>. QED  BY <4>1, <4>2, <3>1, <2>6, <2>4 DEF RunFree, SlotSet
    <3>3. q = [m |-> a, ret |-> 0]
      <4>1. ~CanMapLow(a, t, j, 1)  BY <2>1 DEF CanMapLow
      <4>. QED  BY <4>1, <2>3, <3>1, <3>2, PtMapNot
    <3>4. kernel_set_temporary_entry(a, Absent) = m
      <4>1. PICK b : b = kernel_set_temporary_entry(a, Absent)  OBVIOUS
      <4>2. SlotSet(a, b, kernel_get_temporary_entry(m))
        BY <4>1, <2>4, <1>4, SetSlot DEF SlotSet
      <4>3. Shape(m)  BY DEF Ready
      <4>. QED  BY <4>1, <4>2, <4>3, <2>4, SlotTwice
    <3>5. r = [l EXCEPT !.m = m, !.over = TRUE]
      <4>1. q.ret = 0 /\ q.m = a  BY <3>3
      <4>2. r
              = [l EXCEPT !.m = kernel_set_temporary_entry(q.m, Absent), !.over = TRUE]
        BY <2>10, <4>1 DEF Iterated
      <4>. QED  BY <4>1, <4>2, <3>4
    <3>. QED  BY <3>5, <3>1, <2>6, <2>1, <1>1, <1>8 DEF MapFails
  <2>. QED  BY <2>5, <2>6
<1>. QED  BY <1>6, <1>7, <1>8

\* pdt_map_memory maps all of the pages, or fails and changes nothing.
LEMMA MapMemory ==
  ASSUME NEW F, NEW m, Ready(m, F), NEW d, NEW i, NEW j, NEW c, Place(m, d, i, j, c),
         NEW v \in Nat, pdt_idx(v) = i, pt_idx(v) = j, NEW paddr \in Nat, NEW pl
  PROVE  MapResult(m, pdt_map_memory(m, d, paddr, v, c, pl), d, i, j, paddr, c, pl)
<1>1. PICK l : l = Start(m)  OBVIOUS
<1>2. PICK r : r = pdt_map_table(l, d, paddr, v, c, pl)  OBVIOUS
<1>3. r.over = TRUE /\ MapResult(m, r, d, i, j, paddr, c, pl)
  BY <1>1, <1>2, FirstIteration
<1>4. pdt_map_table(r, d, paddr, v, c, pl) = r  BY <1>3 DEF pdt_map_table
<1>5. (c = 0) = FALSE  BY DEF Place
<1>6. [m |-> m, mapped |-> 0, over |-> c = 0, ret |-> 0] = l  BY <1>1, <1>5 DEF Start
<1>7. pdt_map_memory(m, d, paddr, v, c, pl) = [m |-> r.m, ret |-> r.ret]
  BY <1>2, <1>4, <1>6 DEF pdt_map_memory
<1>. QED  BY <1>3, <1>7 DEF MapResult

\* pdt_map_memory of the kernel's page at address 0 changes no page table.
LEMMA MapLow ==
  ASSUME NEW F, NEW m, Ready(m, F), m.pdt[KernelPdt][0] = Identity,
         Identity \notin DOMAIN m.pt, NEW paddr \in Nat,
         NEW r, r = pdt_map_memory(m, KernelPdt, paddr, 0, 1, PL0)
  PROVE  \/ r.ret = 0 /\ r.m = m
         \/ r.ret = 1 /\ SameTables(m, r.m)
<1>1. PICK l : l = Start(m)  OBVIOUS
<1>2. l.m = m /\ l.mapped = 0 /\ l.over = FALSE /\ l.ret = 0  BY <1>1 DEF Start
<1>3. PICK s : s = pdt_map_table(l, KernelPdt, paddr, 0, 1, PL0)  OBVIOUS
<1>4. PICK a : a = kernel_map_temporary_memory(m, Identity)  OBVIOUS
<1>5. PICK q : q = pt_map_memory(a, Identity, 0, paddr, 0, 1, PL0)  OBVIOUS
<1>6. PICK find : find = FindTable(m, KernelPdt, 0)  OBVIOUS
<1>7. Identity # Absent /\ find.m = m /\ find.t = Identity
  BY <1>6 DEF FindTable, Identity, Absent
<1>8. kernel_get_temporary_entry(m) = Absent  BY DEF kernel_get_temporary_entry, Ready
<1>9. 0 + 0 = 0 /\ paddr + 0 = paddr /\ 1 - 0 = 1 /\ 0 + 1 = 1  OBVIOUS
<1>10. s = MapInTable(l, find, KernelPdt, 0, paddr, 0, 1, PL0)
  <2>1. 0 + l.mapped = 0 /\ paddr + l.mapped = paddr /\ find = FindTable(l.m, KernelPdt, 0)
    BY <1>2, <1>6, <1>9
  <2>. QED  BY <2>1, <1>2, <1>3, ZeroAddress DEF pdt_map_table
<1>11. Iterated(l, q, Absent, KernelPdt, 0, Identity, 1, PL0, s)
  <2>1. a = kernel_map_temporary_memory(find.m, Identity)
        /\ q = pt_map_memory(a, Identity, 0, paddr, 0, 1 - l.mapped, PL0)
        /\ Absent = kernel_get_temporary_entry(l.m)
    BY <1>2, <1>4, <1>5, <1>7, <1>8, <1>9
  <2>. QED  BY <2>1, <1>7, <1>10, InTable
<1>12. Shape(m)  BY DEF Ready
<1>13. SlotSet(m, a, Identity)  BY <1>4, <1>12, SetSlot
<1>14. Shape(a) /\ Identity \notin DOMAIN a.pt /\ a.pdt = m.pdt
  BY <1>13 DEF SlotSet
<1>15. \/ q = [m |-> a, ret |-> 0]
       \/ q.ret = 1 /\ SameTables(a, q.m)
  BY <1>5, <1>14, PtMapLow, ZeroAddress
<1>16. s.over = TRUE /\ ((s.ret = 0 /\ s.m = m) \/ (s.ret = 1 /\ SameTables(m, s.m)))
  <2>1. CASE q = [m |-> a, ret |-> 0]
    <3>1. q.ret = 0 /\ q.m = a  BY <2>1
    <3>2. PICK b : b = kernel_set_temporary_entry(a, Absent)  OBVIOUS
    <3>3. SlotSet(a, b, kernel_get_temporary_entry(m))  BY <3>2, <1>8, <1>14, SetSlot
    <3>4. b = m  BY <3>3, <1>12, <1>13, SlotTwice
    <3>5. s = [l EXCEPT !.m = b, !.over = TRUE]  BY <3>1, <3>2, <1>11 DEF Iterated
    <3>6. l = [m |-> m, mapped |-> 0, over |-> FALSE, ret |-> 0]  BY <1>1 DEF Start
    <3>. QED  BY <3>4, <3>5, <3>6
  <2>2. CASE q.ret = 1 /\ SameTables(a, q.m)
    <3>1. PICK c : c = q.m  OBVIOUS
    <3>2. SameTables(a, c) /\ q.ret # 0 /\ l.mapped + q.ret = 1  BY <3>1, <2>2, <1>2, <1>9
    <3>3. c.pdt[KernelPdt][0] # Absent  BY <3>2, <1>7, <1>14 DEF SameTables
    <3>4. SetPde(c, KernelPdt, 0, Identity, PL0) = c  BY <3>3 DEF SetPde
    <3>5. PICK b : b = kernel_set_temporary_entry(c, Absent)  OBVIOUS
    <3>6. Shape(c)  BY <3>2, <1>14 DEF SameTables, Shape
    <3>7. SlotSet(c, b, kernel_get_temporary_entry(m))  BY <3>5, <3>6, <1>8, SetSlot
    <3>8. SameTables(m, b)  BY <3>2, <3>7, <1>12, <1>13, SlotLow
    <3>9. s = [m |-> b, mapped |-> 1, over |-> TRUE, ret |-> 1]
      BY <3>1, <3>2, <3>4, <3>5, <1>11 DEF Iterated
    <3>. QED  BY <3>8, <3>9
  <2>. QED  BY <2>1, <2>2, <1>15
<1>17. pdt_map_table(s, KernelPdt, paddr, 0, 1, PL0) = s  BY <1>16 DEF pdt_map_table
<1>18. (1 = 0) = FALSE  OBVIOUS
<1>19. [m |-> m, mapped |-> 0, over |-> 1 = 0, ret |-> 0] = l  BY <1>1, <1>18 DEF Start
<1>20. r = [m |-> s.m, ret |-> s.ret]
  BY <1>3, <1>17, <1>19 DEF pdt_map_memory
<1>. QED  BY <1>16, <1>20

-----------------------------------------------------------------------------
(***************************************************************************)
(* pdt_kernel_find_next_vaddr.                                             *)
(***************************************************************************)

\* n pages can be mapped at v: there is no table yet, or the entries are free.
FoundAt(m, v, n) ==
  \E i \in KernelIdxs : \E j \in PtIdx :
    /\ v = (i * PtEntries) + j
    /\ Place(m, KernelPdt, i, j, n)
    /\ m.pdt[KernelPdt][i] = Absent \/ RunFree(m, m.pdt[KernelPdt][i], i, j, n)

\* pdt_kernel_find_next_vaddr returns 0 or the start of n pages of the kernel
\* that are absent and avoid the temporary slot.
LEMMA FindVaddr ==
  ASSUME NEW m, Shape(m), KernelPdt \in DOMAIN m.pdt, KernelOK(m),
         Identity \notin DOMAIN m.pt,
         NEW n \in Nat, n > 0, n <= PtEntries, NEW v, v = pdt_kernel_find_next_vaddr(m, n)
  PROVE  v = 0 \/ (v # 0 /\ FoundAt(m, v, n))
<1>. DEFINE Fits(i) == m.pdt[KernelPdt][i] = Absent \/ FreeRuns(m, i, n) # {}
            tables == {i \in KernelIdx .. (PdtEntries - 1) : Fits(i)}
<1>1. CASE tables = {}
  BY <1>1 DEF pdt_kernel_find_next_vaddr
<1>2. CASE tables # {}
  <2>1. tables \in SUBSET Nat  BY Sizes
  <2>2. PICK i : i = Min(tables)  OBVIOUS
  <2>3. i \in tables
    <3>. HIDE DEF tables
    <3>. QED  BY <1>2, <2>1, <2>2, MinOf
  <2>4. v = i * PtEntries + (IF m.pdt[KernelPdt][i] = Absent THEN 0
                             ELSE Min(FreeRuns(m, i, n)))
    BY <1>2, <2>2 DEF pdt_kernel_find_next_vaddr
  <2>5. i \in KernelIdxs /\ i \in PdtIdx /\ i \in Nat /\ i # 0
    BY <2>3, Sizes DEF KernelIdxs, PdtIdx
  <2>6. \A j \in PtIdx : (i * PtEntries) + j # 0
    <3>1. i * PtEntries \in Nat /\ i * PtEntries > 0  BY <2>5, Sizes
    <3>. QED  BY <3>1 DEF PtIdx
  <2>7. CASE m.pdt[KernelPdt][i] = Absent
    <3>1. v = (i * PtEntries) + 0 /\ 0 \in PtIdx  BY <2>4, <2>7, Sizes
    <3>2. i # KernelIdx  BY <2>7 DEF KernelOK, Absent, KernelPt
    <3>3. Place(m, KernelPdt, i, 0, n)
      BY <3>2, <2>5, <2>7, Sizes DEF Place, Absent, KernelPt, Identity
    <3>. QED  BY <3>1, <3>3, <2>5, <2>6, <2>7 DEF FoundAt
  <2>8. CASE m.pdt[KernelPdt][i] # Absent
    <3>1. FreeRuns(m, i, n) # {}  BY <2>3, <2>8
    <3>2. FreeRuns(m, i, n) \in SUBSET Nat  BY DEF FreeRuns, PtIdx
    <3>3. PICK j : j = Min(FreeRuns(m, i, n))  OBVIOUS
    <3>4. j \in FreeRuns(m, i, n)  BY <3>1, <3>2, <3>3, MinOf
    <3>5. v = (i * PtEntries) + j  BY <2>4, <2>8, <3>3
    <3>6. /\ j \in PtIdx /\ j + n <= PtEntries
          /\ \A k \in j .. (j + n - 1) :
               m.pt[m.pdt[KernelPdt][i]][k] = Absent /\ ~IsTmp(i, k)
      BY <3>4 DEF FreeRuns
    <3>7. m.pdt[KernelPdt][i] \in DOMAIN m.pt
          /\ (m.pdt[KernelPdt][i] = KernelPt => i = KernelIdx)
      <4>1. i = KernelIdx \/ i > KernelIdx  BY <2>5, Sizes DEF KernelIdxs
      <4>. QED  BY <4>1, <2>5, <2>8 DEF KernelOK, Shape
    <3>8. RunFree(m, m.pdt[KernelPdt][i], i, j, n)  BY <3>6, <3>7 DEF RunFree
    <3>9. Place(m, KernelPdt, i, j, n)  BY <3>6, <3>7, <3>8, <2>5, <2>8 DEF Place
    <3>. QED  BY <3>5, <3>6, <3>8, <3>9, <2>5, <2>6 DEF FoundAt
  <2>. QED  BY <2>7, <2>8
<1>. QED  BY <1>1, <1>2

\* Where an address was found, the kernel had a page left.
LEMMA FoundNotFull ==
  ASSUME NEW m, NEW v, NEW n \in Nat, n > 0, FoundAt(m, v, n)
  PROVE  ~KernelFull(m)
<1>1. PICK i \in KernelIdxs : \E j \in PtIdx :
        m.pdt[KernelPdt][i] = Absent \/ RunFree(m, m.pdt[KernelPdt][i], i, j, n)
  BY DEF FoundAt
<1>2. PICK j \in PtIdx :
        m.pdt[KernelPdt][i] = Absent \/ RunFree(m, m.pdt[KernelPdt][i], i, j, n)
  BY <1>1
<1>3. j \in j .. (j + n - 1)  BY DEF PtIdx
<1>4. m.pdt[KernelPdt][i] = Absent
      \/ (m.pt[m.pdt[KernelPdt][i]][j] = Absent /\ ~IsTmp(i, j))
  BY <1>2, <1>3 DEF RunFree
<1>. QED  BY <1>4 DEF KernelFull

\* The address of the last page, and its place.
LEMMA LastAddress ==
  /\ LastIdx \in PdtIdx /\ LastIdx \in KernelIdxs /\ LastIdx \notin UserIdxs
  /\ LastPage \in Nat /\ LastPage # 0
  /\ LastPage = (LastIdx * PtEntries) + TmpIdx
  /\ pdt_idx(LastPage) = LastIdx /\ pt_idx(LastPage) = TmpIdx
<1>1. LastIdx \in PdtIdx /\ LastIdx \in KernelIdxs /\ LastIdx \notin UserIdxs
  BY Sizes DEF LastIdx, PdtIdx, KernelIdxs, UserIdxs, StackIdx
<1>2. LastPage = (LastIdx * PtEntries) + TmpIdx
  BY Sizes DEF LastPage, LastIdx, TmpIdx
<1>3. TmpIdx \in PtIdx /\ TmpIdx \in Nat /\ TmpIdx # 0  BY Sizes DEF PtIdx
<1>4. LastPage \in Nat /\ pdt_idx(LastPage) = LastIdx /\ pt_idx(LastPage) = TmpIdx
  BY <1>1, <1>2, <1>3, AddressOf
<1>5. LastPage # 0
  <2>1. LastIdx \in Nat /\ LastIdx * PtEntries \in Nat  BY <1>1, Sizes DEF PdtIdx
  <2>. QED  BY <2>1, <1>2, <1>3
<1>. QED  BY <1>1, <1>2, <1>4, <1>5

\* The kernel has no page left but the last one.
LastLeft(m) ==
  \A i \in KernelIdxs : m.pdt[KernelPdt][i] # Absent /\ \A j \in PtIdx :
    m.pt[m.pdt[KernelPdt][i]][j] # Absent \/ IsTmp(i, j) \/ (i = LastIdx /\ j = TmpIdx)

\* pdt_kernel_find_next_vaddr returns the last page only when no other is left.
LEMMA FindLast ==
  ASSUME NEW m, pdt_kernel_find_next_vaddr(m, 1) = LastPage
  PROVE  LastLeft(m)
<1>. DEFINE Fits(i) == m.pdt[KernelPdt][i] = Absent \/ FreeRuns(m, i, 1) # {}
            tables == {i \in KernelIdx .. (PdtEntries - 1) : Fits(i)}
<1>1. tables # {}
  <2>1. tables = {} => pdt_kernel_find_next_vaddr(m, 1) = 0
    BY DEF pdt_kernel_find_next_vaddr
  <2>. QED  BY <2>1, LastAddress
<1>2. tables \in SUBSET Nat  BY Sizes
<1>3. PICK i : i = Min(tables)  OBVIOUS
<1>4. i \in tables /\ \A k \in tables : i <= k
  <2>. HIDE DEF tables
  <2>. QED  BY <1>1, <1>2, <1>3, MinOf
<1>5. LastPage = i * PtEntries + (IF m.pdt[KernelPdt][i] = Absent THEN 0
                                  ELSE Min(FreeRuns(m, i, 1)))
  BY <1>1, <1>3 DEF pdt_kernel_find_next_vaddr
<1>6. i \in PdtIdx /\ i \in Nat  BY <1>4, Sizes DEF PdtIdx
<1>7. FreeRuns(m, i, 1) \subseteq PtIdx /\ FreeRuns(m, i, 1) \in SUBSET Nat
  BY DEF FreeRuns, PtIdx
<1>8. m.pdt[KernelPdt][i] # Absent
  <2>1. SUFFICES ASSUME m.pdt[KernelPdt][i] = Absent PROVE FALSE  OBVIOUS
  <2>2. LastPage = (i * PtEntries) + 0 /\ 0 \in PtIdx  BY <2>1, <1>5, Sizes
  <2>3. pt_idx(LastPage) = 0  BY <2>2, <1>6, AddressOf
  <2>. QED  BY <2>3, LastAddress, Sizes
<1>9. PICK j : j = Min(FreeRuns(m, i, 1))  OBVIOUS
<1>10. j \in PtIdx /\ \A k \in FreeRuns(m, i, 1) : j <= k
  <2>1. FreeRuns(m, i, 1) # {}  BY <1>4, <1>8
  <2>. QED  BY <2>1, <1>7, <1>9, MinOf
<1>11. i = LastIdx /\ j = TmpIdx
  <2>1. LastPage = (i * PtEntries) + j  BY <1>5, <1>8, <1>9
  <2>. QED  BY <2>1, <1>6, <1>10, LastAddress, AddressOf
<1>12. ASSUME NEW k \in KernelIdxs, NEW o \in PtIdx
       PROVE  /\ m.pdt[KernelPdt][k] # Absent
              /\ \/ m.pt[m.pdt[KernelPdt][k]][o] # Absent \/ IsTmp(k, o)
                 \/ k = LastIdx /\ o = TmpIdx
  <2>1. k \in KernelIdx .. (PdtEntries - 1) /\ k \in Nat /\ k <= LastIdx
    BY <1>12, Sizes DEF KernelIdxs, LastIdx
  <2>2. o \in Nat /\ o + 1 <= PtEntries /\ o .. (o + 1 - 1) = {o} /\ o <= TmpIdx
    BY <1>12, Sizes DEF PtIdx, TmpIdx
  <2>3. m.pt[m.pdt[KernelPdt][k]][o] # Absent \/ IsTmp(k, o) \/ o \in FreeRuns(m, k, 1)
    BY <2>2, <1>12 DEF FreeRuns
  <2>4. CASE k = LastIdx
    <3>1. o \in FreeRuns(m, k, 1) => o = TmpIdx
      BY <2>2, <2>4, <1>10, <1>11, Sizes DEF PtIdx
    <3>. QED  BY <3>1, <2>3, <2>4, <1>8, <1>11
  <2>5. CASE k # LastIdx
    <3>1. k \notin tables  BY <2>1, <2>5, <1>4, <1>6, <1>11
    <3>2. ~Fits(k)  BY <3>1, <2>1
    <3>. QED  BY <3>2, <2>3
  <2>. QED  BY <2>4, <2>5
<1>. QED  BY <1>12, Sizes DEF LastLeft

\* What is kept is no page that the kernel could use.
LEMMA FullKept ==
  ASSUME NEW m, NEW n, NEW D, Keeps(m, n, D), KernelFull(m)
  PROVE  KernelFull(n)
<1>1. ASSUME NEW i \in KernelIdxs
      PROVE  /\ n.pdt[KernelPdt][i] # Absent
             /\ \A j \in PtIdx : n.pt[n.pdt[KernelPdt][i]][j] # Absent \/ IsTmp(i, j)
  <2>1. m.pdt[KernelPdt][i] # Absent
        /\ \A j \in PtIdx : m.pt[m.pdt[KernelPdt][i]][j] # Absent \/ IsTmp(i, j)
    BY <1>1 DEF KernelFull
  <2>2. /\ n.pdt[KernelPdt][i] = m.pdt[KernelPdt][i]
        /\ \A j \in PtIdx : m.pt[m.pdt[KernelPdt][i]][j] # Absent =>
             n.pt[m.pdt[KernelPdt][i]][j] = m.pt[m.pdt[KernelPdt][i]][j]
    BY <1>1, <2>1 DEF Keeps
  <2>. QED  BY <2>1, <2>2
<1>. QED  BY <1>1 DEF KernelFull

-----------------------------------------------------------------------------
(***************************************************************************)
(* pdt_unmap_kernel_memory.                                                *)
(***************************************************************************)

\* n is m without the page in entry j of table t.
PageCleared(m, n, t, j) ==
  /\ Shape(n) /\ n.pool = m.pool /\ n.flipped = m.flipped /\ n.pdt = m.pdt /\ n.upde = m.upde
  /\ n.upte = m.upte \ {<<t, j>>} /\ DOMAIN n.pt = DOMAIN m.pt
  /\ \A u \in DOMAIN m.pt : \A k \in PtIdx :
       n.pt[u][k] = IF u = t /\ k = j THEN Absent ELSE m.pt[u][k]

PtUnmapResult(m, r, t, j) ==
  /\ r.ret = 1
  /\ t \notin DOMAIN m.pt => SameTables(m, r.m)
  /\ t \in DOMAIN m.pt => PageCleared(m, r.m, t, j)

\* pt_unmap_memory of one page.
LEMMA PtUnmap ==
  ASSUME NEW m, Shape(m), NEW t, NEW i, NEW j \in PtIdx, NEW v, pt_idx(v) = j,
         ~IsTmp(i, j)
  PROVE  PtUnmapResult(m, pt_unmap_memory(m, t, i, v, 1), t, j)
<1>0. PICK r : r = pt_unmap_memory(m, t, i, v, 1)  OBVIOUS
<1>1. PICK limit : limit = IF i = KernelIdx THEN TmpIdx ELSE PtEntries  OBVIOUS
<1>2. limit - j \in Nat /\ 1 <= limit - j
  BY <1>1, Sizes DEF PtIdx, TmpIdx, IsTmp
<1>3. Min({1, limit - j}) = 1
  <2>1. PICK T : T = {1, limit - j}  OBVIOUS
  <2>2. T \in SUBSET Nat /\ T # {} /\ 1 \in T /\ \A y \in T : 1 <= y  BY <2>1, <1>2
  <2>3. Min(T) \in T /\ Min(T) <= 1  BY <2>2, MinOf
  <2>. QED  BY <2>1, <2>2, <2>3
<1>4. j .. (j + 1 - 1) = {j}  BY DEF PtIdx
<1>5. PICK h : h = m.pt  OBVIOUS
<1>6. PICK row : row = [k \in PtIdx |-> IF k \in j .. (j + 1 - 1)
                                        THEN Absent ELSE h[t][k]]
  OBVIOUS
<1>7. r = [m   |-> IF t \in DOMAIN m.pt
                   THEN [m EXCEPT !.pt[t] = row, !.upte = @ \ ({t} \X (j .. (j + 1 - 1)))]
                   ELSE [m EXCEPT !.low = @ /\ j # 0],
           ret |-> 1]
  BY <1>0, <1>1, <1>3, <1>5, <1>6 DEF pt_unmap_memory, IsTable
<1>8. ASSUME t \in DOMAIN m.pt PROVE PageCleared(m, r.m, t, j)
  <2>1. PICK n : n = r.m  OBVIOUS
  <2>2. PICK g : g = [h EXCEPT ![t] = row]  OBVIOUS
  <2>3. n = [m EXCEPT !.pt[t] = row, !.upte = @ \ ({t} \X (j .. (j + 1 - 1)))]
    BY <1>7, <1>8, <2>1
  <2>4. /\ IsRecord(n) /\ n.pool = m.pool /\ n.flipped = m.flipped /\ n.pdt = m.pdt /\ n.upde = m.upde
        /\ n.pt = g /\ n.upte = m.upte \ ({t} \X (j .. (j + 1 - 1)))
    BY <2>2, <2>3, <1>5 DEF IsRecord, Shape
  <2>5. n.upte = m.upte \ {<<t, j>>}
    <3>1. {t} \X {j} = {<<t, j>>}  OBVIOUS
    <3>. QED  BY <3>1, <2>4, <1>4
  <2>6. Matrix(h, PtIdx) /\ t \in DOMAIN h  BY <1>5, <1>8 DEF Shape
  <2>7. row = [k \in PtIdx |-> row[k]]
        /\ \A k \in PtIdx : row[k] = IF k = j THEN Absent ELSE h[t][k]
    BY <1>6, <1>4
  <2>8. /\ Matrix(g, PtIdx) /\ DOMAIN g = DOMAIN h
        /\ \A u \in DOMAIN h : \A k \in PtIdx : g[u][k] = IF u = t THEN row[k] ELSE h[u][k]
    BY <2>2, <2>6, <2>7, MatrixRow
  <2>9. Shape(n)  BY <2>4, <2>8, <1>5 DEF Shape
  <2>. QED  BY <2>1, <2>4, <2>5, <2>7, <2>8, <2>9, <1>5 DEF PageCleared
<1>9. ASSUME t \notin DOMAIN m.pt PROVE SameTables(m, r.m)
  <2>1. r.m = [m EXCEPT !.low = @ /\ j # 0]  BY <1>7, <1>9
  <2>. QED  BY <2>1 DEF SameTables, Shape, IsRecord
<1>. QED  BY <1>0, <1>7, <1>8, <1>9 DEF PtUnmapResult

\* What unmapping one page of the kernel may come to.
UnmapResult(m, r, i, j) ==
  \/ m.pdt[KernelPdt][i] = Absent /\ r.m = m
  \/ /\ m.pdt[KernelPdt][i] # Absent /\ r.ret = "done"
     /\ m.pdt[KernelPdt][i] \notin DOMAIN m.pt => SameTables(m, r.m)
     /\ m.pdt[KernelPdt][i] \in DOMAIN m.pt
          => PageCleared(m, r.m, m.pdt[KernelPdt][i], j)

\* pdt_unmap_kernel_memory of one page hangs only if there is no page table,
\* and it clears the entry of that page, if it is not the last, and no other.
LEMMA UnmapMemory ==
  ASSUME NEW m, Shape(m), m.pt[KernelPt][TmpIdx] = Absent,
         NEW i \in PdtIdx, NEW j \in PtIdx, ~IsTmp(i, j),
         NEW v \in Nat, pdt_idx(v) = i, pt_idx(v) = j, v # LastPage
  PROVE  UnmapResult(m, pdt_unmap_kernel_memory(m, v), i, j)
<1>1. PICK t : t = m.pdt[KernelPdt][i]  OBVIOUS
<1>2. PICK a : a = kernel_map_temporary_memory(m, t)  OBVIOUS
<1>3. PICK u : u = pt_unmap_memory(a, t, i, v, 1)  OBVIOUS
<1>4. PICK b : b = kernel_set_temporary_entry(u.m, kernel_get_temporary_entry(m))
  OBVIOUS
<1>5. PICK w : w = pdt_unmap_table(m, KernelPdt, v, 1)  OBVIOUS
<1>6. PICK r : r = pdt_unmap_kernel_memory(m, v)  OBVIOUS
<1>7. r = [m |-> w.m, ret |-> IF w.ret = v THEN "hung" ELSE "done"]
  BY <1>5, <1>6 DEF pdt_unmap_kernel_memory
<1>8. kernel_get_temporary_entry(m) = Absent  BY DEF kernel_get_temporary_entry
<1>9. SlotSet(m, a, t)  BY <1>2, SetSlot
<1>10. Shape(a) /\ DOMAIN a.pt = DOMAIN m.pt  BY <1>9 DEF SlotSet
<1>11. /\ u.ret = 1
       /\ t \notin DOMAIN a.pt => SameTables(a, u.m)
       /\ t \in DOMAIN a.pt => PageCleared(a, u.m, t, j)
  <2>1. PtUnmapResult(a, u, t, j)  BY <1>3, <1>10, PtUnmap
  <2>. QED  BY <2>1 DEF PtUnmapResult
<1>12. CASE t = Absent
  <2>1. w = [m |-> m, ret |-> AlignUp(v)]  BY <1>1, <1>5, <1>12 DEF pdt_unmap_table
  <2>. QED  BY <2>1, <1>1, <1>6, <1>7, <1>12 DEF UnmapResult
<1>13. CASE t # Absent
  <2>1. u.ret = 1 /\ u.ret # PtEntries  BY <1>11, Sizes
  <2>2. w = [m |-> b, ret |-> v + u.ret]
    BY <1>1, <1>2, <1>3, <1>4, <1>5, <1>13, <2>1 DEF pdt_unmap_table
  <2>3. r.m = b /\ r.ret = "done"
    <3>1. v + u.ret # v  BY <2>1
    <3>. QED  BY <3>1, <2>2, <1>7
  <2>4. CASE t \notin DOMAIN m.pt
    <3>0. PICK c : c = u.m  OBVIOUS
    <3>1. SameTables(a, c) /\ Shape(c)  BY <3>0, <1>10, <1>11, <2>4 DEF SameTables, Shape
    <3>2. SlotSet(c, b, kernel_get_temporary_entry(m))  BY <3>0, <3>1, <1>4, SetSlot
    <3>3. SameTables(m, b)  BY <3>1, <3>2, <1>9, SlotLow
    <3>. QED  BY <3>3, <2>3, <2>4, <1>1, <1>6, <1>13 DEF UnmapResult
  <2>5. CASE t \in DOMAIN m.pt
    <3>1. PICK c : c = u.m  OBVIOUS
    <3>2. PageCleared(a, c, t, j)  BY <3>1, <1>10, <1>11, <2>5
    <3>3. Shape(c) /\ DOMAIN c.pt = DOMAIN m.pt  BY <3>2, <1>10 DEF PageCleared
    <3>4. SlotSet(c, b, Absent)  BY <3>1, <3>3, <1>4, <1>8, SetSlot
    <3>5. PageCleared(m, b, t, j)
      <4>1. /\ Shape(b) /\ b.pool = m.pool /\ b.flipped = m.flipped /\ b.pdt = m.pdt /\ b.upde = m.upde
            /\ b.upte = m.upte \ {<<t, j>>} /\ DOMAIN b.pt = DOMAIN m.pt
        BY <3>2, <3>3, <3>4, <1>9 DEF PageCleared, SlotSet
      <4>2. \A x \in DOMAIN m.pt : \A k \in PtIdx :
              b.pt[x][k] = IF x = t /\ k = j THEN Absent ELSE m.pt[x][k]
        <5>. SUFFICES ASSUME NEW x \in DOMAIN m.pt, NEW k \in PtIdx
                      PROVE  b.pt[x][k] = IF x = t /\ k = j THEN Absent ELSE m.pt[x][k]
          OBVIOUS
        <5>1. b.pt[x][k] = IF x = KernelPt /\ k = TmpIdx THEN Absent ELSE c.pt[x][k]
          BY <3>3, <3>4 DEF SlotSet
        <5>2. c.pt[x][k] = IF x = t /\ k = j THEN Absent ELSE a.pt[x][k]
          BY <3>2, <1>10 DEF PageCleared
        <5>3. a.pt[x][k] = IF x = KernelPt /\ k = TmpIdx THEN t ELSE m.pt[x][k]
          BY <1>9 DEF SlotSet
        <5>. QED  BY <5>1, <5>2, <5>3
      <4>. QED  BY <4>1, <4>2 DEF PageCleared
    <3>. QED  BY <3>5, <2>3, <2>5, <1>1, <1>6, <1>13 DEF UnmapResult
  <2>. QED  BY <2>4, <2>5
<1>. QED  BY <1>12, <1>13

-----------------------------------------------------------------------------
(***************************************************************************)
(* Mapping keeps the memory in order.                                      *)
(***************************************************************************)

\* What MapsTo says of the sets R of entries and P of pages: the pages are in
\* the table t, which was there, with room for them, or is a frame of the pool.
Grown(m, n, d, i, t, R, P, pl) ==
  /\ Shape(n) /\ DOMAIN n.pdt = DOMAIN m.pdt /\ n.pdt[d][i] = t
  /\ \A e \in DOMAIN m.pdt : \A k \in PdtIdx :
       ~(e = d /\ k = i) => n.pdt[e][k] = m.pdt[e][k]
  /\ n.flipped = m.flipped /\ n.pool = m.pool \ {t} /\ DOMAIN n.pt = DOMAIN m.pt \cup {t}
  /\ t \in DOMAIN m.pt =>
       /\ m.pdt[d][i] = t /\ n.upde = m.upde
       /\ \A k \in R : m.pt[t][k] = Absent /\ ~IsTmp(i, k)
  /\ t \notin DOMAIN m.pt =>
       /\ m.pdt[d][i] = Absent /\ t \in m.pool
       /\ n.upde = Grant(m.upde, {<<d, i>>}, pl)
  /\ \A u \in DOMAIN m.pt : \A k \in PtIdx : u # t => n.pt[u][k] = m.pt[u][k]
  /\ \A k \in PtIdx : k \notin R =>
       n.pt[t][k] = IF t \in DOMAIN m.pt THEN m.pt[t][k] ELSE Absent
  /\ R \subseteq PtIdx
  /\ \A k \in R : n.pt[t][k] \in P
  /\ \A k, o \in R : n.pt[t][k] = n.pt[t][o] => k = o
  /\ \A x \in P : \E k \in R : n.pt[t][k] = x
  /\ n.upte = Grant(m.upte, {t} \X R, pl)

\* Mapping c pages at entry j of place i of directory d grows that directory by
\* exactly the entries R, which show the frames P.
LEMMA Grows ==
  ASSUME NEW F, F \in SUBSET (Nat \ {0}), NEW m, MemOK(m, F),
         NEW d, NEW i, NEW j \in PtIdx, NEW c \in Nat, j + c <= PtEntries,
         NEW paddr \in Nat, NEW pl, NEW n, MapsTo(m, n, d, i, j, paddr, c, pl),
         NEW R, R = j .. (j + c - 1), NEW P, P = paddr .. (paddr + c - 1)
  PROVE  Grown(m, n, d, i, n.pdt[d][i], R, P, pl)
<1>1. PICK t : t = n.pdt[d][i]  OBVIOUS
<1>2. j \in Nat  BY DEF PtIdx
<1>3. R \subseteq PtIdx /\ R \subseteq Nat  BY <1>2, Sizes DEF PtIdx
<1>4. m.pool \cap DOMAIN m.pt = {}  BY Zenon DEF MemOK, Apart, Unused
<1>5. /\ Shape(n) /\ DOMAIN n.pdt = DOMAIN m.pdt
      /\ \A e \in DOMAIN m.pdt : \A k \in PdtIdx :
           ~(e = d /\ k = i) => n.pdt[e][k] = m.pdt[e][k]
      /\ \A u \in DOMAIN m.pt : \A k \in PtIdx : u # t => n.pt[u][k] = m.pt[u][k]
      /\ n.upte = Grant(m.upte, {t} \X R, pl)
  BY <1>1, Zenon DEF MapsTo
<1>6. \/ /\ m.pdt[d][i] = Absent
         /\ t \in m.pool /\ n.flipped = m.flipped /\ n.pool = m.pool \ {t}
         /\ n.upde = Grant(m.upde, {<<d, i>>}, pl)
         /\ DOMAIN n.pt = DOMAIN m.pt \cup {t}
         /\ \A k \in PtIdx : n.pt[t][k] = IF k \in R THEN paddr + (k - j) ELSE Absent
      \/ /\ m.pdt[d][i] = t /\ RunFree(m, t, i, j, c)
         /\ n.pool = m.pool /\ n.flipped = m.flipped /\ n.upde = m.upde /\ DOMAIN n.pt = DOMAIN m.pt
         /\ \A k \in PtIdx : n.pt[t][k] = IF k \in R THEN paddr + (k - j) ELSE m.pt[t][k]
  BY <1>1, Zenon DEF MapsTo
<1>7. \A k \in R : n.pt[t][k] = paddr + (k - j)  BY <1>6, <1>3
<1>8. /\ n.flipped = m.flipped /\ n.pool = m.pool \ {t} /\ DOMAIN n.pt = DOMAIN m.pt \cup {t}
      /\ t \in DOMAIN m.pt =>
           /\ m.pdt[d][i] = t /\ n.upde = m.upde
           /\ \A k \in R : m.pt[t][k] = Absent /\ ~IsTmp(i, k)
      /\ t \notin DOMAIN m.pt =>
           /\ m.pdt[d][i] = Absent /\ t \in m.pool
           /\ n.upde = Grant(m.upde, {<<d, i>>}, pl)
      /\ \A k \in PtIdx : k \notin R =>
           n.pt[t][k] = IF t \in DOMAIN m.pt THEN m.pt[t][k] ELSE Absent
  <2>1. CASE /\ m.pdt[d][i] = Absent
             /\ t \in m.pool /\ n.flipped = m.flipped /\ n.pool = m.pool \ {t}
             /\ n.upde = Grant(m.upde, {<<d, i>>}, pl)
             /\ DOMAIN n.pt = DOMAIN m.pt \cup {t}
             /\ \A k \in PtIdx : n.pt[t][k] = IF k \in R THEN paddr + (k - j) ELSE Absent
    <3>1. t \notin DOMAIN m.pt  BY <2>1, <1>4
    <3>. QED  BY <2>1, <3>1
  <2>2. CASE /\ m.pdt[d][i] = t /\ RunFree(m, t, i, j, c)
             /\ n.pool = m.pool /\ n.flipped = m.flipped /\ n.upde = m.upde /\ DOMAIN n.pt = DOMAIN m.pt
             /\ \A k \in PtIdx : n.pt[t][k] = IF k \in R THEN paddr + (k - j) ELSE m.pt[t][k]
    <3>1. /\ t \in DOMAIN m.pt
          /\ \A k \in R : m.pt[t][k] = Absent /\ ~IsTmp(i, k)
      BY <2>2 DEF RunFree
    <3>2. t \notin m.pool  BY <3>1, <1>4
    <3>3. m.pool = m.pool \ {t} /\ DOMAIN m.pt = DOMAIN m.pt \cup {t}  BY <3>1, <3>2
    <3>. QED  BY <2>2, <3>1, <3>3
  <2>. QED  BY <1>6, <2>1, <2>2
<1>9. /\ \A k \in R : n.pt[t][k] \in P
      /\ \A k, o \in R : n.pt[t][k] = n.pt[t][o] => k = o
      /\ \A x \in P : \E k \in R : n.pt[t][k] = x
  <2>1. \A k \in R : paddr + (k - j) \in P  BY <1>2
  <2>2. \A k, o \in R : paddr + (k - j) = paddr + (o - j) => k = o  BY <1>2
  <2>3. \A x \in P : j + (x - paddr) \in R /\ paddr + ((j + (x - paddr)) - j) = x  BY <1>2
  <2>. QED  BY <2>1, <2>2, <2>3, <1>7, SMTT(30)
<1>10. Grown(m, n, d, i, t, R, P, pl)  BY <1>1, <1>3, <1>5, <1>8, <1>9, Zenon DEF Grown
<1>. QED  BY <1>1, <1>10

\* Where processes and the kernel map pages.
Target(m, d, i, R, pl) ==
  \/ d = KernelPdt /\ i \in KernelIdxs /\ pl = PL0
  \/ /\ d \in Dirs(m) /\ i \in UserIdxs /\ pl = PL3 /\ m.pdt[d][i] = Absent
     /\ R = {IF i = 0 THEN 0 ELSE TmpIdx}

\* The frame x is not in use but as the last page.
UnusedElse(m, x) ==
  /\ x \notin DOMAIN m.pt
  /\ \A t \in DOMAIN m.pt : \A j \in PtIdx : m.pt[t][j] = x => IsLast(m, t, j)

\* The pages P are in nobody's use.  Address 0 is nobody's frame.
Fresh(m, F, P) ==
  \A x \in P : x = 0 \/ (x \in F /\ UnusedElse(m, x) /\ x \notin m.pool)

\* What a directory entry can be.
LEMMA EntryKinds ==
  ASSUME NEW F, NEW m, MemOK(m, F), NEW d \in DOMAIN m.pdt, NEW i \in PdtIdx
  PROVE  m.pdt[d][i] \in {Absent, Identity} \cup DOMAIN m.pt
<1>1. i = 0 \/ i = StackIdx \/ (i \notin UserIdxs /\ i < KernelIdx) \/ i = KernelIdx
      \/ i > KernelIdx
  BY Sizes DEF PdtIdx, UserIdxs
<1>2. m.pdt[KernelPdt][i] \in {Absent, Identity} \cup DOMAIN m.pt
  <2>1. StackIdx # 0 /\ StackIdx < KernelIdx  BY Sizes
  <2>. QED  BY <1>1, <2>1 DEF MemOK, KernelOK, Typed, UserIdxs
<1>3. CASE d = KernelPdt
  BY <1>2, <1>3
<1>4. CASE d \in Dirs(m)
  <2>1. i = 0 \/ i = StackIdx \/ (i \notin UserIdxs /\ i < KernelIdx) \/ i >= KernelIdx
    BY <1>1, Sizes DEF PdtIdx
  <2>2. DirsOK(m)  BY DEF MemOK
  <2>3. /\ i = 0 => m.pdt[d][i] \in {Absent, Identity} \cup (DOMAIN m.pt \ {KernelPt})
        /\ i = StackIdx => m.pdt[d][i] \in {Absent} \cup (DOMAIN m.pt \ {KernelPt})
        /\ i >= KernelIdx => m.pdt[d][i] \in {Absent, m.pdt[KernelPdt][i]}
        /\ (i \notin UserIdxs /\ i < KernelIdx) => m.pdt[d][i] = Absent
    BY <2>2, <1>4 DEF DirsOK
  <2>4. i >= KernelIdx => m.pdt[d][i] \in {Absent, Identity} \cup DOMAIN m.pt
    BY <2>3, <1>2
  <2>. QED  BY <2>1, <2>3, <2>4, Zenon
<1>. QED  BY <1>3, <1>4 DEF Dirs

\* Frames are neither markers nor parts of the kernel's image.
LEMMA FrameKinds ==
  ASSUME NEW F, F \in SUBSET (Nat \ {0}), NEW x \in F
  PROVE  /\ x # 0 /\ x # Absent /\ x # KernelPdt /\ x # KernelPt /\ x # Identity
         /\ x # ImagePage /\ x # BitmapPage
<1>1. x \in Nat /\ x # 0  OBVIOUS
<1>. QED
  BY <1>1 DEF Absent, KernelPdt, KernelPt, Identity, ImagePage, BitmapPage

\* The table that grows.
GrownTable(m, F, d, i, t) ==
  /\ d \in DOMAIN m.pdt /\ i \in PdtIdx
  /\ t \in F \cup {KernelPt} /\ t # Absent /\ t # Identity
  /\ t = KernelPt => d = KernelPdt /\ i = KernelIdx /\ t \in DOMAIN m.pt
  /\ d = KernelPdt \/ t \notin DOMAIN m.pt
  /\ t \notin DOMAIN m.pt =>
       /\ t \in m.pool /\ t \in F /\ Unused(m, t) /\ t \notin DOMAIN m.pdt
       /\ i # KernelIdx /\ m.pdt[d][i] = Absent
       /\ \A e \in DOMAIN m.pdt : \A k \in PdtIdx : m.pdt[e][k] # t
  /\ d = KernelPdt => i \in KernelIdxs
  /\ d # KernelPdt => i \in UserIdxs

\* The page table that grew is the one already in place i, or a new one that
\* nothing else uses.
LEMMA TableOfGrown ==
  ASSUME NEW F, F \in SUBSET (Nat \ {0}), NEW m, MemOK(m, F), NEW d, NEW i, NEW R,
         NEW P, NEW pl, Target(m, d, i, R, pl), NEW n, NEW t, Grown(m, n, d, i, t, R, P, pl)
  PROVE  GrownTable(m, F, d, i, t)
<1>1. Typed(m, F) /\ KernelOK(m) /\ TablesUnique(m) /\ Apart(m)  BY DEF MemOK
<1>2. d \in DOMAIN m.pdt /\ i \in PdtIdx /\ (d = KernelPdt => i \in KernelIdxs)
      /\ (d # KernelPdt => i \in UserIdxs)
  <2>1. KernelIdxs \subseteq PdtIdx /\ UserIdxs \subseteq PdtIdx
    BY Sizes DEF KernelIdxs, UserIdxs, PdtIdx
  <2>. QED  BY <1>1, <2>1 DEF Target, Dirs, Typed
<1>3. t \in DOMAIN m.pt => m.pdt[d][i] = t  BY DEF Grown
<1>4. t \notin DOMAIN m.pt => m.pdt[d][i] = Absent /\ t \in m.pool  BY DEF Grown
<1>5. t \in F \cup {KernelPt}  BY <1>1, <1>3, <1>4 DEF Typed
<1>6. t # Absent /\ t # Identity
  <2>1. KernelPt # Absent /\ KernelPt # Identity  BY DEF KernelPt, Absent, Identity
  <2>. QED  BY <1>5, <2>1, FrameKinds
<1>7. d = KernelPdt \/ t \notin DOMAIN m.pt  BY <1>3, <1>6 DEF Target
<1>8. ASSUME t = KernelPt PROVE d = KernelPdt /\ i = KernelIdx /\ t \in DOMAIN m.pt
  <2>1. t \in DOMAIN m.pt  BY <1>1, <1>8 DEF Typed
  <2>2. m.pdt[d][i] = m.pdt[KernelPdt][KernelIdx] /\ m.pdt[d][i] \in DOMAIN m.pt
    BY <2>1, <1>1, <1>3, <1>8 DEF KernelOK
  <2>3. KernelIdx \in PdtIdx /\ KernelPdt \in DOMAIN m.pdt  BY <1>1, Sizes DEF Typed
  <2>4. i = KernelIdx  BY <2>2, <2>3, <1>1, <1>2 DEF TablesUnique
  <2>. QED  BY <2>1, <2>4, <1>7
<1>9. ASSUME t \notin DOMAIN m.pt
      PROVE  /\ t \in m.pool /\ t \in F /\ Unused(m, t) /\ t \notin DOMAIN m.pdt
             /\ i # KernelIdx /\ m.pdt[d][i] = Absent
             /\ \A e \in DOMAIN m.pdt : \A k \in PdtIdx : m.pdt[e][k] # t
  <2>1. /\ t \in m.pool /\ t \in F /\ Unused(m, t) /\ t \notin DOMAIN m.pdt
        /\ m.pdt[d][i] = Absent
    BY <1>1, <1>4, <1>9 DEF Apart, Typed
  <2>2. i # KernelIdx
    <3>1. KernelIdx \notin UserIdxs  BY Sizes DEF UserIdxs, StackIdx
    <3>2. d = KernelPdt => m.pdt[d][KernelIdx] # Absent
      BY <1>1 DEF KernelOK, KernelPt, Absent
    <3>. QED  BY <3>1, <3>2, <2>1, <1>2
  <2>3. \A e \in DOMAIN m.pdt : \A k \in PdtIdx : m.pdt[e][k] # t
    <3>1. \A e \in DOMAIN m.pdt : \A k \in PdtIdx :
            m.pdt[e][k] \in {Absent, Identity} \cup DOMAIN m.pt
      BY EntryKinds
    <3>. QED  BY <3>1, <1>6, <1>9
  <2>. QED  BY <2>1, <2>2, <2>3
<1>. QED  BY <1>2, <1>5, <1>6, <1>7, <1>8, <1>9 DEF GrownTable

Growth(m, F, n, d, i, t, R, P, pl) ==
  /\ F \in SUBSET (Nat \ {0}) /\ MemOK(m, F) /\ Target(m, d, i, R, pl)
  /\ Grown(m, n, d, i, t, R, P, pl) /\ GrownTable(m, F, d, i, t) /\ Fresh(m, F, P)

\* Growth keeps the types of directories, tables and the pool.
LEMMA GrownTyped ==
  ASSUME NEW F, NEW m, NEW n, NEW d, NEW i, NEW t, NEW R, NEW P, NEW pl,
         Growth(m, F, n, d, i, t, R, P, pl)
  PROVE  Typed(n, F)
<1>1. /\ Typed(m, F) /\ Grown(m, n, d, i, t, R, P, pl) /\ GrownTable(m, F, d, i, t)
      /\ Target(m, d, i, R, pl) /\ Fresh(m, F, P)
  BY DEF Growth, MemOK
<1>2. /\ IsRecord(n) /\ Matrix(n.pdt, PdtIdx) /\ Matrix(n.pt, PtIdx)
      /\ KernelPt \in DOMAIN n.pt /\ DOMAIN n.pdt = DOMAIN m.pdt
  BY <1>1 DEF Grown, Shape
<1>3. n.pool \subseteq F  BY <1>1 DEF Grown, Typed
<1>4. \A e \in DOMAIN m.pdt : \A k \in PdtIdx :
        n.pdt[e][k] \in F \cup {Absent, KernelPt, Identity}
  BY <1>1 DEF Grown, GrownTable, Typed
<1>5. DOMAIN n.pt = DOMAIN m.pt \cup {t} /\ DOMAIN n.pt \subseteq F \cup {KernelPt}
  BY <1>1 DEF Grown, GrownTable, Typed
<1>6. \A u \in DOMAIN n.pt : \A k \in PtIdx :
        n.pt[u][k] \in F \cup {0, Absent, ImagePage, BitmapPage}
  <2>. SUFFICES ASSUME NEW u \in DOMAIN n.pt, NEW k \in PtIdx
                PROVE  n.pt[u][k] \in F \cup {0, Absent, ImagePage, BitmapPage}
    OBVIOUS
  <2>1. CASE u # t
    BY <1>1, <1>5, <2>1 DEF Grown, Typed
  <2>2. CASE u = t /\ k \in R
    BY <1>1, <2>2 DEF Grown, Fresh
  <2>3. CASE u = t /\ k \notin R
    BY <1>1, <2>3 DEF Grown, Typed
  <2>. QED  BY <2>1, <2>2, <2>3
<1>7. n.upde \subseteq Dirs(n) \X UserIdxs
  <2>1. Dirs(n) = Dirs(m)  BY <1>2 DEF Dirs
  <2>2. m.upde \subseteq Dirs(m) \X UserIdxs  BY <1>1 DEF Typed
  <2>3. n.upde = m.upde \/ n.upde = Grant(m.upde, {<<d, i>>}, pl)  BY <1>1 DEF Grown
  <2>4. pl = PL0 \/ (d \in Dirs(m) /\ i \in UserIdxs)  BY <1>1 DEF Target
  <2>5. Grant(m.upde, {<<d, i>>}, pl) \subseteq Dirs(m) \X UserIdxs
    BY <2>2, <2>4 DEF Grant, PL0, PL3
  <2>. QED  BY <2>1, <2>2, <2>3, <2>5
<1>8. n.upte \subseteq (DOMAIN n.pt) \X PtIdx
  <2>1. n.upte = Grant(m.upte, {t} \X R, pl) /\ R \subseteq PtIdx  BY <1>1 DEF Grown
  <2>2. m.upte \subseteq (DOMAIN m.pt) \X PtIdx  BY <1>1 DEF Typed
  <2>3. n.upte \subseteq m.upte \cup ({t} \X R)  BY <2>1 DEF Grant
  <2>4. {t} \X R \subseteq (DOMAIN n.pt) \X PtIdx  BY <2>1, <1>5
  <2>. QED  BY <2>2, <2>3, <2>4, <1>5
<1>9. DOMAIN m.pdt \subseteq F \cup {KernelPdt} /\ KernelPdt \in DOMAIN m.pdt
  BY <1>1 DEF Typed
<1>. QED  BY <1>2, <1>3, <1>4, <1>5, <1>6, <1>7, <1>8, <1>9 DEF Typed

\* Growth keeps the kernel's own part: kernel_pt, the identity page, the slot.
LEMMA GrownKernel ==
  ASSUME NEW F, NEW m, NEW n, NEW d, NEW i, NEW t, NEW R, NEW P, NEW pl,
         Growth(m, F, n, d, i, t, R, P, pl)
  PROVE  KernelOK(n)
<1>1. /\ Typed(m, F) /\ Grown(m, n, d, i, t, R, P, pl) /\ GrownTable(m, F, d, i, t)
      /\ KernelOK(m)
  BY DEF Growth, MemOK
<1>2. \A k \in PdtIdx : ~(d = KernelPdt /\ k = i) =>
        n.pdt[KernelPdt][k] = m.pdt[KernelPdt][k]
  BY <1>1 DEF Grown, Typed
<1>3. d = KernelPdt => i \in Nat /\ i >= KernelIdx
  BY <1>1, Sizes DEF GrownTable, KernelIdxs
<1>4. n.pdt[KernelPdt][0] = Identity
  <2>1. 0 \in PdtIdx /\ ~(0 >= KernelIdx)  BY Sizes
  <2>. QED  BY <2>1, <1>1, <1>2, <1>3 DEF KernelOK
<1>5. n.pdt[KernelPdt][KernelIdx] = KernelPt
  <2>1. KernelIdx \in PdtIdx  BY Sizes
  <2>2. ASSUME d = KernelPdt, KernelIdx = i PROVE n.pdt[KernelPdt][KernelIdx] = KernelPt
    <3>1. t \in DOMAIN m.pt  BY <2>2, <1>1 DEF GrownTable
    <3>2. n.pdt[d][i] = t /\ m.pdt[d][i] = t  BY <3>1, <1>1 DEF Grown
    <3>. QED  BY <3>2, <2>2, <1>1 DEF KernelOK
  <2>. QED  BY <2>1, <2>2, <1>1, <1>2 DEF KernelOK
<1>6. \A k \in PdtIdx : (k # 0 /\ k < KernelIdx) => n.pdt[KernelPdt][k] = Absent
  <2>1. \A k \in PdtIdx : k < KernelIdx => ~(k >= KernelIdx)  BY Sizes DEF PdtIdx
  <2>. QED  BY <2>1, <1>1, <1>2, <1>3 DEF KernelOK
<1>7. \A k \in PdtIdx : k > KernelIdx =>
        n.pdt[KernelPdt][k] \in {Absent} \cup (DOMAIN n.pt \ {KernelPt})
  <2>. SUFFICES ASSUME NEW k \in PdtIdx, k > KernelIdx
                PROVE  n.pdt[KernelPdt][k] \in {Absent} \cup (DOMAIN n.pt \ {KernelPt})
    OBVIOUS
  <2>1. k # KernelIdx  BY Sizes
  <2>2. CASE d = KernelPdt /\ k = i
    <3>1. n.pdt[KernelPdt][k] = t /\ t \in DOMAIN n.pt  BY <2>2, <1>1 DEF Grown
    <3>2. t # KernelPt  BY <2>1, <2>2, <1>1 DEF GrownTable
    <3>. QED  BY <3>1, <3>2
  <2>3. CASE ~(d = KernelPdt /\ k = i)
    <3>1. n.pdt[KernelPdt][k] = m.pdt[KernelPdt][k]  BY <2>3, <1>2
    <3>2. DOMAIN m.pt \subseteq DOMAIN n.pt  BY <1>1 DEF Grown
    <3>. QED  BY <3>1, <3>2, <1>1 DEF KernelOK
  <2>. QED  BY <2>2, <2>3
<1>8. n.pt[KernelPt][TmpIdx] = Absent
  <2>1. m.pt[KernelPt][TmpIdx] = Absent /\ KernelPt \in DOMAIN m.pt /\ TmpIdx \in PtIdx
    BY <1>1, Sizes DEF KernelOK, Typed
  <2>2. CASE t # KernelPt
    BY <2>1, <2>2, <1>1 DEF Grown
  <2>3. CASE t = KernelPt
    <3>1. i = KernelIdx /\ t \in DOMAIN m.pt  BY <2>3, <1>1 DEF GrownTable
    <3>2. TmpIdx \notin R  BY <3>1, <1>1 DEF Grown, IsTmp
    <3>. QED  BY <3>1, <3>2, <2>1, <2>3, <1>1 DEF Grown
  <2>. QED  BY <2>2, <2>3
<1>. QED  BY <1>4, <1>5, <1>6, <1>7, <1>8 DEF KernelOK

\* After growth the places of each directory hold what they may hold.
LEMMA GrownDirs ==
  ASSUME NEW F, NEW m, NEW n, NEW d, NEW i, NEW t, NEW R, NEW P, NEW pl,
         Growth(m, F, n, d, i, t, R, P, pl)
  PROVE  DirsOK(n)
<1>1. /\ Typed(m, F) /\ Grown(m, n, d, i, t, R, P, pl) /\ GrownTable(m, F, d, i, t)
      /\ DirsOK(m)
  BY DEF Growth, MemOK
<1>2. Dirs(n) = Dirs(m) /\ DOMAIN m.pt \subseteq DOMAIN n.pt /\ t \in DOMAIN n.pt
  BY <1>1 DEF Grown, Dirs
<1>. SUFFICES ASSUME NEW e \in Dirs(m), NEW k \in PdtIdx
     PROVE /\ k = 0 => n.pdt[e][k] \in {Absent, Identity} \cup (DOMAIN n.pt \ {KernelPt})
           /\ k = StackIdx => n.pdt[e][k] \in {Absent} \cup (DOMAIN n.pt \ {KernelPt})
           /\ k >= KernelIdx => n.pdt[e][k] \in {Absent, n.pdt[KernelPdt][k]}
           /\ (k \notin UserIdxs /\ k < KernelIdx) => n.pdt[e][k] = Absent
  BY <1>2 DEF DirsOK
<1>3. CASE e = d /\ k = i
  <2>1. d # KernelPdt  BY <1>3 DEF Dirs
  <2>2. k \in UserIdxs /\ ~(k >= KernelIdx)
    BY <2>1, <1>1, <1>3, Sizes DEF GrownTable, UserIdxs, StackIdx
  <2>3. n.pdt[e][k] = t /\ t # KernelPt  BY <2>1, <1>1, <1>3 DEF Grown, GrownTable
  <2>. QED  BY <2>2, <2>3, <1>2
<1>4. CASE ~(e = d /\ k = i)
  <2>1. n.pdt[e][k] = m.pdt[e][k]  BY <1>1, <1>4 DEF Grown, Dirs
  <2>2. m.pdt[KernelPdt][k] # Absent => n.pdt[KernelPdt][k] = m.pdt[KernelPdt][k]
    BY <1>1 DEF Grown, Typed
  <2>3. /\ k = 0 => m.pdt[e][k] \in {Absent, Identity} \cup (DOMAIN m.pt \ {KernelPt})
        /\ k = StackIdx => m.pdt[e][k] \in {Absent} \cup (DOMAIN m.pt \ {KernelPt})
        /\ k >= KernelIdx => m.pdt[e][k] \in {Absent, m.pdt[KernelPdt][k]}
        /\ (k \notin UserIdxs /\ k < KernelIdx) => m.pdt[e][k] = Absent
    BY <1>1 DEF DirsOK
  <2>. QED  BY <2>1, <2>2, <2>3, <1>2
<1>. QED  BY <1>3, <1>4

\* After growth no page table is in two places of the directories.
LEMMA GrownTablesUnique ==
  ASSUME NEW F, NEW m, NEW n, NEW d, NEW i, NEW t, NEW R, NEW P, NEW pl,
         Growth(m, F, n, d, i, t, R, P, pl)
  PROVE  TablesUnique(n)
<1>1. /\ Typed(m, F) /\ Grown(m, n, d, i, t, R, P, pl) /\ GrownTable(m, F, d, i, t)
      /\ TablesUnique(m)
  BY DEF Growth, MemOK
<1>2. DOMAIN n.pdt = DOMAIN m.pdt /\ DOMAIN n.pt = DOMAIN m.pt \cup {t}
  BY <1>1 DEF Grown
<1>. SUFFICES ASSUME NEW e \in DOMAIN m.pdt, NEW f \in DOMAIN m.pdt,
                     NEW k \in PdtIdx, NEW o \in PdtIdx,
                     n.pdt[e][k] = n.pdt[f][o], n.pdt[e][k] \in DOMAIN n.pt
              PROVE  k = o /\ (e = f \/ k >= KernelIdx)
  BY <1>2 DEF TablesUnique
<1>3. CASE t \in DOMAIN m.pt
  <2>1. n.pdt[e][k] = m.pdt[e][k] /\ n.pdt[f][o] = m.pdt[f][o]
    BY <1>1, <1>3 DEF Grown
  <2>2. m.pdt[e][k] = m.pdt[f][o] /\ m.pdt[e][k] \in DOMAIN m.pt  BY <2>1, <1>2, <1>3
  <2>. QED  BY <2>2, <1>1 DEF TablesUnique
<1>4. CASE t \notin DOMAIN m.pt
  <2>1. m.pdt[e][k] # t /\ m.pdt[f][o] # t  BY <1>1, <1>4 DEF GrownTable
  <2>2. n.pdt[d][i] = t /\ (~(e = d /\ k = i) => n.pdt[e][k] = m.pdt[e][k])
        /\ (~(f = d /\ o = i) => n.pdt[f][o] = m.pdt[f][o])
    BY <1>1 DEF Grown
  <2>3. CASE n.pdt[e][k] = t
    BY <2>1, <2>2, <2>3
  <2>4. CASE n.pdt[e][k] # t
    <3>1. m.pdt[e][k] = m.pdt[f][o] /\ m.pdt[e][k] \in DOMAIN m.pt
      BY <2>2, <2>4, <1>2
    <3>. QED  BY <3>1, <1>1 DEF TablesUnique
  <2>. QED  BY <2>3, <2>4
<1>. QED  BY <1>3, <1>4

\* The pages that were there before are still there, and the new ones are in P.
LEMMA GrownPages ==
  ASSUME NEW F, NEW m, NEW n, NEW d, NEW i, NEW t, NEW R, NEW P, NEW pl,
         Growth(m, F, n, d, i, t, R, P, pl), NEW u \in DOMAIN n.pt, NEW k \in PtIdx
  PROVE  \/ u = t /\ k \in R /\ n.pt[u][k] \in P
         \/ u \in DOMAIN m.pt /\ ~(u = t /\ k \in R) /\ n.pt[u][k] = m.pt[u][k]
         \/ u = t /\ t \notin DOMAIN m.pt /\ ~(k \in R) /\ n.pt[u][k] = Absent
<1>1. Grown(m, n, d, i, t, R, P, pl)  BY DEF Growth
<1>2. DOMAIN n.pt = DOMAIN m.pt \cup {t}  BY <1>1 DEF Grown
<1>3. CASE u # t
  BY <1>1, <1>2, <1>3 DEF Grown
<1>4. CASE u = t /\ k \in R
  BY <1>1, <1>4 DEF Grown
<1>5. CASE u = t /\ k \notin R
  BY <1>1, <1>5 DEF Grown
<1>. QED  BY <1>3, <1>4, <1>5

\* Growth leaves the last page where it is, and shows what it showed there or a
\* page of P.
LEMMA GrownLast ==
  ASSUME NEW F, NEW m, NEW n, NEW d, NEW i, NEW t, NEW R, NEW P, NEW pl,
         Growth(m, F, n, d, i, t, R, P, pl)
  PROVE  /\ \A u \in DOMAIN m.pt : \A k \in PtIdx : IsLast(m, u, k) => IsLast(n, u, k)
         /\ \A x : OnLast(n, x) => OnLast(m, x) \/ (d = KernelPdt /\ x \in P)
<1>1. /\ Grown(m, n, d, i, t, R, P, pl) /\ GrownTable(m, F, d, i, t) /\ Typed(m, F)
      /\ F \in SUBSET (Nat \ {0})
  BY DEF Growth, MemOK
<1>2. LastIdx \in PdtIdx /\ KernelPdt \in DOMAIN m.pdt /\ TmpIdx \in PtIdx
  BY <1>1, LastAddress, Sizes DEF Typed
<1>3. Absent \notin DOMAIN m.pt
  <2>1. DOMAIN m.pt \subseteq F \cup {KernelPt} /\ KernelPt # Absent
    BY <1>1 DEF Typed, KernelPt, Absent
  <2>. QED  BY <2>1, <1>1, FrameKinds
<1>4. m.pdt[KernelPdt][LastIdx] # Absent =>
        n.pdt[KernelPdt][LastIdx] = m.pdt[KernelPdt][LastIdx]
  BY <1>1, <1>2 DEF Grown
<1>5. \A u \in DOMAIN m.pt : \A k \in PtIdx : IsLast(m, u, k) => IsLast(n, u, k)
  BY <1>3, <1>4 DEF IsLast
<1>6. ASSUME NEW x, OnLast(n, x) PROVE OnLast(m, x) \/ (d = KernelPdt /\ x \in P)
  <2>1. PICK u : u = n.pdt[KernelPdt][LastIdx]  OBVIOUS
  <2>2. u \in DOMAIN n.pt /\ n.pt[u][TmpIdx] = x /\ x \notin {0, Absent}
    BY <2>1, <1>6 DEF OnLast
  <2>3. u = t => d = KernelPdt
    <3>1. SUFFICES ASSUME u = t, d # KernelPdt PROVE FALSE  OBVIOUS
    <3>2. m.pdt[KernelPdt][LastIdx] = t  BY <3>1, <2>1, <1>1, <1>2 DEF Grown
    <3>. QED  BY <3>1, <3>2, <1>1, <1>2 DEF GrownTable
  <2>4. \/ u = t /\ n.pt[u][TmpIdx] \in P
        \/ u \in DOMAIN m.pt /\ n.pt[u][TmpIdx] = m.pt[u][TmpIdx]
    BY <2>2, <1>2, GrownPages
  <2>5. CASE u = t /\ n.pt[u][TmpIdx] \in P
    BY <2>2, <2>3, <2>5
  <2>6. CASE u \in DOMAIN m.pt /\ n.pt[u][TmpIdx] = m.pt[u][TmpIdx]
    <3>1. m.pdt[KernelPdt][LastIdx] = u
      BY <2>1, <2>6, <1>1, <1>2 DEF Grown
    <3>. QED  BY <3>1, <2>2, <2>6 DEF OnLast
  <2>. QED  BY <2>4, <2>5, <2>6
<1>. QED  BY <1>5, <1>6

\* After growth no frame of the pool is shown by two page table entries, but for
\* the last page.
LEMMA GrownPagesUnique ==
  ASSUME NEW F, NEW m, NEW n, NEW d, NEW i, NEW t, NEW R, NEW P, NEW pl,
         Growth(m, F, n, d, i, t, R, P, pl)
  PROVE  PagesUnique(n, F)
<1>1. /\ Grown(m, n, d, i, t, R, P, pl) /\ F \in SUBSET (Nat \ {0})
      /\ PagesUnique(m, F) /\ Fresh(m, F, P)
  BY DEF Growth, MemOK
<1>2. \A x \in P : x \in F => UnusedElse(m, x)  BY <1>1, FrameKinds DEF Fresh
<1>3. Absent \notin F  BY <1>1, FrameKinds
<1>10. \A u \in DOMAIN m.pt : \A k \in PtIdx : IsLast(m, u, k) => IsLast(n, u, k)
  BY GrownLast
<1>. SUFFICES ASSUME NEW u \in DOMAIN n.pt, NEW w \in DOMAIN n.pt,
                     NEW k \in PtIdx, NEW o \in PtIdx,
                     n.pt[u][k] = n.pt[w][o], n.pt[u][k] \in F
              PROVE  (u = w /\ k = o) \/ IsLast(n, u, k) \/ IsLast(n, w, o)
  BY DEF PagesUnique
<1>4. \/ u = t /\ k \in R /\ n.pt[u][k] \in P
      \/ u \in DOMAIN m.pt /\ ~(u = t /\ k \in R) /\ n.pt[u][k] = m.pt[u][k]
  BY <1>3, GrownPages
<1>5. \/ w = t /\ o \in R /\ n.pt[w][o] \in P
      \/ w \in DOMAIN m.pt /\ ~(w = t /\ o \in R) /\ n.pt[w][o] = m.pt[w][o]
  BY <1>3, GrownPages
<1>6. CASE u = t /\ k \in R /\ w = t /\ o \in R
  BY <1>1, <1>6 DEF Grown
<1>7. CASE u \in DOMAIN m.pt /\ n.pt[u][k] = m.pt[u][k] /\ n.pt[w][o] \in P
  <2>1. UnusedElse(m, m.pt[u][k])  BY <1>2, <1>7
  <2>. QED  BY <2>1, <1>7, <1>10 DEF UnusedElse
<1>8. CASE w \in DOMAIN m.pt /\ n.pt[w][o] = m.pt[w][o] /\ n.pt[u][k] \in P
  <2>1. UnusedElse(m, m.pt[w][o])  BY <1>2, <1>8
  <2>. QED  BY <2>1, <1>8, <1>10 DEF UnusedElse
<1>9. CASE /\ u \in DOMAIN m.pt /\ n.pt[u][k] = m.pt[u][k]
           /\ w \in DOMAIN m.pt /\ n.pt[w][o] = m.pt[w][o]
  <2>1. m.pt[u][k] = m.pt[w][o] /\ m.pt[u][k] \in F  BY <1>9
  <2>. QED  BY <2>1, <1>1, <1>9, <1>10 DEF PagesUnique
<1>. QED  BY <1>4, <1>5, <1>6, <1>7, <1>8, <1>9

\* After growth directories, page tables, pages and the pool share no frame.
LEMMA GrownApart ==
  ASSUME NEW F, NEW m, NEW n, NEW d, NEW i, NEW t, NEW R, NEW P, NEW pl,
         Growth(m, F, n, d, i, t, R, P, pl)
  PROVE  Apart(n)
<1>1. /\ Grown(m, n, d, i, t, R, P, pl) /\ F \in SUBSET (Nat \ {0})
      /\ Apart(m) /\ Fresh(m, F, P) /\ GrownTable(m, F, d, i, t) /\ Typed(m, F)
  BY DEF Growth, MemOK
<1>2. /\ n.flipped = m.flipped /\ n.pool = m.pool \ {t} /\ DOMAIN n.pt = DOMAIN m.pt \cup {t}
      /\ DOMAIN n.pdt = DOMAIN m.pdt
  BY <1>1 DEF Grown
<1>3. Absent \notin F /\ 0 \notin F /\ KernelPt # Absent /\ KernelPt # 0
  <2>1. KernelPt # Absent /\ KernelPt # 0  BY DEF KernelPt, Absent
  <2>. QED  BY <2>1, <1>1, FrameKinds
<1>4. DOMAIN m.pt \subseteq F \cup {KernelPt} /\ m.pool \subseteq F  BY <1>1 DEF Typed
<1>5. t \in F \cup {KernelPt}  BY <1>1 DEF GrownTable
<1>6. \A x \in n.pool : Unused(n, x) /\ x \notin DOMAIN n.pdt
  <2>. SUFFICES ASSUME NEW x \in n.pool PROVE Unused(n, x) /\ x \notin DOMAIN n.pdt
    OBVIOUS
  <2>1. x \in m.pool /\ x # t /\ x \in F  BY <1>2, <1>4
  <2>2. Unused(m, x) /\ x \notin DOMAIN m.pdt  BY <2>1, <1>1 DEF Apart
  <2>3. x \notin P  BY <2>1, <1>1, <1>3 DEF Fresh
  <2>4. \A u \in DOMAIN n.pt : \A k \in PtIdx : n.pt[u][k] # x
    <3>. SUFFICES ASSUME NEW u \in DOMAIN n.pt, NEW k \in PtIdx PROVE n.pt[u][k] # x
      OBVIOUS
    <3>1. \/ n.pt[u][k] \in P \/ n.pt[u][k] = Absent
          \/ u \in DOMAIN m.pt /\ n.pt[u][k] = m.pt[u][k]
      BY GrownPages
    <3>. QED  BY <3>1, <2>1, <2>2, <2>3, <1>3 DEF Unused
  <2>. QED  BY <2>1, <2>2, <2>4, <1>2 DEF Unused
<1>7. \A u \in DOMAIN n.pt : \A k \in PtIdx : n.pt[u][k] \notin DOMAIN n.pt
  <2>. SUFFICES ASSUME NEW u \in DOMAIN n.pt, NEW k \in PtIdx
                PROVE  n.pt[u][k] \notin DOMAIN n.pt
    OBVIOUS
  <2>1. \/ n.pt[u][k] \in P \/ n.pt[u][k] = Absent
        \/ u \in DOMAIN m.pt /\ n.pt[u][k] = m.pt[u][k]
    BY GrownPages
  <2>2. CASE n.pt[u][k] = Absent
    BY <2>2, <1>2, <1>3, <1>4, <1>5
  <2>3. CASE n.pt[u][k] \in P
    <3>1. PICK x : x = n.pt[u][k]  OBVIOUS
    <3>2. CASE x = 0
      BY <3>1, <3>2, <1>2, <1>3, <1>4, <1>5
    <3>3. CASE UnusedElse(m, x) /\ x \notin m.pool
      <4>1. x \notin DOMAIN m.pt  BY <3>3 DEF UnusedElse
      <4>2. t \notin DOMAIN m.pt => t \in m.pool  BY <1>1 DEF GrownTable
      <4>. QED  BY <3>1, <3>3, <4>1, <4>2, <1>2
    <3>. QED  BY <3>1, <3>2, <3>3, <2>3, <1>1 DEF Fresh
  <2>4. CASE u \in DOMAIN m.pt /\ n.pt[u][k] = m.pt[u][k]
    <3>1. m.pt[u][k] \notin DOMAIN m.pt  BY <2>4, <1>1 DEF Apart
    <3>2. t \notin DOMAIN m.pt => m.pt[u][k] # t
      BY <2>4, <1>1 DEF GrownTable, Unused
    <3>. QED  BY <3>1, <3>2, <2>4, <1>2
  <2>. QED  BY <2>1, <2>2, <2>3, <2>4
<1>. QED  BY <1>6, <1>7 DEF Apart

\* The table is not another one of a process.
LEMMA OtherTable ==
  ASSUME NEW F, NEW m, NEW n, NEW d, NEW i, NEW t, NEW R, NEW P, NEW pl,
         Growth(m, F, n, d, i, t, R, P, pl), NEW e \in Dirs(m), NEW k \in UserIdxs
  PROVE  m.pdt[e][k] # t
<1>1. /\ Grown(m, n, d, i, t, R, P, pl) /\ GrownTable(m, F, d, i, t) /\ TablesUnique(m)
  BY DEF Growth, MemOK
<1>2. k \in PdtIdx /\ k < KernelIdx /\ k \in Nat  BY Sizes DEF UserIdxs, PdtIdx
<1>3. e \in DOMAIN m.pdt  BY DEF Dirs
<1>4. CASE t \notin DOMAIN m.pt
  BY <1>1, <1>2, <1>3, <1>4 DEF GrownTable
<1>5. CASE t \in DOMAIN m.pt
  <2>1. d = KernelPdt /\ m.pdt[d][i] = t /\ i \in KernelIdxs /\ i \in PdtIdx
        /\ d \in DOMAIN m.pdt
    BY <1>1, <1>5 DEF Grown, GrownTable
  <2>2. k # i  BY <2>1, <1>2, Sizes DEF KernelIdxs
  <2>. QED  BY <2>1, <2>2, <1>1, <1>2, <1>3, <1>5 DEF TablesUnique
<1>. QED  BY <1>4, <1>5

\* After growth a table of a process still shows its one page only, and absent
\* entries have no U/S bit.
LEMMA GrownUserTables ==
  ASSUME NEW F, NEW m, NEW n, NEW d, NEW i, NEW t, NEW R, NEW P, NEW pl,
         Growth(m, F, n, d, i, t, R, P, pl)
  PROVE  UserTables(n)
<1>1. /\ Grown(m, n, d, i, t, R, P, pl) /\ F \in SUBSET (Nat \ {0})
      /\ UserTables(m) /\ Fresh(m, F, P) /\ GrownTable(m, F, d, i, t) /\ Typed(m, F)
      /\ Target(m, d, i, R, pl) /\ TablesUnique(m)
  BY DEF Growth, MemOK
<1>2. /\ DOMAIN n.pt = DOMAIN m.pt \cup {t} /\ Dirs(n) = Dirs(m)
      /\ Dirs(m) \subseteq DOMAIN m.pdt
  BY <1>1 DEF Grown, Dirs
<1>3. ASSUME NEW e \in Dirs(m), NEW k \in UserIdxs, NEW j \in PtIdx,
             n.pdt[e][k] \in DOMAIN n.pt, j # IF k = 0 THEN 0 ELSE TmpIdx
      PROVE  n.pt[n.pdt[e][k]][j] = Absent
  <2>1. k \in PdtIdx /\ k < KernelIdx /\ k \in Nat  BY Sizes DEF UserIdxs, PdtIdx
  <2>2. CASE e = d /\ k = i
    <3>1. R = {IF i = 0 THEN 0 ELSE TmpIdx} /\ m.pdt[d][i] = Absent
      BY <2>2, <1>1 DEF Target, Dirs
    <3>2. j \notin R  BY <3>1, <2>2, <1>3
    <3>3. n.pdt[e][k] = t /\ t \notin DOMAIN m.pt  BY <3>1, <2>2, <1>1 DEF Grown, GrownTable
    <3>. QED  BY <3>2, <3>3, <1>1 DEF Grown
  <2>3. CASE ~(e = d /\ k = i)
    <3>1. n.pdt[e][k] = m.pdt[e][k]  BY <2>1, <2>3, <1>1, <1>2 DEF Grown
    <3>2. m.pdt[e][k] # t  BY OtherTable
    <3>3. m.pdt[e][k] \in DOMAIN m.pt  BY <3>1, <3>2, <1>2, <1>3
    <3>4. m.pt[m.pdt[e][k]][j] = Absent
      BY <3>3, <1>1, <1>3 DEF UserTables, UserIdxs
    <3>. QED  BY <3>1, <3>2, <3>3, <3>4, <1>1 DEF Grown
  <2>. QED  BY <2>2, <2>3
<1>4. \A u \in DOMAIN n.pt : \A k \in PtIdx : <<u, k>> \in n.upte => n.pt[u][k] # Absent
  <2>. SUFFICES ASSUME NEW u \in DOMAIN n.pt, NEW k \in PtIdx, <<u, k>> \in n.upte
                PROVE  n.pt[u][k] # Absent
    OBVIOUS
  <2>1. n.upte = Grant(m.upte, {t} \X R, pl) /\ m.upte \subseteq (DOMAIN m.pt) \X PtIdx
    BY <1>1 DEF Grown, Typed
  <2>2. (u = t /\ k \in R) \/ <<u, k>> \in m.upte  BY <2>1 DEF Grant
  <2>3. Absent \notin P
    <3>1. Absent # 0  BY DEF Absent
    <3>. QED  BY <3>1, <1>1, FrameKinds DEF Fresh
  <2>4. CASE u = t /\ k \in R
    BY <2>3, <2>4, <1>1 DEF Grown
  <2>5. CASE ~(u = t /\ k \in R)
    <3>1. <<u, k>> \in m.upte /\ u \in DOMAIN m.pt  BY <2>1, <2>2, <2>5
    <3>2. m.pt[u][k] # Absent  BY <3>1, <1>1 DEF UserTables
    <3>3. n.pt[u][k] = m.pt[u][k]  BY <3>1, <2>5, GrownPages
    <3>. QED  BY <3>2, <3>3
  <2>. QED  BY <2>4, <2>5
<1>5. 0 \in UserIdxs /\ StackIdx \in UserIdxs /\ StackIdx # 0  BY Sizes DEF UserIdxs
<1>. QED  BY <1>2, <1>3, <1>4, <1>5 DEF UserTables

\* Growth of one directory leaves the user part of every other as it was.
LEMMA GrownKeeps ==
  ASSUME NEW F, NEW m, NEW n, NEW d, NEW i, NEW t, NEW R, NEW P, NEW pl,
         Growth(m, F, n, d, i, t, R, P, pl)
  PROVE  Keeps(m, n, Dirs(m) \ {d})
<1>1. /\ Grown(m, n, d, i, t, R, P, pl) /\ GrownTable(m, F, d, i, t) /\ Typed(m, F)
      /\ KernelOK(m) /\ TablesUnique(m) /\ Fresh(m, F, P)
  BY DEF Growth, MemOK
<1>2. /\ n.pool \subseteq m.pool /\ DOMAIN m.pdt \subseteq DOMAIN n.pdt
      /\ DOMAIN m.pt \subseteq DOMAIN n.pt /\ n.flipped = m.flipped
  BY <1>1 DEF Grown
<1>3. ASSUME NEW e \in Dirs(m) \ {d}
      PROVE  /\ \A k \in PdtIdx : n.pdt[e][k] = m.pdt[e][k]
             /\ \A k \in PdtIdx : <<e, k>> \in m.upde => <<e, k>> \in n.upde
             /\ \A k \in UserIdxs : m.pdt[e][k] \in DOMAIN m.pt =>
                  \A j \in PtIdx :
                    /\ n.pt[m.pdt[e][k]][j] = m.pt[m.pdt[e][k]][j]
                    /\ <<m.pdt[e][k], j>> \in m.upte => <<m.pdt[e][k], j>> \in n.upte
                    /\ OnLast(n, m.pt[m.pdt[e][k]][j]) => OnLast(m, m.pt[m.pdt[e][k]][j])
  <2>1. \A k \in PdtIdx : n.pdt[e][k] = m.pdt[e][k]
    BY <1>1, <1>3 DEF Grown, Dirs
  <2>2. \A k \in PdtIdx : <<e, k>> \in m.upde => <<e, k>> \in n.upde
    <3>1. n.upde = m.upde \/ n.upde = Grant(m.upde, {<<d, i>>}, pl)  BY <1>1 DEF Grown
    <3>2. \A k \in PdtIdx : <<e, k>> # <<d, i>>  BY <1>3
    <3>. QED  BY <3>1, <3>2 DEF Grant
  <2>3. ASSUME NEW k \in UserIdxs, m.pdt[e][k] \in DOMAIN m.pt, NEW j \in PtIdx
        PROVE  /\ n.pt[m.pdt[e][k]][j] = m.pt[m.pdt[e][k]][j]
               /\ <<m.pdt[e][k], j>> \in m.upte => <<m.pdt[e][k], j>> \in n.upte
               /\ OnLast(n, m.pt[m.pdt[e][k]][j]) => OnLast(m, m.pt[m.pdt[e][k]][j])
    <3>1. PICK u : u = m.pdt[e][k]  OBVIOUS
    <3>2. u # t /\ u \in DOMAIN m.pt  BY <3>1, <2>3, <1>3, OtherTable
    <3>3. n.pt[u][j] = m.pt[u][j]  BY <3>2, <2>3, <1>1 DEF Grown
    <3>4. n.upte = Grant(m.upte, {t} \X R, pl)  BY <1>1 DEF Grown
    <3>5. <<u, j>> \notin {t} \X R  BY <3>2
    <3>6. <<u, j>> \in m.upte => <<u, j>> \in n.upte  BY <3>4, <3>5 DEF Grant
    <3>7. OnLast(n, m.pt[u][j]) => OnLast(m, m.pt[u][j])
      <4>1. m.pt[u][j] \in P /\ OnLast(n, m.pt[u][j]) => IsLast(m, u, j)
        BY <3>2, <2>3, <1>1 DEF Fresh, UnusedElse, OnLast
      <4>2. ~IsLast(m, u, j)
        <5>1. e \in DOMAIN m.pdt /\ KernelPdt \in DOMAIN m.pdt /\ k \in PdtIdx
          BY <2>3, <1>1, <1>3, Sizes DEF Dirs, Typed, UserIdxs
        <5>2. LastIdx \in PdtIdx /\ k # LastIdx  BY <2>3, LastAddress
        <5>. QED  BY <5>1, <5>2, <3>1, <3>2, <1>1 DEF TablesUnique, IsLast
      <4>. QED  BY <4>1, <4>2, GrownLast
    <3>. QED  BY <3>1, <3>3, <3>6, <3>7
  <2>. QED  BY <2>1, <2>2, <2>3
<1>4. ASSUME NEW k \in KernelIdxs, m.pdt[KernelPdt][k] # Absent
      PROVE  /\ n.pdt[KernelPdt][k] = m.pdt[KernelPdt][k]
             /\ \A j \in PtIdx : m.pt[m.pdt[KernelPdt][k]][j] # Absent =>
                  n.pt[m.pdt[KernelPdt][k]][j] = m.pt[m.pdt[KernelPdt][k]][j]
  <2>1. k \in PdtIdx /\ KernelPdt \in DOMAIN m.pdt /\ (k = KernelIdx \/ k > KernelIdx)
    BY <1>1, Sizes DEF KernelIdxs, PdtIdx, Typed
  <2>2. n.pdt[KernelPdt][k] = m.pdt[KernelPdt][k]
    BY <2>1, <1>1, <1>4 DEF Grown
  <2>3. PICK u : u = m.pdt[KernelPdt][k]  OBVIOUS
  <2>4. u \in DOMAIN m.pt  BY <2>1, <2>3, <1>1, <1>4 DEF KernelOK, Typed
  <2>5. \A j \in PtIdx : m.pt[u][j] # Absent => n.pt[u][j] = m.pt[u][j]
    <3>. SUFFICES ASSUME NEW j \in PtIdx, m.pt[u][j] # Absent PROVE n.pt[u][j] = m.pt[u][j]
      OBVIOUS
    <3>1. ~(u = t /\ j \in R)  BY <2>4, <1>1 DEF Grown
    <3>2. u \in DOMAIN n.pt  BY <2>4, <1>2
    <3>. QED  BY <3>1, <3>2, <2>4, GrownPages
  <2>. QED  BY <2>2, <2>3, <2>5
<1>. QED  BY <1>2, <1>3, <1>4 DEF Keeps

\* Every frame but those in P is in the pool or in use.
AccountedBut(m, F, P) == \A x \in F : x \in m.pool \/ InUse(m, x) \/ x \in P

\* When only the frames P were unaccounted for, growth by P accounts for all.
LEMMA GrownAccounted ==
  ASSUME NEW F, NEW m, NEW n, NEW d, NEW i, NEW t, NEW R, NEW P, NEW pl,
         Growth(m, F, n, d, i, t, R, P, pl), AccountedBut(m, F, P)
  PROVE  Accounted(n, F)
<1>1. /\ Grown(m, n, d, i, t, R, P, pl) /\ GrownTable(m, F, d, i, t) /\ Typed(m, F)
      /\ F \in SUBSET (Nat \ {0})
  BY DEF Growth, MemOK
<1>2. /\ n.flipped = m.flipped /\ n.pool = m.pool \ {t} /\ DOMAIN n.pt = DOMAIN m.pt \cup {t}
      /\ DOMAIN n.pdt = DOMAIN m.pdt /\ n.pdt[d][i] = t /\ R \subseteq PtIdx
      /\ \A x \in P : \E k \in R : n.pt[t][k] = x
      /\ d \in DOMAIN m.pdt /\ i \in PdtIdx
  BY <1>1 DEF Grown, GrownTable
<1>. SUFFICES ASSUME NEW x \in F PROVE x \in n.pool \/ InUse(n, x)
  BY DEF Accounted
<1>3. x # Absent  BY <1>1, FrameKinds
<1>4. CASE x \in m.pool
  BY <1>2, <1>4 DEF InUse
<1>5. CASE x \in P
  <2>1. PICK k \in R : n.pt[t][k] = x  BY <1>2, <1>5
  <2>. QED  BY <2>1, <1>2 DEF InUse
<1>6. CASE InUse(m, x)
  <2>1. PICK e \in DOMAIN m.pdt : \E o \in PdtIdx :
          \/ m.pdt[e][o] = x
          \/ m.pdt[e][o] \in DOMAIN m.pt /\ \E j \in PtIdx : m.pt[m.pdt[e][o]][j] = x
    BY <1>6 DEF InUse
  <2>2. PICK o \in PdtIdx :
          \/ m.pdt[e][o] = x
          \/ m.pdt[e][o] \in DOMAIN m.pt /\ \E j \in PtIdx : m.pt[m.pdt[e][o]][j] = x
    BY <2>1
  <2>3. m.pdt[e][o] # Absent => n.pdt[e][o] = m.pdt[e][o]
    BY <1>1 DEF Grown
  <2>4. CASE m.pdt[e][o] = x
    BY <2>3, <2>4, <1>2, <1>3 DEF InUse
  <2>5. CASE m.pdt[e][o] \in DOMAIN m.pt /\ \E j \in PtIdx : m.pt[m.pdt[e][o]][j] = x
    <3>1. PICK j \in PtIdx : m.pt[m.pdt[e][o]][j] = x  BY <2>5
    <3>2. PICK u : u = m.pdt[e][o]  OBVIOUS
    <3>3. u \in DOMAIN m.pt /\ m.pt[u][j] = x /\ u \in DOMAIN n.pt
      BY <3>1, <3>2, <2>5, <1>2
    <3>4. u # Absent
      <4>1. DOMAIN m.pt \subseteq F \cup {KernelPt}  BY <1>1 DEF Typed
      <4>2. KernelPt # Absent  BY DEF KernelPt, Absent
      <4>. QED  BY <3>3, <4>1, <4>2, <1>1, FrameKinds
    <3>5. ~(u = t /\ j \in R)  BY <3>3, <1>1, <1>3 DEF Grown
    <3>6. n.pt[u][j] = x  BY <3>3, <3>5, GrownPages
    <3>7. n.pdt[e][o] = u  BY <3>2, <3>4, <2>3
    <3>. QED  BY <3>3, <3>6, <3>7, <1>2 DEF InUse
  <2>. QED  BY <2>2, <2>4, <2>5
<1>. QED  BY <1>4, <1>5, <1>6 DEF AccountedBut

\* The results for a successful call of pdt_map_memory.
LEMMA MapKeepsOrder ==
  ASSUME NEW F, F \in SUBSET (Nat \ {0}), NEW m, MemOK(m, F),
         NEW d, NEW i, NEW j \in PtIdx, NEW c \in Nat, j + c <= PtEntries,
         NEW paddr \in Nat, NEW pl, NEW n, MapsTo(m, n, d, i, j, paddr, c, pl),
         NEW R, R = j .. (j + c - 1), NEW P, P = paddr .. (paddr + c - 1),
         Target(m, d, i, R, pl), Fresh(m, F, P)
  PROVE  /\ MemOK(n, F) /\ Keeps(m, n, Dirs(m) \ {d})
         /\ AccountedBut(m, F, P) => Accounted(n, F)
         /\ Growth(m, F, n, d, i, n.pdt[d][i], R, P, pl)
<1>1. PICK t : t = n.pdt[d][i]  OBVIOUS
<1>2. Grown(m, n, d, i, t, R, P, pl)  BY <1>1, Grows
<1>3. GrownTable(m, F, d, i, t)  BY <1>2, TableOfGrown
<1>4. Growth(m, F, n, d, i, t, R, P, pl)  BY <1>2, <1>3 DEF Growth
<1>5. /\ Typed(n, F) /\ KernelOK(n) /\ DirsOK(n) /\ TablesUnique(n) /\ PagesUnique(n, F)
      /\ Apart(n) /\ UserTables(n)
  BY <1>4, GrownTyped, GrownKernel, GrownDirs, GrownTablesUnique, GrownPagesUnique,
     GrownApart, GrownUserTables
<1>6. Keeps(m, n, Dirs(m) \ {d})  BY <1>4, GrownKeeps
<1>7. AccountedBut(m, F, P) => Accounted(n, F)  BY <1>4, GrownAccounted
<1>. QED  BY <1>1, <1>4, <1>5, <1>6, <1>7 DEF MemOK

-----------------------------------------------------------------------------
(***************************************************************************)
(* The operations of the kernel on a memory in order.                      *)
(***************************************************************************)

\* The invariant of the memory gives the hypotheses of the lemmas on mapping.
LEMMA OrderReady ==
  ASSUME NEW F, F \in SUBSET (Nat \ {0}), NEW m, MemOK(m, F)
  PROVE  /\ Ready(m, F) /\ KernelOK(m) /\ KernelPdt \in DOMAIN m.pdt
         /\ Identity \notin DOMAIN m.pt
<1>1. Typed(m, F) /\ KernelOK(m) /\ Apart(m)  BY DEF MemOK
<1>2. Shape(m)  BY <1>1 DEF Typed, Shape
<1>3. m.pool \cap DOMAIN m.pt = {}  BY <1>1 DEF Apart, Unused
<1>4. Identity \notin DOMAIN m.pt
  <2>1. DOMAIN m.pt \subseteq F \cup {KernelPt} /\ Identity # KernelPt
    BY <1>1 DEF Typed, Identity, KernelPt
  <2>. QED  BY <2>1, FrameKinds
<1>. QED  BY <1>1, <1>2, <1>3, <1>4 DEF Ready, Typed, KernelOK

\* Keeping is transitive.
LEMMA KeepsTrans ==
  ASSUME NEW a, NEW b, NEW c, NEW D, NEW E, D \subseteq E, Keeps(a, b, D), Keeps(b, c, E)
  PROVE  Keeps(a, c, D)
<1>1. /\ c.pool \subseteq a.pool /\ DOMAIN a.pdt \subseteq DOMAIN c.pdt
      /\ c.flipped = a.flipped /\ DOMAIN a.pt \subseteq DOMAIN c.pt
  BY DEF Keeps
<1>2. ASSUME NEW d \in D
      PROVE  /\ \A i \in PdtIdx : c.pdt[d][i] = a.pdt[d][i]
             /\ \A i \in PdtIdx : <<d, i>> \in a.upde => <<d, i>> \in c.upde
             /\ \A i \in UserIdxs : a.pdt[d][i] \in DOMAIN a.pt =>
                  \A j \in PtIdx :
                    /\ c.pt[a.pdt[d][i]][j] = a.pt[a.pdt[d][i]][j]
                    /\ <<a.pdt[d][i], j>> \in a.upte => <<a.pdt[d][i], j>> \in c.upte
                    /\ OnLast(c, a.pt[a.pdt[d][i]][j]) => OnLast(a, a.pt[a.pdt[d][i]][j])
  <2>1. /\ \A i \in PdtIdx : b.pdt[d][i] = a.pdt[d][i] /\ c.pdt[d][i] = b.pdt[d][i]
        /\ \A i \in PdtIdx : <<d, i>> \in a.upde => <<d, i>> \in c.upde
    BY <1>2 DEF Keeps
  <2>2. ASSUME NEW i \in UserIdxs, a.pdt[d][i] \in DOMAIN a.pt, NEW j \in PtIdx
        PROVE  /\ c.pt[a.pdt[d][i]][j] = a.pt[a.pdt[d][i]][j]
               /\ <<a.pdt[d][i], j>> \in a.upte => <<a.pdt[d][i], j>> \in c.upte
               /\ OnLast(c, a.pt[a.pdt[d][i]][j]) => OnLast(a, a.pt[a.pdt[d][i]][j])
    <3>1. i \in PdtIdx  BY <2>2, Sizes DEF UserIdxs
    <3>2. PICK t : t = a.pdt[d][i]  OBVIOUS
    <3>3. b.pdt[d][i] = t /\ t \in DOMAIN b.pt  BY <3>1, <3>2, <2>1, <2>2 DEF Keeps
    <3>4. b.pt[t][j] = a.pt[t][j] /\ (<<t, j>> \in a.upte => <<t, j>> \in b.upte)
          /\ (OnLast(b, a.pt[t][j]) => OnLast(a, a.pt[t][j]))
      BY <3>2, <2>2, <1>2 DEF Keeps
    <3>5. c.pt[t][j] = b.pt[t][j] /\ (<<t, j>> \in b.upte => <<t, j>> \in c.upte)
          /\ (OnLast(c, b.pt[t][j]) => OnLast(b, b.pt[t][j]))
      BY <3>3, <2>2, <1>2 DEF Keeps
    <3>. QED  BY <3>2, <3>4, <3>5
  <2>. QED  BY <2>1, <2>2
<1>3. ASSUME NEW i \in KernelIdxs, a.pdt[KernelPdt][i] # Absent
      PROVE  /\ c.pdt[KernelPdt][i] = a.pdt[KernelPdt][i]
             /\ \A j \in PtIdx : a.pt[a.pdt[KernelPdt][i]][j] # Absent =>
                  c.pt[a.pdt[KernelPdt][i]][j] = a.pt[a.pdt[KernelPdt][i]][j]
  <2>1. PICK t : t = a.pdt[KernelPdt][i]  OBVIOUS
  <2>2. /\ b.pdt[KernelPdt][i] = t
        /\ \A j \in PtIdx : a.pt[t][j] # Absent => b.pt[t][j] = a.pt[t][j]
    BY <2>1, <1>3 DEF Keeps
  <2>3. /\ c.pdt[KernelPdt][i] = t
        /\ \A j \in PtIdx : b.pt[t][j] # Absent => c.pt[t][j] = b.pt[t][j]
    BY <2>1, <2>2, <1>3 DEF Keeps
  <2>. QED  BY <2>1, <2>2, <2>3
<1>. QED  BY <1>1, <1>2, <1>3 DEF Keeps

\* A memory keeps what it holds when nothing changes.
LEMMA KeepsSelf ==
  ASSUME NEW m, NEW D
  PROVE  Keeps(m, m, D)
BY DEF Keeps

\* A smaller pool.
Shrunk(m, n) ==
  /\ IsRecord(n) /\ n.pool \subseteq m.pool /\ n.flipped = m.flipped /\ n.pdt = m.pdt /\ n.pt = m.pt
  /\ n.upde = m.upde /\ n.upte = m.upte

\* Taking frames out of the pool and nothing else keeps the invariant.
LEMMA ShrunkOK ==
  ASSUME NEW F, NEW m, MemOK(m, F), NEW n, Shrunk(m, n)
  PROVE  MemOK(n, F) /\ Keeps(m, n, Dirs(m))
<1>1. Typed(n, F)  BY DEF MemOK, Shrunk, Typed, Dirs
<1>2. KernelOK(n)  BY DEF MemOK, Shrunk, KernelOK
<1>3. DirsOK(n)  BY DEF MemOK, Shrunk, DirsOK, Dirs
<1>4. TablesUnique(n)  BY DEF MemOK, Shrunk, TablesUnique
<1>5. PagesUnique(n, F)  BY DEF MemOK, Shrunk, PagesUnique, IsLast
<1>6. Apart(n)  BY DEF MemOK, Shrunk, Apart, Unused
<1>7. UserTables(n)  BY DEF MemOK, Shrunk, UserTables, Dirs
<1>8. Keeps(m, n, Dirs(m))  BY DEF Shrunk, Keeps, OnLast
<1>. QED  BY <1>1, <1>2, <1>3, <1>4, <1>5, <1>6, <1>7, <1>8 DEF MemOK

\* A change of the word at address 0 alone keeps everything.
LEMMA SameOK ==
  ASSUME NEW F, NEW m, MemOK(m, F), NEW n, SameTables(m, n)
  PROVE  /\ MemOK(n, F) /\ Keeps(m, n, Dirs(m)) /\ DOMAIN n.pdt = DOMAIN m.pdt
         /\ Accounted(m, F) => Accounted(n, F)
         /\ \A P : Fresh(m, F, P) => Fresh(n, F, P)
         /\ \A P : AccountedBut(m, F, P) => AccountedBut(n, F, P)
         /\ \A x : OnLast(n, x) => OnLast(m, x)
<1>1. Shrunk(m, n)  BY DEF SameTables, Shrunk
<1>2. MemOK(n, F) /\ Keeps(m, n, Dirs(m))  BY <1>1, ShrunkOK
<1>3. n.pool = m.pool /\ n.pdt = m.pdt /\ n.pt = m.pt  BY DEF SameTables
<1>4. \A P : Fresh(m, F, P) => Fresh(n, F, P)
  BY <1>3 DEF Fresh, UnusedElse, IsLast
<1>5. \A x : InUse(m, x) => InUse(n, x)  BY <1>3 DEF InUse
<1>6. \A x : OnLast(n, x) => OnLast(m, x)  BY <1>3 DEF OnLast
<1>. QED  BY <1>2, <1>3, <1>4, <1>5, <1>6 DEF Accounted, AccountedBut

\* The frames P have been taken from the pool of m.
Taken(m, n, F, P) ==
  /\ P \subseteq m.pool /\ n.flipped = m.flipped /\ n.pool = m.pool \ P /\ Shrunk(m, n)
  /\ MemOK(n, F) /\ Keeps(m, n, Dirs(m)) /\ Fresh(n, F, P)
  /\ \A x \in P : Unused(n, x)
  /\ Accounted(m, F) => AccountedBut(n, F, P)

\* Frames taken out of the pool are fresh: nothing in the memory uses them.
LEMMA TakeOK ==
  ASSUME NEW F, NEW m, MemOK(m, F), NEW n, Shrunk(m, n), NEW P, P \subseteq m.pool,
         n.flipped = m.flipped /\ n.pool = m.pool \ P
  PROVE  Taken(m, n, F, P)
<1>1. MemOK(n, F) /\ Keeps(m, n, Dirs(m))  BY ShrunkOK
<1>2. Fresh(n, F, P) /\ \A x \in P : Unused(n, x)
  <2>1. \A x \in P : x \in F /\ Unused(m, x)  BY DEF MemOK, Typed, Apart
  <2>. QED  BY <2>1 DEF Fresh, Shrunk, Unused, UnusedElse
<1>3. Accounted(m, F) => AccountedBut(n, F, P)
  BY DEF Accounted, AccountedBut, Shrunk, InUse
<1>. QED  BY <1>1, <1>2, <1>3 DEF Taken

\* pfa_allocate of n frames.
AllocResult(m, a, F, n) ==
  \/ a.ret = 0 /\ a.m = m
  \/ a.ret \in Nat \ {0} /\ Taken(m, a.m, F, a.ret .. (a.ret + n - 1))

\* pfa_allocate returns 0 and changes nothing, or returns n fresh frames.
LEMMA AllocOK ==
  ASSUME NEW F, F \in SUBSET (Nat \ {0}), NEW m, MemOK(m, F), NEW n \in Nat, n > 0
  PROVE  AllocResult(m, pfa_allocate(m, n), F, n)
<1>1. PICK a : a = pfa_allocate(m, n)  OBVIOUS
<1>2. IsRecord(m) /\ m.pool \subseteq F  BY DEF MemOK, Typed
<1>3. \/ a.ret = 0 /\ a.m = m
      \/ /\ a.ret \in Nat \ {0}
         /\ a.ret .. (a.ret + n - 1) \subseteq m.pool
         /\ a.m.flipped = m.flipped /\ a.m.pool = m.pool \ (a.ret .. (a.ret + n - 1))
         /\ IsRecord(a.m) /\ a.m.pdt = m.pdt /\ a.m.pt = m.pt
         /\ a.m.upde = m.upde /\ a.m.upte = m.upte
  BY <1>1, <1>2, Allocate
<1>4. CASE a.ret = 0 /\ a.m = m
  BY <1>1, <1>4 DEF AllocResult
<1>5. CASE ~(a.ret = 0 /\ a.m = m)
  <2>1. PICK P : P = a.ret .. (a.ret + n - 1)  OBVIOUS
  <2>2. PICK b : b = a.m  OBVIOUS
  <2>3. P \subseteq m.pool /\ b.flipped = m.flipped /\ b.pool = m.pool \ P /\ Shrunk(m, b)
    BY <1>3, <1>5, <2>1, <2>2 DEF Shrunk
  <2>4. Taken(m, b, F, P)  BY <2>3, TakeOK
  <2>. QED  BY <2>1, <2>2, <2>4, <1>1, <1>3, <1>5 DEF AllocResult
<1>. QED  BY <1>4, <1>5

\* pfa_allocate of one frame fails only when the pool is empty.
AllocOneResult(m, a, F) ==
  \/ a.ret = 0 /\ a.m = m /\ m.pool = {}
  \/ a.ret \in m.pool /\ a.ret # 0 /\ a.ret \in Nat /\ Taken(m, a.m, F, {a.ret})

\* pfa_allocate of one frame fails only when the pool is empty.
LEMMA AllocOneOK ==
  ASSUME NEW F, F \in SUBSET (Nat \ {0}), NEW m, MemOK(m, F)
  PROVE  AllocOneResult(m, pfa_allocate(m, 1), F)
<1>1. PICK a : a = pfa_allocate(m, 1)  OBVIOUS
<1>2. IsRecord(m) /\ m.pool \subseteq F  BY DEF MemOK, Typed
<1>3. \/ a.ret = 0 /\ a.m = m /\ m.pool = {}
      \/ /\ a.ret \in m.pool
         /\ a.m.flipped = m.flipped /\ a.m.pool = m.pool \ {a.ret}
         /\ IsRecord(a.m) /\ a.m.pdt = m.pdt /\ a.m.pt = m.pt
         /\ a.m.upde = m.upde /\ a.m.upte = m.upte
  BY <1>1, <1>2, AllocateOne
<1>4. CASE a.ret = 0 /\ a.m = m /\ m.pool = {}
  BY <1>1, <1>4 DEF AllocOneResult
<1>5. CASE ~(a.ret = 0 /\ a.m = m /\ m.pool = {})
  <2>1. PICK P : P = {a.ret}  OBVIOUS
  <2>2. PICK b : b = a.m  OBVIOUS
  <2>3. P \subseteq m.pool /\ b.flipped = m.flipped /\ b.pool = m.pool \ P /\ Shrunk(m, b)
    BY <1>3, <1>5, <2>1, <2>2 DEF Shrunk
  <2>4. Taken(m, b, F, P)  BY <2>3, TakeOK
  <2>5. a.ret \in Nat \ {0}  BY <1>2, <1>3, <1>5
  <2>. QED  BY <2>1, <2>2, <2>4, <2>5, <1>1, <1>3, <1>5 DEF AllocOneResult
<1>. QED  BY <1>4, <1>5

\* The kernel has no table for address v.
NoTable(m, v) ==
  \E i \in KernelIdxs : \E j \in PtIdx :
    v = (i * PtEntries) + j /\ i # KernelIdx /\ m.pdt[KernelPdt][i] = Absent

\* Mapping c pages from paddr on where pdt_kernel_find_next_vaddr found v.
KernelMapResult(m, r, F, paddr, v, c) ==
  \/ r.ret = 0 /\ r.m = m /\ (v # 0 => m.pool = {} /\ NoTable(m, v))
  \/ v = 0 /\ r.ret = c /\ SameTables(m, r.m)
  \/ /\ v # 0 /\ r.ret = c /\ MemOK(r.m, F) /\ Keeps(m, r.m, Dirs(m))
     /\ DOMAIN r.m.pdt = DOMAIN m.pdt
     /\ AccountedBut(m, F, paddr .. (paddr + c - 1)) => Accounted(r.m, F)
     /\ \E i \in KernelIdxs : \E j \in PtIdx :
          v = (i * PtEntries) + j /\ MapsTo(m, r.m, KernelPdt, i, j, paddr, c, PL0)

\* pdt_map_kernel_memory at the address that pdt_kernel_find_next_vaddr gave
\* maps all c pages, or maps none and returns 0, or writes at address 0; the
\* invariant holds after each.
LEMMA KernelMap ==
  ASSUME NEW F, F \in SUBSET (Nat \ {0}), NEW m, MemOK(m, F),
         NEW c \in Nat, c > 0, c <= PtEntries, NEW v, v = pdt_kernel_find_next_vaddr(m, c),
         v = 0 => c = 1, NEW paddr \in Nat, Fresh(m, F, paddr .. (paddr + c - 1))
  PROVE  KernelMapResult(m, pdt_map_kernel_memory(m, paddr, v, c), F, paddr, v, c)
<1>1. PICK r : r = pdt_map_memory(m, KernelPdt, paddr, v, c, PL0)  OBVIOUS
<1>2. r = pdt_map_kernel_memory(m, paddr, v, c)  BY <1>1 DEF pdt_map_kernel_memory
<1>3. Ready(m, F) /\ KernelOK(m) /\ KernelPdt \in DOMAIN m.pdt /\ Shape(m) /\ Typed(m, F)
      /\ Identity \notin DOMAIN m.pt
  BY OrderReady DEF Ready, MemOK
<1>4. CASE v = 0
  <2>1. m.pdt[KernelPdt][0] = Identity  BY <1>3 DEF KernelOK
  <2>. QED  BY <2>1, <1>1, <1>2, <1>3, <1>4, MapLow DEF KernelMapResult
<1>5. CASE v # 0
  <2>1. FoundAt(m, v, c)  BY <1>3, <1>5, FindVaddr
  <2>2. PICK i \in KernelIdxs : \E j \in PtIdx :
          /\ v = (i * PtEntries) + j /\ Place(m, KernelPdt, i, j, c)
          /\ m.pdt[KernelPdt][i] = Absent \/ RunFree(m, m.pdt[KernelPdt][i], i, j, c)
    BY <2>1 DEF FoundAt
  <2>3. PICK j \in PtIdx :
          /\ v = (i * PtEntries) + j /\ Place(m, KernelPdt, i, j, c)
          /\ m.pdt[KernelPdt][i] = Absent \/ RunFree(m, m.pdt[KernelPdt][i], i, j, c)
    BY <2>2
  <2>4. i \in PdtIdx /\ j + c <= PtEntries  BY <2>3 DEF Place
  <2>5. v \in Nat /\ pdt_idx(v) = i /\ pt_idx(v) = j  BY <2>3, <2>4, AddressOf
  <2>6. MapResult(m, r, KernelPdt, i, j, paddr, c, PL0)
    BY <2>3, <2>5, <1>1, <1>3, MapMemory
  <2>7. CASE r.ret = 0 /\ r.m = m /\ MapFails(m, KernelPdt, i, j)
    <3>1. ASSUME m.pdt[KernelPdt][i] # Absent PROVE FALSE
      <4>1. RunFree(m, m.pdt[KernelPdt][i], i, j, c)  BY <2>3, <3>1
      <4>2. ~RunFree(m, m.pdt[KernelPdt][i], i, j, 1)  BY <2>7, <3>1 DEF MapFails
      <4>3. j .. (j + 1 - 1) \subseteq j .. (j + c - 1)  BY DEF PtIdx
      <4>. QED  BY <4>1, <4>2, <4>3 DEF RunFree
    <3>2. m.pool = {} /\ NoTable(m, v)  BY <2>3, <2>7, <3>1 DEF MapFails, NoTable, Place
    <3>. QED  BY <2>7, <3>2, <1>2 DEF KernelMapResult
  <2>8. CASE r.ret = c /\ MapsTo(m, r.m, KernelPdt, i, j, paddr, c, PL0)
    <3>1. PICK n : n = r.m  OBVIOUS
    <3>2. PICK R : R = j .. (j + c - 1)  OBVIOUS
    <3>3. PICK P : P = paddr .. (paddr + c - 1)  OBVIOUS
    <3>4. Target(m, KernelPdt, i, R, PL0) /\ Fresh(m, F, P)  BY <3>3 DEF Target
    <3>5. /\ MemOK(n, F) /\ Keeps(m, n, Dirs(m) \ {KernelPdt})
          /\ AccountedBut(m, F, P) => Accounted(n, F)
      BY <3>1, <3>2, <3>3, <3>4, <2>4, <2>8, MapKeepsOrder, Zenon
    <3>6. Dirs(m) \ {KernelPdt} = Dirs(m)  BY DEF Dirs
    <3>7. DOMAIN n.pdt = DOMAIN m.pdt  BY <3>1, <2>8, Zenon DEF MapsTo
    <3>. QED  BY <3>1, <3>3, <3>5, <3>6, <3>7, <2>3, <2>8, <1>2, <1>5 DEF KernelMapResult
  <2>. QED  BY <2>6, <2>7, <2>8 DEF MapResult
<1>. QED  BY <1>4, <1>5

\* What taking a page of the kernel back leaves in order.
LEMMA ClearedOK ==
  ASSUME NEW F, F \in SUBSET (Nat \ {0}), NEW n, MemOK(n, F),
         NEW i \in KernelIdxs, NEW t, t = n.pdt[KernelPdt][i], t \in DOMAIN n.pt,
         NEW j \in PtIdx, NEW o, PageCleared(n, o, t, j), NEW x, x = n.pt[t][j]
  PROVE  /\ MemOK(o, F)
         /\ Accounted(n, F) => AccountedBut(o, F, {x})
<1>1. /\ Typed(n, F) /\ KernelOK(n) /\ DirsOK(n) /\ TablesUnique(n) /\ PagesUnique(n, F)
      /\ Apart(n) /\ UserTables(n)
  BY DEF MemOK
<1>2. /\ Shape(o) /\ o.pool = n.pool /\ o.flipped = n.flipped /\ o.pdt = n.pdt /\ o.upde = n.upde
      /\ o.upte = n.upte \ {<<t, j>>} /\ DOMAIN o.pt = DOMAIN n.pt
      /\ \A u \in DOMAIN n.pt : \A k \in PtIdx :
           o.pt[u][k] = IF u = t /\ k = j THEN Absent ELSE n.pt[u][k]
  BY DEF PageCleared
<1>3. \A u \in DOMAIN n.pt : \A k \in PtIdx : o.pt[u][k] \in {Absent, n.pt[u][k]}
  BY <1>2
<1>4. Typed(o, F)
  <2>1. \A u \in DOMAIN o.pt : \A k \in PtIdx :
          o.pt[u][k] \in F \cup {0, Absent, ImagePage, BitmapPage}
    BY <1>1, <1>2, <1>3 DEF Typed
  <2>2. o.upde \subseteq Dirs(o) \X UserIdxs /\ o.upte \subseteq (DOMAIN o.pt) \X PtIdx
    BY <1>1, <1>2 DEF Typed, Dirs
  <2>. QED  BY <2>1, <2>2, <1>1, <1>2 DEF Typed, Shape
<1>5. KernelOK(o)
  <2>1. TmpIdx \in PtIdx /\ KernelPt \in DOMAIN n.pt  BY <1>1, Sizes DEF Typed
  <2>2. o.pt[KernelPt][TmpIdx] = Absent  BY <2>1, <1>1, <1>3 DEF KernelOK
  <2>. QED  BY <2>2, <1>1, <1>2 DEF KernelOK
<1>6. DirsOK(o)  BY <1>1, <1>2 DEF DirsOK, Dirs
<1>7. TablesUnique(o)  BY <1>1, <1>2 DEF TablesUnique
<1>8. Absent \notin F /\ 0 \notin F /\ Absent # 0 /\ Absent # KernelPt
  <2>1. Absent # 0 /\ Absent # KernelPt  BY DEF Absent, KernelPt
  <2>. QED  BY <2>1, FrameKinds
<1>9. PagesUnique(o, F)
  <2>. SUFFICES ASSUME NEW u \in DOMAIN n.pt, NEW w \in DOMAIN n.pt,
                       NEW k \in PtIdx, NEW l \in PtIdx,
                       o.pt[u][k] = o.pt[w][l], o.pt[u][k] \in F
                PROVE  (u = w /\ k = l) \/ IsLast(o, u, k) \/ IsLast(o, w, l)
    BY <1>2 DEF PagesUnique
  <2>1. n.pt[u][k] = n.pt[w][l] /\ n.pt[u][k] \in F  BY <1>3, <1>8
  <2>. QED  BY <2>1, <1>1, <1>2 DEF PagesUnique, IsLast
<1>10. Absent \notin DOMAIN n.pt /\ Absent \notin n.pool
  BY <1>1, <1>8 DEF Typed
<1>11. Apart(o)
  <2>1. \A y \in n.pool : \A u \in DOMAIN n.pt : \A k \in PtIdx : o.pt[u][k] # y
    BY <1>1, <1>3, <1>10 DEF Apart, Unused
  <2>2. \A u \in DOMAIN n.pt : \A k \in PtIdx : o.pt[u][k] \notin DOMAIN n.pt
    BY <1>1, <1>3, <1>10 DEF Apart
  <2>. QED  BY <2>1, <2>2, <1>1, <1>2 DEF Apart, Unused
<1>12. UserTables(o)
  <2>1. Dirs(o) = Dirs(n)  BY <1>2 DEF Dirs
  <2>2. \A d \in Dirs(n) : \A k \in PtIdx :
          /\ (n.pdt[d][0] \in DOMAIN n.pt /\ k # 0) => o.pt[n.pdt[d][0]][k] = Absent
          /\ (n.pdt[d][StackIdx] \in DOMAIN n.pt /\ k # TmpIdx)
               => o.pt[n.pdt[d][StackIdx]][k] = Absent
    BY <1>1, <1>3 DEF UserTables
  <2>3. \A u \in DOMAIN n.pt : \A k \in PtIdx : <<u, k>> \in o.upte => o.pt[u][k] # Absent
    <3>. SUFFICES ASSUME NEW u \in DOMAIN n.pt, NEW k \in PtIdx, <<u, k>> \in o.upte
                  PROVE  o.pt[u][k] # Absent
      OBVIOUS
    <3>1. <<u, k>> \in n.upte /\ ~(u = t /\ k = j)  BY <1>2
    <3>. QED  BY <3>1, <1>1, <1>2 DEF UserTables
  <2>. QED  BY <2>1, <2>2, <2>3, <1>2 DEF UserTables
<1>13. ASSUME Accounted(n, F) PROVE AccountedBut(o, F, {x})
  <2>. SUFFICES ASSUME NEW y \in F, y # x PROVE y \in o.pool \/ InUse(o, y)
    BY DEF AccountedBut
  <2>1. y \in n.pool \/ InUse(n, y)  BY <1>13 DEF Accounted
  <2>2. ASSUME InUse(n, y) PROVE InUse(o, y)
    <3>1. PICK d \in DOMAIN n.pdt : \E k \in PdtIdx :
            \/ n.pdt[d][k] = y
            \/ n.pdt[d][k] \in DOMAIN n.pt /\ \E l \in PtIdx : n.pt[n.pdt[d][k]][l] = y
      BY <2>2 DEF InUse
    <3>2. PICK k \in PdtIdx :
            \/ n.pdt[d][k] = y
            \/ n.pdt[d][k] \in DOMAIN n.pt /\ \E l \in PtIdx : n.pt[n.pdt[d][k]][l] = y
      BY <3>1
    <3>3. CASE n.pdt[d][k] = y
      BY <3>3, <1>2 DEF InUse
    <3>4. CASE n.pdt[d][k] \in DOMAIN n.pt /\ \E l \in PtIdx : n.pt[n.pdt[d][k]][l] = y
      <4>1. PICK l \in PtIdx : n.pt[n.pdt[d][k]][l] = y  BY <3>4
      <4>2. o.pt[n.pdt[d][k]][l] = y  BY <4>1, <3>4, <1>2
      <4>. QED  BY <4>2, <3>4, <1>2 DEF InUse
    <3>. QED  BY <3>2, <3>3, <3>4
  <2>. QED  BY <2>1, <2>2, <1>2
<1>. QED  BY <1>4, <1>5, <1>6, <1>7, <1>9, <1>11, <1>12, <1>13 DEF MemOK

\* Taking back what was mapped since m keeps what m had.
LEMMA ClearedKeeps ==
  ASSUME NEW F, NEW m, MemOK(m, F), NEW n, MemOK(n, F), Keeps(m, n, Dirs(m)),
         NEW i \in KernelIdxs, NEW t, t = n.pdt[KernelPdt][i], t \in DOMAIN n.pt,
         NEW j \in PtIdx, t \in DOMAIN m.pt => m.pt[t][j] = Absent,
         NEW o, PageCleared(n, o, t, j)
  PROVE  Keeps(m, o, Dirs(m))
<1>1. /\ o.pool = n.pool /\ o.flipped = n.flipped /\ o.pdt = n.pdt /\ o.upde = n.upde
      /\ o.upte = n.upte \ {<<t, j>>} /\ DOMAIN o.pt = DOMAIN n.pt
      /\ \A u \in DOMAIN n.pt : \A k \in PtIdx :
           o.pt[u][k] = IF u = t /\ k = j THEN Absent ELSE n.pt[u][k]
  BY DEF PageCleared
<1>2. Typed(n, F) /\ TablesUnique(n) /\ KernelOK(m) /\ Typed(m, F)  BY DEF MemOK
<1>3. /\ o.pool \subseteq m.pool /\ o.flipped = m.flipped /\ DOMAIN m.pdt \subseteq DOMAIN o.pdt
      /\ DOMAIN m.pt \subseteq DOMAIN n.pt /\ DOMAIN m.pt \subseteq DOMAIN o.pt
      /\ DOMAIN m.pdt \subseteq DOMAIN n.pdt
  BY <1>1 DEF Keeps
<1>4. ASSUME NEW d \in Dirs(m)
      PROVE  /\ \A k \in PdtIdx : o.pdt[d][k] = m.pdt[d][k]
             /\ \A k \in PdtIdx : <<d, k>> \in m.upde => <<d, k>> \in o.upde
             /\ \A k \in UserIdxs : m.pdt[d][k] \in DOMAIN m.pt =>
                  \A l \in PtIdx :
                    /\ o.pt[m.pdt[d][k]][l] = m.pt[m.pdt[d][k]][l]
                    /\ <<m.pdt[d][k], l>> \in m.upte => <<m.pdt[d][k], l>> \in o.upte
                    /\ OnLast(o, m.pt[m.pdt[d][k]][l]) => OnLast(m, m.pt[m.pdt[d][k]][l])
  <2>1. /\ \A k \in PdtIdx : n.pdt[d][k] = m.pdt[d][k]
        /\ \A k \in PdtIdx : <<d, k>> \in m.upde => <<d, k>> \in n.upde
    BY <1>4 DEF Keeps
  <2>2. ASSUME NEW k \in UserIdxs, m.pdt[d][k] \in DOMAIN m.pt, NEW l \in PtIdx
        PROVE  /\ o.pt[m.pdt[d][k]][l] = m.pt[m.pdt[d][k]][l]
               /\ <<m.pdt[d][k], l>> \in m.upte => <<m.pdt[d][k], l>> \in o.upte
               /\ OnLast(o, m.pt[m.pdt[d][k]][l]) => OnLast(m, m.pt[m.pdt[d][k]][l])
    <3>1. PICK u : u = m.pdt[d][k]  OBVIOUS
    <3>2. n.pt[u][l] = m.pt[u][l] /\ (<<u, l>> \in m.upte => <<u, l>> \in n.upte)
          /\ (OnLast(n, m.pt[u][l]) => OnLast(m, m.pt[u][l]))
      BY <3>1, <2>2, <1>4 DEF Keeps
    <3>3. k \in PdtIdx /\ i \in PdtIdx /\ k # i
      BY <2>2, Sizes DEF UserIdxs, KernelIdxs, PdtIdx
    <3>4. n.pdt[d][k] = u /\ d \in DOMAIN n.pdt /\ KernelPdt \in DOMAIN n.pdt
      BY <3>1, <3>3, <2>1, <1>2, <1>3, <1>4 DEF Dirs, Typed
    <3>5. u # t  BY <3>3, <3>4, <1>2 DEF TablesUnique
    <3>6. u \in DOMAIN n.pt  BY <3>1, <2>2, <1>3
    <3>7. \A x : OnLast(o, x) => OnLast(n, x)  BY <1>1, Sizes DEF OnLast
    <3>. QED  BY <3>1, <3>2, <3>5, <3>6, <3>7, <2>2, <1>1
  <2>. QED  BY <2>1, <2>2, <1>1
<1>5. ASSUME NEW k \in KernelIdxs, m.pdt[KernelPdt][k] # Absent
      PROVE  /\ o.pdt[KernelPdt][k] = m.pdt[KernelPdt][k]
             /\ \A l \in PtIdx : m.pt[m.pdt[KernelPdt][k]][l] # Absent =>
                  o.pt[m.pdt[KernelPdt][k]][l] = m.pt[m.pdt[KernelPdt][k]][l]
  <2>1. PICK u : u = m.pdt[KernelPdt][k]  OBVIOUS
  <2>2. /\ n.pdt[KernelPdt][k] = u
        /\ \A l \in PtIdx : m.pt[u][l] # Absent => n.pt[u][l] = m.pt[u][l]
    BY <2>1, <1>5 DEF Keeps
  <2>3. u \in DOMAIN m.pt
    <3>1. k \in PdtIdx /\ (k = KernelIdx \/ k > KernelIdx)
      BY <1>5, Sizes DEF KernelIdxs, PdtIdx
    <3>. QED  BY <3>1, <2>1, <1>2, <1>5 DEF KernelOK, Typed
  <2>4. \A l \in PtIdx : m.pt[u][l] # Absent => o.pt[u][l] = m.pt[u][l]
    BY <2>2, <2>3, <1>1, <1>3
  <2>. QED  BY <2>1, <2>2, <2>4, <1>1
<1>. QED  BY <1>1, <1>3, <1>4, <1>5 DEF Keeps

\* A page mapped into the kernel and unmapped again, as for a process's code.
MapUnmapResult(m, r, u, F, paddr) ==
  /\ MemOK(u.m, F) /\ Keeps(m, u.m, Dirs(m)) /\ DOMAIN u.m.pdt = DOMAIN m.pdt
  /\ Fresh(u.m, F, {paddr})
  /\ OnLast(u.m, paddr) => KernelFull(u.m)
  /\ AccountedBut(m, F, {paddr}) => AccountedBut(u.m, F, {paddr})
  /\ r.ret \in Nat
  /\ u.ret = "hung" => r.ret < 1 /\ m.pool = {}

\* Mapping one page at v has changed no page table.
NothingMapped(m, r, v) ==
  \/ r.ret = 0 /\ r.m = m /\ v # 0 /\ m.pool = {} /\ NoTable(m, v)
  \/ v = 0 /\ SameTables(m, r.m)

\* When nothing was mapped, or only address 0, unmapping changes no page table.
LEMMA UnmapNothing ==
  ASSUME NEW F, F \in SUBSET (Nat \ {0}), NEW m, MemOK(m, F), NEW v, NEW r,
         NothingMapped(m, r, v),
         NEW u, u = pdt_unmap_kernel_memory(r.m, v)
  PROVE  SameTables(m, u.m) /\ (u.ret = "hung" => r.ret < 1 /\ m.pool = {})
<1>1. Ready(m, F) /\ KernelOK(m) /\ Shape(m) /\ Typed(m, F) /\ Identity \notin DOMAIN m.pt
  BY OrderReady DEF Ready, MemOK
<1>2. SameTables(m, m)  BY <1>1 DEF SameTables, Shape
<1>3. CASE v = 0 /\ SameTables(m, r.m)
  <2>1. PICK n : n = r.m  OBVIOUS
  <2>2. /\ Shape(n) /\ n.pt[KernelPt][TmpIdx] = Absent /\ n.pdt[KernelPdt][0] = Identity
        /\ Identity \notin DOMAIN n.pt
    BY <2>1, <1>1, <1>3 DEF SameTables, Shape, KernelOK
  <2>3. v \in Nat /\ pdt_idx(v) = 0 /\ pt_idx(v) = 0 /\ v # LastPage
    BY <1>3, ZeroAddress, LastAddress
  <2>4. 0 \in PdtIdx /\ 0 \in PtIdx /\ ~IsTmp(0, 0)  BY Sizes DEF IsTmp
  <2>5. UnmapResult(n, u, 0, 0)  BY <2>1, <2>2, <2>3, <2>4, UnmapMemory
  <2>6. SameTables(n, u.m) /\ u.ret = "done"
    BY <2>2, <2>5 DEF UnmapResult, Identity, Absent
  <2>. QED  BY <2>1, <2>6, <1>3 DEF SameTables
<1>4. CASE r.ret = 0 /\ r.m = m /\ v # 0 /\ m.pool = {} /\ NoTable(m, v)
  <2>1. CASE v = LastPage
    <3>1. u.m = m  BY <2>1, <1>4 DEF pdt_unmap_kernel_memory
    <3>. QED  BY <3>1, <1>2, <1>4
  <2>2. CASE v # LastPage
    <3>1. PICK i \in KernelIdxs : \E j \in PtIdx :
            v = (i * PtEntries) + j /\ i # KernelIdx /\ m.pdt[KernelPdt][i] = Absent
      BY <1>4 DEF NoTable
    <3>2. PICK j \in PtIdx :
            v = (i * PtEntries) + j /\ i # KernelIdx /\ m.pdt[KernelPdt][i] = Absent
      BY <3>1
    <3>3. i \in PdtIdx /\ ~IsTmp(i, j)  BY <3>2, Sizes DEF KernelIdxs, PdtIdx, IsTmp
    <3>4. v \in Nat /\ pdt_idx(v) = i /\ pt_idx(v) = j  BY <3>2, <3>3, AddressOf
    <3>5. m.pt[KernelPt][TmpIdx] = Absent  BY <1>1 DEF KernelOK
    <3>6. UnmapResult(m, u, i, j)  BY <3>3, <3>4, <3>5, <2>2, <1>1, <1>4, UnmapMemory
    <3>7. u.m = m  BY <3>2, <3>6 DEF UnmapResult
    <3>. QED  BY <3>7, <1>2, <1>4
  <2>. QED  BY <2>1, <2>2
<1>. QED  BY <1>3, <1>4 DEF NothingMapped

\* A frame mapped into the kernel and unmapped again is as fresh as before, but
\* for the last page, which stays mapped and leaves the kernel without another.
\* The memory is in order, and the unmapping hangs only if the mapping failed.
LEMMA MapUnmap ==
  ASSUME NEW F, F \in SUBSET (Nat \ {0}), NEW m, MemOK(m, F), NEW paddr \in F \cup {0},
         paddr # 0 => Unused(m, paddr) /\ paddr \notin m.pool,
         NEW v, v = pdt_kernel_find_next_vaddr(m, 1),
         NEW r, KernelMapResult(m, r, F, paddr, v, 1)
  PROVE  MapUnmapResult(m, r, pdt_unmap_kernel_memory(r.m, v), F, paddr)
<1>1. PICK u : u = pdt_unmap_kernel_memory(r.m, v)  OBVIOUS
<1>2. paddr \in Nat /\ paddr .. (paddr + 1 - 1) = {paddr} /\ paddr # Absent
  <2>1. paddr \in Nat  OBVIOUS
  <2>. QED  BY <2>1 DEF Absent
<1>3. Fresh(m, F, {paddr})  BY DEF Fresh, Unused, UnusedElse
<1>4. CASE \/ r.ret = 0 /\ r.m = m /\ (v # 0 => m.pool = {} /\ NoTable(m, v))
           \/ v = 0 /\ r.ret = 1 /\ SameTables(m, r.m)
  <2>1. r.ret \in {0, 1} /\ r.ret \in Nat  BY <1>4
  <2>2. IsRecord(m)  BY DEF MemOK, Typed
  <2>3. NothingMapped(m, r, v)  BY <2>2, <1>4 DEF SameTables, NothingMapped
  <2>4. SameTables(m, u.m) /\ (u.ret = "hung" => r.ret < 1 /\ m.pool = {})
    BY <2>3, <1>1, UnmapNothing, Zenon
  <2>5. PICK o : o = u.m  OBVIOUS
  <2>6. /\ MemOK(o, F) /\ Keeps(m, o, Dirs(m)) /\ DOMAIN o.pdt = DOMAIN m.pdt
        /\ Fresh(o, F, {paddr})
        /\ (AccountedBut(m, F, {paddr}) => AccountedBut(o, F, {paddr}))
        /\ (OnLast(o, paddr) => OnLast(m, paddr))
    BY <2>4, <2>5, <1>3, SameOK
  <2>7. ~OnLast(m, paddr)  BY Sizes DEF OnLast, Unused
  <2>. QED  BY <2>1, <2>4, <2>5, <2>6, <2>7, <1>1 DEF MapUnmapResult
<1>5. CASE ~(\/ r.ret = 0 /\ r.m = m /\ (v # 0 => m.pool = {} /\ NoTable(m, v))
             \/ v = 0 /\ r.ret = 1 /\ SameTables(m, r.m))
  <2>1. PICK n : n = r.m  OBVIOUS
  <2>2. /\ r.ret = 1 /\ MemOK(n, F) /\ Keeps(m, n, Dirs(m))
        /\ DOMAIN n.pdt = DOMAIN m.pdt
        /\ AccountedBut(m, F, {paddr}) => Accounted(n, F)
        /\ \E i \in KernelIdxs : \E j \in PtIdx :
             v = (i * PtEntries) + j /\ MapsTo(m, n, KernelPdt, i, j, paddr, 1, PL0)
    BY <2>1, <1>2, <1>5 DEF KernelMapResult
  <2>3. PICK i \in KernelIdxs : \E j \in PtIdx :
             v = (i * PtEntries) + j /\ MapsTo(m, n, KernelPdt, i, j, paddr, 1, PL0)
    BY <2>2
  <2>4. PICK j \in PtIdx :
             v = (i * PtEntries) + j /\ MapsTo(m, n, KernelPdt, i, j, paddr, 1, PL0)
    BY <2>3
  <2>5. i \in PdtIdx /\ j .. (j + 1 - 1) = {j} /\ j + 1 <= PtEntries
    BY Sizes DEF KernelIdxs, PdtIdx, PtIdx
  <2>6. v \in Nat /\ pdt_idx(v) = i /\ pt_idx(v) = j  BY <2>4, <2>5, AddressOf
  <2>7. PICK t : t = n.pdt[KernelPdt][i]  OBVIOUS
  <2>16. Growth(m, F, n, KernelPdt, i, t, {j}, {paddr}, PL0)
    <3>1. 1 \in Nat /\ Target(m, KernelPdt, i, {j}, PL0)  BY DEF Target
    <3>. QED  BY <3>1, <2>4, <2>5, <2>7, <1>2, <1>3, MapKeepsOrder
  <2>8. /\ t # Absent /\ t \in DOMAIN n.pt /\ n.pt[t][j] = paddr
        /\ t \in DOMAIN m.pt => m.pt[t][j] = Absent
        /\ ~IsTmp(i, j)
    <3>3. /\ Grown(m, n, KernelPdt, i, t, {j}, {paddr}, PL0)
          /\ GrownTable(m, F, KernelPdt, i, t)
      BY <2>16 DEF Growth
    <3>. QED  BY <3>3 DEF Grown, GrownTable, IsTmp
  <2>17. paddr # 0 => /\ paddr \notin n.pool /\ paddr \notin DOMAIN n.pt
                      /\ \A w \in DOMAIN n.pt : \A k \in PtIdx :
                           n.pt[w][k] = paddr => w = t /\ k = j
    <3>. SUFFICES ASSUME paddr # 0
                  PROVE  /\ paddr \notin n.pool /\ paddr \notin DOMAIN n.pt
                         /\ \A w \in DOMAIN n.pt : \A k \in PtIdx :
                              n.pt[w][k] = paddr => w = t /\ k = j
      OBVIOUS
    <3>1. paddr \notin n.pool  BY <2>2 DEF Keeps
    <3>2. paddr \notin DOMAIN n.pt  BY <2>2, <2>8 DEF MemOK, Apart
    <3>3. \A w \in DOMAIN n.pt : \A k \in PtIdx : n.pt[w][k] = paddr => w = t /\ k = j
      <4>. SUFFICES ASSUME NEW w \in DOMAIN n.pt, NEW k \in PtIdx, n.pt[w][k] = paddr
                    PROVE  w = t /\ k = j
        OBVIOUS
      <4>1. \/ w = t /\ k \in {j}
            \/ w \in DOMAIN m.pt /\ n.pt[w][k] = m.pt[w][k]
            \/ n.pt[w][k] = Absent
        BY <2>16, GrownPages
      <4>. QED  BY <4>1, <1>2 DEF Unused
    <3>. QED  BY <3>1, <3>2, <3>3
  <2>18. CASE v = LastPage
    <3>1. i = LastIdx /\ j = TmpIdx  BY <2>6, <2>18, LastAddress
    <3>2. u = [m |-> n, ret |-> "done"]  BY <2>1, <2>18, <1>1 DEF pdt_unmap_kernel_memory
    <3>3. Fresh(n, F, {paddr})
      BY <2>7, <2>17, <3>1 DEF Fresh, UnusedElse, IsLast
    <3>4. KernelFull(n)
      <4>1. LastLeft(m)  BY <2>18, FindLast
      <4>. SUFFICES ASSUME NEW k \in KernelIdxs
                    PROVE  /\ n.pdt[KernelPdt][k] # Absent
                           /\ \A o \in PtIdx :
                                n.pt[n.pdt[KernelPdt][k]][o] # Absent \/ IsTmp(k, o)
        BY DEF KernelFull
      <4>2. /\ m.pdt[KernelPdt][k] # Absent
            /\ \A o \in PtIdx : \/ m.pt[m.pdt[KernelPdt][k]][o] # Absent \/ IsTmp(k, o)
                                \/ k = LastIdx /\ o = TmpIdx
        BY <4>1 DEF LastLeft
      <4>3. /\ n.pdt[KernelPdt][k] = m.pdt[KernelPdt][k]
            /\ \A o \in PtIdx : m.pt[m.pdt[KernelPdt][k]][o] # Absent =>
                 n.pt[m.pdt[KernelPdt][k]][o] = m.pt[m.pdt[KernelPdt][k]][o]
        BY <4>2, <2>2 DEF Keeps
      <4>. QED  BY <4>2, <4>3, <3>1, <2>7, <2>8, <1>2
    <3>5. AccountedBut(m, F, {paddr}) => AccountedBut(n, F, {paddr})
      BY <2>2 DEF Accounted, AccountedBut
    <3>. QED  BY <3>2, <3>3, <3>4, <3>5, <2>2, <1>1 DEF MapUnmapResult
  <2>19. CASE v # LastPage
    <3>1. Shape(n) /\ n.pt[KernelPt][TmpIdx] = Absent
      BY <2>2, OrderReady DEF Ready
    <3>2. UnmapResult(n, u, i, j)
      BY <2>1, <2>5, <2>6, <2>8, <2>19, <3>1, <1>1, UnmapMemory
    <3>3. u.ret = "done" /\ PageCleared(n, u.m, t, j)  BY <2>7, <2>8, <3>2 DEF UnmapResult
    <3>4. PICK o : o = u.m  OBVIOUS
    <3>5. MemOK(o, F) /\ (Accounted(n, F) => AccountedBut(o, F, {paddr}))
      BY <2>2, <2>7, <2>8, <3>3, <3>4, ClearedOK
    <3>6. Keeps(m, o, Dirs(m))
      BY <2>2, <2>7, <2>8, <3>3, <3>4, ClearedKeeps
    <3>7. DOMAIN o.pdt = DOMAIN m.pdt  BY <2>2, <3>3, <3>4 DEF PageCleared
    <3>8. paddr # 0 => Unused(o, paddr) /\ paddr \notin o.pool
      BY <2>17, <3>3, <3>4, <1>2 DEF PageCleared, Unused
    <3>9. Fresh(o, F, {paddr})  BY <3>8 DEF Fresh, Unused, UnusedElse
    <3>10. ~OnLast(o, paddr)  BY <3>8, Sizes DEF OnLast, Unused
    <3>. QED  BY <2>2, <3>3, <3>4, <3>5, <3>6, <3>7, <3>9, <3>10, <1>1 DEF MapUnmapResult
  <2>. QED  BY <2>18, <2>19
<1>. QED  BY <1>4, <1>5

\* n is m with a directory f that has no entries.
DirAdded(m, n, f) ==
  /\ Shape(n) /\ n.pool = m.pool /\ n.flipped = m.flipped /\ n.pt = m.pt /\ n.upte = m.upte
  /\ n.upde = m.upde \ ({f} \X PdtIdx) /\ DOMAIN n.pdt = DOMAIN m.pdt \cup {f}
  /\ \A d \in DOMAIN n.pdt : \A i \in PdtIdx :
       n.pdt[d][i] = IF d = f THEN Absent ELSE m.pdt[d][i]

\* The memset of pdt_create makes an empty directory of the frame.
LEMMA AddsDirectory ==
  ASSUME NEW m, Shape(m), NEW f, NEW n,
         n = [m EXCEPT !.pdt = AddDirectory(m, f), !.upde = @ \ ({f} \X PdtIdx)]
  PROVE  DirAdded(m, n, f)
<1>1. PICK h : h = m.pdt  OBVIOUS
<1>2. PICK g : g = AddDirectory(m, f)  OBVIOUS
<1>3. PICK r : r = [i \in PdtIdx |-> Absent]  OBVIOUS
<1>4. g = [d \in DOMAIN h \cup {f} |-> IF d = f THEN r ELSE h[d]]
  BY <1>1, <1>2, <1>3 DEF AddDirectory
<1>5. /\ IsRecord(n) /\ n.pool = m.pool /\ n.flipped = m.flipped /\ n.pt = m.pt /\ n.upte = m.upte
      /\ n.upde = m.upde \ ({f} \X PdtIdx) /\ n.pdt = g
  BY <1>2 DEF IsRecord, Shape
<1>6. r = [i \in PdtIdx |-> r[i]] /\ \A i \in PdtIdx : r[i] = Absent  BY <1>3
<1>7. /\ g = [d \in DOMAIN g |-> g[d]] /\ DOMAIN g = DOMAIN h \cup {f}
      /\ \A d \in DOMAIN g : g[d] = IF d = f THEN r ELSE h[d]
  BY <1>4
<1>8. Matrix(h, PdtIdx)  BY <1>1 DEF Shape
<1>9. /\ Matrix(g, PdtIdx) /\ DOMAIN g = DOMAIN h \cup {f}
      /\ \A d \in DOMAIN g : \A i \in PdtIdx : g[d][i] = IF d = f THEN r[i] ELSE h[d][i]
  BY <1>6, <1>7, <1>8, MatrixAdd
<1>10. Shape(n)  BY <1>5, <1>9 DEF Shape
<1>. QED  BY <1>1, <1>5, <1>6, <1>9, <1>10 DEF DirAdded

\* A fresh frame that becomes an empty directory keeps the invariant.
LEMMA DirAddedOK ==
  ASSUME NEW F, F \in SUBSET (Nat \ {0}), NEW m, MemOK(m, F), NEW f \in F,
         f \notin DOMAIN m.pdt, f \notin m.pool, NEW n, DirAdded(m, n, f)
  PROVE  /\ MemOK(n, F) /\ Keeps(m, n, Dirs(m))
         /\ Accounted(m, F) => Accounted(n, F)
<1>1. /\ Typed(m, F) /\ KernelOK(m) /\ DirsOK(m) /\ TablesUnique(m) /\ PagesUnique(m, F)
      /\ Apart(m) /\ UserTables(m)
  BY DEF MemOK
<1>2. /\ Shape(n) /\ n.pool = m.pool /\ n.flipped = m.flipped /\ n.pt = m.pt /\ n.upte = m.upte
      /\ n.upde = m.upde \ ({f} \X PdtIdx) /\ DOMAIN n.pdt = DOMAIN m.pdt \cup {f}
      /\ \A i \in PdtIdx : n.pdt[f][i] = Absent
      /\ \A d \in DOMAIN m.pdt : \A i \in PdtIdx : n.pdt[d][i] = m.pdt[d][i]
  BY DEF DirAdded
<1>3. f # KernelPdt /\ Absent \notin DOMAIN m.pt /\ KernelPdt \in DOMAIN m.pdt
  <2>1. f # KernelPdt /\ Absent \notin F  BY FrameKinds
  <2>2. Absent # KernelPt  BY DEF Absent, KernelPt
  <2>. QED  BY <2>1, <2>2, <1>1 DEF Typed
<1>4. Dirs(n) = Dirs(m) \cup {f}  BY <1>2, <1>3 DEF Dirs
<1>5. Typed(n, F)
  <2>1. n.upde \subseteq Dirs(n) \X UserIdxs  BY <1>1, <1>2, <1>4 DEF Typed
  <2>2. \A d \in DOMAIN n.pdt : \A i \in PdtIdx :
          n.pdt[d][i] \in F \cup {Absent, KernelPt, Identity}
    BY <1>1, <1>2 DEF Typed
  <2>3. DOMAIN n.pdt \subseteq F \cup {KernelPdt}  BY <1>1, <1>2 DEF Typed
  <2>. QED  BY <2>1, <2>2, <2>3, <1>1, <1>2 DEF Typed, Shape
<1>6. KernelOK(n)
  <2>1. \A i \in PdtIdx : n.pdt[KernelPdt][i] = m.pdt[KernelPdt][i]  BY <1>2, <1>3
  <2>2. 0 \in PdtIdx /\ KernelIdx \in PdtIdx  BY Sizes
  <2>. QED  BY <2>1, <2>2, <1>1, <1>2 DEF KernelOK
<1>7. DirsOK(n)
  <2>. SUFFICES ASSUME NEW e \in Dirs(n), NEW k \in PdtIdx
       PROVE /\ k = 0 => n.pdt[e][k] \in {Absent, Identity} \cup (DOMAIN n.pt \ {KernelPt})
             /\ k = StackIdx => n.pdt[e][k] \in {Absent} \cup (DOMAIN n.pt \ {KernelPt})
             /\ k >= KernelIdx => n.pdt[e][k] \in {Absent, n.pdt[KernelPdt][k]}
             /\ (k \notin UserIdxs /\ k < KernelIdx) => n.pdt[e][k] = Absent
    BY DEF DirsOK
  <2>1. CASE e = f
    BY <2>1, <1>2
  <2>2. CASE e \in Dirs(m)
    <3>1. n.pdt[e][k] = m.pdt[e][k] /\ n.pdt[KernelPdt][k] = m.pdt[KernelPdt][k]
          /\ n.pt = m.pt
      BY <2>2, <1>2, <1>3 DEF Dirs
    <3>. QED  BY <3>1, <2>2, <1>1 DEF DirsOK
  <2>. QED  BY <2>1, <2>2, <1>4
<1>8. TablesUnique(n)
  <2>. SUFFICES ASSUME NEW d \in DOMAIN n.pdt, NEW e \in DOMAIN n.pdt,
                       NEW i \in PdtIdx, NEW k \in PdtIdx,
                       n.pdt[d][i] = n.pdt[e][k], n.pdt[d][i] \in DOMAIN m.pt
                PROVE  i = k /\ (d = e \/ i >= KernelIdx)
    BY <1>2 DEF TablesUnique
  <2>1. d \in DOMAIN m.pdt /\ e \in DOMAIN m.pdt  BY <1>2, <1>3
  <2>2. m.pdt[d][i] = m.pdt[e][k] /\ m.pdt[d][i] \in DOMAIN m.pt  BY <2>1, <1>2
  <2>. QED  BY <2>1, <2>2, <1>1 DEF TablesUnique
<1>9. PagesUnique(n, F)
  <2>1. n.pdt[KernelPdt][LastIdx] = m.pdt[KernelPdt][LastIdx]  BY <1>2, <1>3, LastAddress
  <2>. QED  BY <2>1, <1>1, <1>2 DEF PagesUnique, IsLast
<1>10. Apart(n)  BY <1>1, <1>2 DEF Apart, Unused
<1>11. UserTables(n)
  <2>1. ASSUME NEW d \in Dirs(n), NEW i \in {0, StackIdx}, n.pdt[d][i] \in DOMAIN m.pt
        PROVE  d \in Dirs(m) /\ n.pdt[d][i] = m.pdt[d][i]
    <3>1. i \in PdtIdx  BY <2>1, Sizes
    <3>2. d # f  BY <3>1, <2>1, <1>2, <1>3
    <3>. QED  BY <3>1, <3>2, <2>1, <1>2, <1>4 DEF Dirs
  <2>2. \A d \in Dirs(n) : \A j \in PtIdx :
          /\ (n.pdt[d][0] \in DOMAIN m.pt /\ j # 0) => m.pt[n.pdt[d][0]][j] = Absent
          /\ (n.pdt[d][StackIdx] \in DOMAIN m.pt /\ j # TmpIdx)
               => m.pt[n.pdt[d][StackIdx]][j] = Absent
    BY <2>1, <1>1 DEF UserTables
  <2>. QED  BY <2>2, <1>1, <1>2 DEF UserTables
<1>12. Keeps(m, n, Dirs(m))
  <2>1. \A d \in Dirs(m) : d # f /\ d \in DOMAIN m.pdt  BY DEF Dirs
  <2>2. \A d \in Dirs(m) : \A i \in PdtIdx :
          n.pdt[d][i] = m.pdt[d][i] /\ (<<d, i>> \in m.upde => <<d, i>> \in n.upde)
    BY <2>1, <1>2
  <2>3. \A i \in KernelIdxs : n.pdt[KernelPdt][i] = m.pdt[KernelPdt][i]
    <3>1. KernelIdxs \subseteq PdtIdx  BY Sizes DEF KernelIdxs, PdtIdx
    <3>. QED  BY <3>1, <1>2, <1>3
  <2>4. \A x : OnLast(n, x) => OnLast(m, x)
    <3>1. n.pdt[KernelPdt][LastIdx] = m.pdt[KernelPdt][LastIdx]
      BY <1>2, <1>3, LastAddress
    <3>. QED  BY <3>1, <1>2 DEF OnLast
  <2>. QED  BY <2>2, <2>3, <2>4, <1>2 DEF Keeps
<1>13. Accounted(m, F) => Accounted(n, F)
  <2>1. \A x : InUse(m, x) => InUse(n, x)  BY <1>2 DEF InUse
  <2>. QED  BY <2>1, <1>2 DEF Accounted
<1>. QED  BY <1>5, <1>6, <1>7, <1>8, <1>9, <1>10, <1>11, <1>12, <1>13 DEF MemOK

\* The pool is empty, and n is m but for the flipped bit and the word at address 0.
Flips(m, n) ==
  /\ m.pool = {} /\ IsRecord(n) /\ n.pool = m.pool /\ n.pdt = m.pdt /\ n.pt = m.pt
  /\ n.upde = m.upde /\ n.upte = m.upte

\* The tables do not tell a flipped bit.
LEMMA FlipsOK ==
  ASSUME NEW F, NEW m, MemOK(m, F), NEW n, Flips(m, n)
  PROVE  MemOK(n, F) /\ DOMAIN n.pdt = DOMAIN m.pdt
<1>1. PICK o : o = [pool |-> n.pool, pdt |-> n.pdt, pt |-> n.pt, upde |-> n.upde,
                    upte |-> n.upte, low |-> n.low, flipped |-> m.flipped]
  OBVIOUS
<1>2. SameTables(m, o)  BY <1>1 DEF Flips, SameTables, IsRecord
<1>3. MemOK(o, F) /\ DOMAIN o.pdt = DOMAIN m.pdt  BY <1>2, SameOK
<1>4. /\ IsRecord(n) /\ n.pool = o.pool /\ n.pdt = o.pdt /\ n.pt = o.pt
      /\ n.upde = o.upde /\ n.upte = o.upte
  BY <1>1 DEF Flips
<1>5. Typed(n, F)  BY <1>3, <1>4 DEF MemOK, Typed, Dirs
<1>6. KernelOK(n)  BY <1>3, <1>4 DEF MemOK, KernelOK
<1>7. DirsOK(n)  BY <1>3, <1>4 DEF MemOK, DirsOK, Dirs
<1>8. TablesUnique(n)  BY <1>3, <1>4 DEF MemOK, TablesUnique
<1>9. PagesUnique(n, F)  BY <1>3, <1>4 DEF MemOK, PagesUnique, IsLast
<1>10. Apart(n)  BY <1>3, <1>4 DEF MemOK, Apart, Unused
<1>11. UserTables(n)  BY <1>3, <1>4 DEF MemOK, UserTables, Dirs
<1>. QED  BY <1>3, <1>4, <1>5, <1>6, <1>7, <1>8, <1>9, <1>10, <1>11 DEF MemOK

\* What pdt_create may come to: no directory, with a bit flipped if no frame was
\* free, or one without entries.
CreateResult(m, c, F) ==
  \/ c.ret = Absent /\ Flips(m, c.m)
  \/ /\ MemOK(c.m, F) /\ Keeps(m, c.m, Dirs(m))
     /\ \/ c.ret \in {Absent, 0} /\ DOMAIN c.m.pdt = DOMAIN m.pdt
        \/ /\ c.ret \in F /\ c.ret \notin DOMAIN m.pdt /\ c.ret \notin c.m.pool
           /\ DOMAIN c.m.pdt = DOMAIN m.pdt \cup {c.ret}
           /\ \A i \in PdtIdx : c.m.pdt[c.ret][i] = Absent
           /\ Accounted(m, F) => Accounted(c.m, F)

\* pdt_create returns a new, empty directory, or 0 or NULL and adds none.
LEMMA CreateOK ==
  ASSUME NEW F, F \in SUBSET (Nat \ {0}), NEW m, MemOK(m, F)
  PROVE  CreateResult(m, pdt_create(m), F)
<1>1. PICK c : c = pdt_create(m)  OBVIOUS
<1>2. PICK a : a = pfa_allocate(m, 1)  OBVIOUS
<1>3. PICK b : b = a.m  OBVIOUS
<1>4. PICK f : f = a.ret  OBVIOUS
<1>5. PICK v : v = pdt_kernel_find_next_vaddr(b, 1)  OBVIOUS
<1>6. PICK r : r = pdt_map_kernel_memory(b, f, v, 1)  OBVIOUS
<1>7. PICK n : n = r.m  OBVIOUS
<1>8. c = IF r.ret < 1
          THEN [m |-> pfa_free(n, f), ret |-> Absent]
          ELSE [m   |-> IF f = 0 \/ v = 0 THEN [n EXCEPT !.low = FALSE]
                        ELSE [n EXCEPT !.pdt = AddDirectory(n, f),
                                       !.upde = @ \ ({f} \X PdtIdx)],
                ret |-> IF v = 0 THEN Absent ELSE f]
  BY <1>1, <1>2, <1>3, <1>4, <1>5, <1>6, <1>7, Zenon DEF pdt_create
<1>9. AllocOneResult(m, a, F)  BY <1>2, AllocOneOK
<1>10. 1 \in Nat /\ 1 > 0 /\ 1 <= PtEntries  BY Sizes
<1>11. Keeps(m, m, Dirs(m)) /\ Absent \in {Absent, 0}  BY KeepsSelf
<1>12. IsRecord(m)  BY DEF MemOK, Typed
<1>13. ASSUME r.ret = 1, f = 0 \/ v = 0, MemOK(n, F), Keeps(m, n, Dirs(m)),
              DOMAIN n.pdt = DOMAIN m.pdt
       PROVE  CreateResult(m, c, F)
  <2>1. ~(r.ret < 1) /\ r.ret # 0  BY <1>13
  <2>2. PICK o : o = [n EXCEPT !.low = FALSE]  OBVIOUS
  <2>3. c.m = o /\ c.ret = (IF v = 0 THEN Absent ELSE f)  BY <2>1, <2>2, <1>8, <1>13
  <2>4. IsRecord(n)  BY <1>13 DEF MemOK, Typed
  <2>5. SameTables(n, o)  BY <2>2, <2>4 DEF SameTables, IsRecord
  <2>6. MemOK(o, F) /\ Keeps(n, o, Dirs(n)) /\ DOMAIN o.pdt = DOMAIN n.pdt
    BY <2>5, <1>13, SameOK
  <2>7. Dirs(n) = Dirs(m)  BY <1>13 DEF Dirs
  <2>8. Keeps(m, o, Dirs(m))  BY <2>6, <2>7, <1>13, KeepsTrans
  <2>9. c.ret \in {Absent, 0}  BY <2>3, <1>13
  <2>. QED  BY <2>3, <2>6, <2>8, <2>9, <1>13 DEF CreateResult
<1>14. CASE f = 0
  <2>1. b = m /\ m.pool = {}  BY <1>3, <1>4, <1>9, <1>14 DEF AllocOneResult
  <2>2. Fresh(m, F, {0}) /\ 0 .. (0 + 1 - 1) = {0}  BY DEF Fresh
  <2>3. KernelMapResult(m, r, F, f, v, 1)
    BY <2>1, <2>2, <1>5, <1>6, <1>10, <1>14, KernelMap
  <2>4. CASE r.ret = 0 /\ r.m = m
    <3>1. r.ret < 1  BY <2>4
    <3>2. c.m = [m EXCEPT !.flipped = ~@] /\ c.ret = Absent
      BY <3>1, <2>4, <1>7, <1>8, <1>14 DEF pfa_free
    <3>3. Flips(m, c.m)  BY <3>2, <2>1, <1>12 DEF Flips, IsRecord
    <3>. QED  BY <3>2, <3>3, <1>1 DEF CreateResult
  <2>5. CASE ~(r.ret = 0 /\ r.m = m)
    <3>1. r.ret = 1 /\ MemOK(n, F) /\ Keeps(m, n, Dirs(m)) /\ DOMAIN n.pdt = DOMAIN m.pdt
      BY <2>3, <2>5, <1>7, SameOK DEF KernelMapResult
    <3>. QED  BY <3>1, <1>1, <1>13, <1>14
  <2>. QED  BY <2>4, <2>5
<1>15. CASE f # 0
  <2>1. f \in m.pool /\ f \in Nat /\ Taken(m, b, F, {f})
    BY <1>3, <1>4, <1>9, <1>15 DEF AllocOneResult
  <2>2. /\ MemOK(b, F) /\ Keeps(m, b, Dirs(m)) /\ Fresh(b, F, {f}) /\ b.pdt = m.pdt
        /\ b.flipped = m.flipped /\ b.pool = m.pool \ {f} /\ (Accounted(m, F) => AccountedBut(b, F, {f}))
        /\ f \in F /\ f \notin DOMAIN m.pdt
    BY <2>1 DEF Taken, Shrunk, MemOK, Typed, Apart
  <2>3. f .. (f + 1 - 1) = {f}  BY <2>1
  <2>4. KernelMapResult(b, r, F, f, v, 1)
    BY <2>1, <2>2, <2>3, <1>5, <1>6, <1>10, KernelMap
  <2>5. Dirs(b) = Dirs(m) /\ DOMAIN b.pdt = DOMAIN m.pdt  BY <2>2 DEF Dirs
  <2>6. CASE r.ret = 0 /\ r.m = b
    <3>1. r.ret < 1  BY <2>6
    <3>2. c.m = [b EXCEPT !.pool = @ \cup {f}] /\ c.ret = Absent
      BY <3>1, <2>6, <1>7, <1>8, <1>15 DEF pfa_free
    <3>3. SameTables(m, c.m)
      <4>1. IsRecord(b) /\ b.pdt = m.pdt /\ b.pt = m.pt /\ b.upde = m.upde
            /\ b.upte = m.upte /\ b.flipped = m.flipped
        BY <2>1 DEF Taken, Shrunk
      <4>2. b.pool \cup {f} = m.pool  BY <2>1, <2>2
      <4>. QED  BY <3>2, <4>1, <4>2 DEF IsRecord, SameTables
    <3>4. PICK o : o = c.m  OBVIOUS
    <3>5. MemOK(o, F) /\ Keeps(m, o, Dirs(m)) /\ DOMAIN o.pdt = DOMAIN m.pdt
      BY <3>3, <3>4, SameOK
    <3>. QED  BY <3>2, <3>4, <3>5, <1>1, <1>11 DEF CreateResult
  <2>7. CASE v = 0 /\ r.ret = 1 /\ SameTables(b, r.m)
    <3>1. MemOK(n, F) /\ Keeps(b, n, Dirs(b)) /\ DOMAIN n.pdt = DOMAIN b.pdt
      BY <2>2, <2>7, <1>7, SameOK
    <3>2. Keeps(m, n, Dirs(m))  BY <3>1, <2>2, <2>5, KeepsTrans
    <3>. QED  BY <3>1, <3>2, <2>5, <2>7, <1>1, <1>13
  <2>8. CASE ~(r.ret = 0 /\ r.m = b) /\ ~(v = 0 /\ r.ret = 1 /\ SameTables(b, r.m))
    <3>1. v # 0 /\ r.ret = 1  BY <2>4, <2>8 DEF KernelMapResult
    <3>2. PICK o : o = [n EXCEPT !.pdt = AddDirectory(n, f), !.upde = @ \ ({f} \X PdtIdx)]
      OBVIOUS
    <3>12. ~(r.ret < 1)  BY <3>1
    <3>3. c.m = o /\ c.ret = f  BY <3>1, <3>2, <3>12, <1>8, <1>15
    <3>4. /\ MemOK(n, F) /\ Keeps(b, n, Dirs(b)) /\ DOMAIN n.pdt = DOMAIN b.pdt
          /\ AccountedBut(b, F, {f}) => Accounted(n, F)
      BY <2>8, <2>3, <2>4, <1>7 DEF KernelMapResult
    <3>5. n.pool \subseteq b.pool  BY <3>4 DEF Keeps
    <3>6. f \notin DOMAIN n.pdt /\ f \notin n.pool /\ Shape(n)
      BY <3>4, <3>5, <2>2, OrderReady DEF Ready
    <3>7. DirAdded(n, o, f)  BY <3>2, <3>6, AddsDirectory, Zenon
    <3>8. /\ MemOK(o, F) /\ Keeps(n, o, Dirs(n))
          /\ Accounted(n, F) => Accounted(o, F)
      BY <3>4, <3>6, <3>7, <2>2, DirAddedOK
    <3>9. Dirs(n) = Dirs(m)  BY <3>4, <2>2 DEF Dirs
    <3>10. Keeps(m, o, Dirs(m))
      <4>1. Keeps(m, n, Dirs(m))  BY <3>4, <2>2, <2>5, KeepsTrans
      <4>. QED  BY <4>1, <3>8, <3>9, KeepsTrans
    <3>11. /\ f \notin o.pool /\ DOMAIN o.pdt = DOMAIN m.pdt \cup {f}
           /\ \A i \in PdtIdx : o.pdt[f][i] = Absent
      BY <3>4, <3>6, <3>7, <2>2 DEF DirAdded
    <3>. QED  BY <3>3, <3>4, <3>8, <3>10, <3>11, <2>2, <1>1 DEF CreateResult
  <2>. QED  BY <2>6, <2>7, <2>8
<1>. QED  BY <1>14, <1>15

-----------------------------------------------------------------------------
(***************************************************************************)
(* A page of a process, and the switch to a process.                       *)
(***************************************************************************)

\* Entry k of directory d and its table are the same in n as in m.
KeepsEntry(m, n, d, k) ==
  /\ n.pdt[d][k] = m.pdt[d][k] /\ (<<d, k>> \in m.upde => <<d, k>> \in n.upde)
  /\ m.pdt[d][k] \in DOMAIN m.pt =>
       /\ m.pdt[d][k] \in DOMAIN n.pt
       /\ \A j \in PtIdx :
            /\ n.pt[m.pdt[d][k]][j] = m.pt[m.pdt[d][k]][j]
            /\ <<m.pdt[d][k], j>> \in m.upte => <<m.pdt[d][k], j>> \in n.upte

\* User mode finds page x at entry j of place i of directory d.
OpenTo(m, d, i, j, x) ==
  /\ m.pdt[d][i] \in DOMAIN m.pt /\ m.pt[m.pdt[d][i]][j] = x
  /\ <<d, i>> \in m.upde /\ <<m.pdt[d][i], j>> \in m.upte

\* Mapping a page where the process has no table yet.
UserMapResult(m, r, F, d, i, j, x) ==
  \/ r.ret = 0 /\ r.m = m /\ m.pool = {}
  \/ /\ r.ret = 1 /\ m.pool # {} /\ MemOK(r.m, F) /\ Keeps(m, r.m, Dirs(m) \ {d})
     /\ DOMAIN r.m.pdt = DOMAIN m.pdt
     /\ AccountedBut(m, F, {x}) => Accounted(r.m, F)
     /\ OpenTo(r.m, d, i, j, x)
     /\ \A y : OnLast(r.m, y) => OnLast(m, y)
     /\ \A k \in PdtIdx : k # i => r.m.pdt[d][k] = m.pdt[d][k]
     /\ \A k \in UserIdxs : k # i => KeepsEntry(m, r.m, d, k)

\* pdt_map_memory of one page of a process, in an absent place of its directory,
\* makes it the only page of a new table, or fails and changes nothing.
LEMMA UserMap ==
  ASSUME NEW F, F \in SUBSET (Nat \ {0}), NEW m, MemOK(m, F), NEW d \in Dirs(m),
         NEW i \in UserIdxs, m.pdt[d][i] = Absent, NEW j, j = IF i = 0 THEN 0 ELSE TmpIdx,
         NEW v \in Nat, pdt_idx(v) = i, pt_idx(v) = j, NEW x \in Nat, Fresh(m, F, {x})
  PROVE  UserMapResult(m, pdt_map_memory(m, d, x, v, 1, PL3), F, d, i, j, x)
<1>1. PICK r : r = pdt_map_memory(m, d, x, v, 1, PL3)  OBVIOUS
<1>2. Ready(m, F)  BY OrderReady
<1>3. /\ i \in PdtIdx /\ i # KernelIdx /\ j \in PtIdx /\ j + 1 <= PtEntries /\ 1 \in Nat
      /\ d \in DOMAIN m.pdt
  BY Sizes DEF UserIdxs, StackIdx, PtIdx, TmpIdx, Dirs
<1>4. Place(m, d, i, j, 1)  BY <1>3 DEF Place, Absent, KernelPt, Identity
<1>5. MapResult(m, r, d, i, j, x, 1, PL3)  BY <1>1, <1>2, <1>4, MapMemory
<1>6. CASE r.ret = 0 /\ r.m = m /\ MapFails(m, d, i, j)
  BY <1>1, <1>6 DEF MapFails, UserMapResult
<1>7. CASE r.ret = 1 /\ MapsTo(m, r.m, d, i, j, x, 1, PL3)
  <2>1. PICK n : n = r.m  OBVIOUS
  <2>2. PICK t : t = n.pdt[d][i]  OBVIOUS
  <2>3. j .. (j + 1 - 1) = {j} /\ x .. (x + 1 - 1) = {x}
    <3>1. j \in Nat  BY <1>3 DEF PtIdx
    <3>. QED  BY <3>1
  <2>4. Target(m, d, i, {j}, PL3)  BY DEF Target
  <2>5. /\ MemOK(n, F) /\ Keeps(m, n, Dirs(m) \ {d})
        /\ (AccountedBut(m, F, {x}) => Accounted(n, F))
        /\ Growth(m, F, n, d, i, t, {j}, {x}, PL3)
    BY <2>1, <2>2, <2>3, <2>4, <1>3, <1>7, MapKeepsOrder
  <2>6. Grown(m, n, d, i, t, {j}, {x}, PL3) /\ GrownTable(m, F, d, i, t)
    BY <2>5 DEF Growth
  <2>7. t \notin DOMAIN m.pt  BY <2>6 DEF Grown, GrownTable
  <2>8. DOMAIN n.pdt = DOMAIN m.pdt /\ m.pool # {}  BY <2>6, <2>7 DEF Grown
  <2>9. OpenTo(n, d, i, j, x)
    <3>1. t \in DOMAIN n.pt /\ n.pt[t][j] = x  BY <2>6 DEF Grown
    <3>2. n.upde = Grant(m.upde, {<<d, i>>}, PL3) /\ n.upte = Grant(m.upte, {t} \X {j}, PL3)
      BY <2>6, <2>7 DEF Grown
    <3>3. <<d, i>> \in n.upde /\ <<t, j>> \in n.upte  BY <3>2 DEF Grant
    <3>. QED  BY <3>1, <3>3, <2>2 DEF OpenTo
  <2>10. \A k \in PdtIdx : k # i => n.pdt[d][k] = m.pdt[d][k]  BY <2>6, <1>3 DEF Grown
  <2>11. ASSUME NEW k \in UserIdxs, k # i PROVE KeepsEntry(m, n, d, k)
    <3>1. n.pdt[d][k] = m.pdt[d][k]
      <4>1. k \in PdtIdx  BY <2>11, Sizes DEF UserIdxs
      <4>. QED  BY <4>1, <2>10, <2>11
    <3>2. <<d, k>> \in m.upde => <<d, k>> \in n.upde
      <4>1. n.upde = Grant(m.upde, {<<d, i>>}, PL3)  BY <2>6, <2>7 DEF Grown
      <4>. QED  BY <4>1 DEF Grant
    <3>3. PICK u : u = m.pdt[d][k]  OBVIOUS
    <3>4. u # t  BY <3>3, <2>5, <2>11, OtherTable
    <3>5. u \in DOMAIN m.pt => u \in DOMAIN n.pt /\ \A l \in PtIdx : n.pt[u][l] = m.pt[u][l]
      BY <3>4, <2>6 DEF Grown
    <3>6. \A l \in PtIdx : <<u, l>> \in m.upte => <<u, l>> \in n.upte
      <4>1. n.upte = Grant(m.upte, {t} \X {j}, PL3)  BY <2>6 DEF Grown
      <4>. QED  BY <4>1 DEF Grant
    <3>. QED  BY <3>1, <3>2, <3>3, <3>5, <3>6 DEF KeepsEntry
  <2>12. \A y : OnLast(n, y) => OnLast(m, y)
    <3>1. d # KernelPdt  BY DEF Dirs
    <3>. QED  BY <3>1, <2>5, GrownLast
  <2>. QED  BY <2>1, <2>5, <2>8, <2>9, <2>10, <2>11, <2>12, <1>1, <1>7 DEF UserMapResult
<1>. QED  BY <1>5, <1>6, <1>7 DEF MapResult

\* The directory entries that pdt_load_process_pdt copies.
Copied(m) == {0} \cup {i \in KernelIdxs : m.pdt[KernelPdt][i] # Absent}

\* n is m after loading the directory d.
Loads(m, n, d) ==
  /\ Shape(n) /\ n.pool = m.pool /\ n.flipped = m.flipped /\ n.pt = m.pt /\ n.upte = m.upte
  /\ n.upde = m.upde \ ({d} \X Copied(m)) /\ DOMAIN n.pdt = DOMAIN m.pdt
  /\ \A e \in DOMAIN m.pdt : \A k \in PdtIdx :
       n.pdt[e][k] = IF e = d /\ k \in Copied(m) THEN m.pdt[KernelPdt][k] ELSE m.pdt[e][k]

\* pdt_load_process_pdt copies the kernel's entries and place 0 into directory d
\* and changes nothing else.
LEMMA Loading ==
  ASSUME NEW F, NEW m, MemOK(m, F), NEW d \in Dirs(m)
  PROVE  Loads(m, pdt_load_process_pdt(m, d), d)
<1>1. PICK n : n = pdt_load_process_pdt(m, d)  OBVIOUS
<1>2. PICK C : C = Copied(m)  OBVIOUS
<1>3. PICK h : h = m.pdt  OBVIOUS
<1>4. PICK r : r = [i \in PdtIdx |-> h[IF i \in C THEN KernelPdt ELSE d][i]]  OBVIOUS
<1>5. PICK g : g = [h EXCEPT ![d] = r]  OBVIOUS
<1>6. PICK up : up = (m.upde \ ({d} \X C)) \cup {<<d, i>> : i \in {k \in C :
                                                     <<KernelPdt, k>> \in m.upde}}
  OBVIOUS
<1>7. Typed(m, F) /\ Shape(m) /\ d \in DOMAIN m.pdt  BY DEF MemOK, Typed, Shape, Dirs
<1>8. n = [m EXCEPT !.pdt = g, !.upde = up]
  <2>1. C = {0} \cup {i \in KernelIdx .. (PdtEntries - 1) : m.pdt[KernelPdt][i] # Absent}
    BY <1>2 DEF Copied, KernelIdxs
  <2>. QED  BY <2>1, <1>1, <1>3, <1>4, <1>5, <1>6, <1>7
          DEF pdt_load_process_pdt, Shape, IsRecord
<1>9. /\ IsRecord(n) /\ n.pool = m.pool /\ n.flipped = m.flipped /\ n.pt = m.pt /\ n.upte = m.upte
      /\ n.upde = up /\ n.pdt = g
  BY <1>7, <1>8 DEF IsRecord, Shape
<1>10. up = m.upde \ ({d} \X C)
  <2>1. \A k : <<KernelPdt, k>> \notin m.upde  BY <1>7 DEF Typed, Dirs
  <2>. QED  BY <2>1, <1>6
<1>11. Matrix(h, PdtIdx) /\ d \in DOMAIN h  BY <1>3, <1>7 DEF Shape
<1>12. r = [k \in PdtIdx |-> r[k]]
       /\ \A k \in PdtIdx : r[k] = IF k \in C THEN h[KernelPdt][k] ELSE h[d][k]
  BY <1>4
<1>13. /\ Matrix(g, PdtIdx) /\ DOMAIN g = DOMAIN h
       /\ \A e \in DOMAIN h : \A k \in PdtIdx : g[e][k] = IF e = d THEN r[k] ELSE h[e][k]
  BY <1>5, <1>11, <1>12, MatrixRow
<1>14. Shape(n)  BY <1>7, <1>9, <1>13 DEF Shape
<1>. QED  BY <1>1, <1>2, <1>3, <1>9, <1>10, <1>12, <1>13, <1>14 DEF Loads

\* The memory is in order, and the kernel's entries in directory d are those
\* of the kernel.  The last page shows what it showed.
LoadResult(m, n, F, d) ==
  /\ MemOK(n, F) /\ \A x : OnLast(n, x) => OnLast(m, x)
  /\ \A i \in KernelIdxs : n.pdt[d][i] = n.pdt[KernelPdt][i]
  /\ n.pdt[d][0] = Identity

\* Loading a process leaves this.
LEMMA LoadOK ==
  ASSUME NEW F, F \in SUBSET (Nat \ {0}), NEW m, MemOK(m, F), NEW d \in Dirs(m),
         NEW n, Loads(m, n, d)
  PROVE  LoadResult(m, n, F, d)
<1>1. /\ Typed(m, F) /\ KernelOK(m) /\ DirsOK(m) /\ TablesUnique(m) /\ PagesUnique(m, F)
      /\ Apart(m) /\ UserTables(m)
  BY DEF MemOK
<1>2. /\ Shape(n) /\ n.pool = m.pool /\ n.flipped = m.flipped /\ n.pt = m.pt /\ n.upte = m.upte
      /\ n.upde = m.upde \ ({d} \X Copied(m)) /\ DOMAIN n.pdt = DOMAIN m.pdt
      /\ \A e \in DOMAIN m.pdt : \A k \in PdtIdx :
           n.pdt[e][k] = IF e = d /\ k \in Copied(m) THEN m.pdt[KernelPdt][k]
                         ELSE m.pdt[e][k]
  BY DEF Loads
<1>3. Dirs(n) = Dirs(m) /\ d \in DOMAIN m.pdt /\ d # KernelPdt /\ KernelPdt \in DOMAIN m.pdt
  BY <1>1, <1>2 DEF Dirs, Typed
<1>4. \A k \in PdtIdx : n.pdt[KernelPdt][k] = m.pdt[KernelPdt][k]  BY <1>2, <1>3
<1>5. Copied(m) \subseteq {0} \cup KernelIdxs /\ 0 \in Copied(m)  BY DEF Copied
<1>6. KernelIdxs \subseteq PdtIdx /\ 0 \in PdtIdx /\ KernelIdx \in PdtIdx
      /\ StackIdx \in PdtIdx /\ StackIdx # 0 /\ StackIdx \notin KernelIdxs
  BY Sizes DEF KernelIdxs, PdtIdx, StackIdx
<1>7. n.pdt[d][0] = Identity  BY <1>1, <1>2, <1>3, <1>5, <1>6 DEF KernelOK
<1>8. Identity \notin DOMAIN m.pt /\ Absent \notin DOMAIN m.pt
  <2>1. DOMAIN m.pt \subseteq F \cup {KernelPt}  BY <1>1 DEF Typed
  <2>2. Identity # KernelPt /\ Absent # KernelPt  BY DEF Identity, KernelPt, Absent
  <2>. QED  BY <2>1, <2>2, FrameKinds
<1>9. \A i \in KernelIdxs : n.pdt[d][i] = m.pdt[KernelPdt][i]
  <2>. SUFFICES ASSUME NEW i \in KernelIdxs PROVE n.pdt[d][i] = m.pdt[KernelPdt][i]
    OBVIOUS
  <2>1. i \in PdtIdx /\ i >= KernelIdx  BY Sizes DEF KernelIdxs, PdtIdx
  <2>2. m.pdt[d][i] \in {Absent, m.pdt[KernelPdt][i]}  BY <2>1, <1>1 DEF DirsOK
  <2>. QED  BY <2>1, <2>2, <1>2, <1>3 DEF Copied
<1>10. Typed(n, F)
  <2>1. n.upde \subseteq Dirs(n) \X UserIdxs  BY <1>1, <1>2, <1>3 DEF Typed
  <2>2. \A e \in DOMAIN n.pdt : \A i \in PdtIdx :
          n.pdt[e][i] \in F \cup {Absent, KernelPt, Identity}
    BY <1>1, <1>2 DEF Typed
  <2>. QED  BY <2>1, <2>2, <1>1, <1>2 DEF Typed, Shape
<1>11. KernelOK(n)  BY <1>1, <1>2, <1>4, <1>6 DEF KernelOK
<1>12. DirsOK(n)
  <2>. SUFFICES ASSUME NEW e \in Dirs(m), NEW k \in PdtIdx
       PROVE /\ k = 0 => n.pdt[e][k] \in {Absent, Identity} \cup (DOMAIN n.pt \ {KernelPt})
             /\ k = StackIdx => n.pdt[e][k] \in {Absent} \cup (DOMAIN n.pt \ {KernelPt})
             /\ k >= KernelIdx => n.pdt[e][k] \in {Absent, n.pdt[KernelPdt][k]}
             /\ (k \notin UserIdxs /\ k < KernelIdx) => n.pdt[e][k] = Absent
    BY <1>3 DEF DirsOK
  <2>1. CASE e = d /\ k \in Copied(m)
    <3>1. k = 0 \/ (k \in KernelIdxs /\ k # StackIdx /\ k # 0)
      BY <2>1, <1>5, <1>6, Sizes DEF KernelIdxs
    <3>2. CASE k = 0
      <4>1. k # StackIdx /\ ~(k >= KernelIdx) /\ k \in UserIdxs  BY <3>2, Sizes DEF UserIdxs
      <4>. QED  BY <4>1, <3>2, <2>1, <1>7
    <3>3. CASE k \in KernelIdxs /\ k # StackIdx /\ k # 0
      <4>1. ~(k < KernelIdx)  BY <3>3, Sizes DEF KernelIdxs
      <4>. QED  BY <4>1, <3>3, <2>1, <1>4, <1>9
    <3>. QED  BY <3>1, <3>2, <3>3
  <2>2. CASE ~(e = d /\ k \in Copied(m))
    <3>1. n.pdt[e][k] = m.pdt[e][k] /\ n.pdt[KernelPdt][k] = m.pdt[KernelPdt][k]
      BY <2>2, <1>2, <1>4 DEF Dirs
    <3>. QED  BY <3>1, <1>1, <1>2 DEF DirsOK
  <2>. QED  BY <2>1, <2>2
<1>13. TablesUnique(n)
  <2>. SUFFICES ASSUME NEW e \in DOMAIN m.pdt, NEW f \in DOMAIN m.pdt,
                       NEW i \in PdtIdx, NEW k \in PdtIdx,
                       n.pdt[e][i] = n.pdt[f][k], n.pdt[e][i] \in DOMAIN m.pt
                PROVE  i = k /\ (e = f \/ i >= KernelIdx)
    BY <1>2 DEF TablesUnique
  <2>1. PICK a : a = IF e = d /\ i \in Copied(m) THEN KernelPdt ELSE e  OBVIOUS
  <2>2. PICK b : b = IF f = d /\ k \in Copied(m) THEN KernelPdt ELSE f  OBVIOUS
  <2>3. /\ a \in DOMAIN m.pdt /\ b \in DOMAIN m.pdt /\ m.pdt[a][i] = n.pdt[e][i]
        /\ m.pdt[b][k] = n.pdt[f][k]
    BY <2>1, <2>2, <1>2, <1>3
  <2>4. i = k /\ (a = b \/ i >= KernelIdx)  BY <2>3, <1>1 DEF TablesUnique
  <2>5. ASSUME i \notin KernelIdxs PROVE a = e /\ b = f
    <3>1. e = d /\ i = 0 => FALSE  BY <1>7, <1>8
    <3>2. f = d /\ k = 0 => FALSE  BY <1>7, <1>8
    <3>. QED  BY <3>1, <3>2, <2>1, <2>2, <2>4, <2>5, <1>5
  <2>6. i \in KernelIdxs => i >= KernelIdx  BY Sizes DEF KernelIdxs
  <2>. QED  BY <2>4, <2>5, <2>6
<1>14. PagesUnique(n, F)
  <2>1. n.pdt[KernelPdt][LastIdx] = m.pdt[KernelPdt][LastIdx]  BY <1>4, LastAddress
  <2>. QED  BY <2>1, <1>1, <1>2 DEF PagesUnique, IsLast
<1>15. Apart(n)  BY <1>1, <1>2 DEF Apart, Unused
<1>16. UserTables(n)
  <2>1. \A e \in Dirs(m) : n.pdt[e][StackIdx] = m.pdt[e][StackIdx]
    BY <1>2, <1>5, <1>6 DEF Dirs
  <2>2. \A e \in Dirs(m) : n.pdt[e][0] \in DOMAIN m.pt => n.pdt[e][0] = m.pdt[e][0]
    BY <1>2, <1>6, <1>7, <1>8 DEF Dirs
  <2>. QED  BY <2>1, <2>2, <1>1, <1>2, <1>3 DEF UserTables
<1>17. \A i \in KernelIdxs : n.pdt[d][i] = n.pdt[KernelPdt][i]  BY <1>4, <1>6, <1>9
<1>18. \A x : OnLast(n, x) => OnLast(m, x)
  <2>1. n.pdt[KernelPdt][LastIdx] = m.pdt[KernelPdt][LastIdx]  BY <1>4, LastAddress
  <2>. QED  BY <2>1, <1>2 DEF OnLast
<1>. QED
  BY <1>18, <1>7, <1>10, <1>11, <1>12, <1>13, <1>14, <1>15, <1>16, <1>17 DEF MemOK, LoadResult

=============================================================================
