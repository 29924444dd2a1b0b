-------------------------- MODULE MemoryMapProofs --------------------------
(***************************************************************************)
(* Proofs about frames_init, for every table of the boot loader, every     *)
(* width of a word and every size of a frame.                              *)
(***************************************************************************)
EXTENDS MemoryMap, FiniteSetTheorems, TLAPS

-----------------------------------------------------------------------------
(***************************************************************************)
(* Arithmetic.                                                             *)
(***************************************************************************)

\* What the constants are, one by one.
LEMMA Sizes ==
  /\ FOUR_KB \in Nat /\ FOUR_KB > 0
  /\ Word \in Nat /\ Word > 2 /\ Word % FOUR_KB = 0
  /\ ByteBits \in Nat /\ ByteBits > 1
  /\ CellBits \in Nat /\ CellBits > 0 /\ CellBits % ByteBits = 0
  /\ LowMemory \in Nat /\ LowMemory > 0
  /\ kernel_physical_start \in Nat /\ LowMemory <= kernel_physical_start
  /\ kernel_physical_end \in Nat
  /\ kernel_physical_start < kernel_physical_end
  /\ kernel_physical_end + FOUR_KB <= Word
  /\ FreePages \in Nat /\ MAX_NUM_MEMORY_MAP \in Nat
BY MemoryMapAssumption

\* Quotient and remainder.
LEMMA DivMod ==
  ASSUME NEW a \in Int, NEW b \in Nat, b > 0
  PROVE  /\ a \div b \in Int /\ a % b \in Nat /\ a % b < b
         /\ a = b * (a \div b) + (a % b)
OBVIOUS

\* A product with a positive number keeps and reflects the order.
LEMMA TimesMono ==
  ASSUME NEW d \in Nat, d > 0, NEW a \in Int, NEW b \in Int
  PROVE  /\ d * a \in Int /\ d * b \in Int
         /\ a <= b <=> d * a <= d * b
         /\ a < b <=> d * a < d * b
         /\ d * (a - 1) = d * a - d /\ d * (a + 1) = d * a + d
OBVIOUS

\* A number below a multiple of d is in a frame before it.
LEMMA BelowMultiple ==
  ASSUME NEW d \in Nat, d > 0, NEW a \in Int, NEW b \in Int, d * (a - 1) < d * b
  PROVE  a <= b
<1>1. a - 1 \in Int  OBVIOUS
<1>2. a - 1 < b  BY <1>1, TimesMono
<1>. QED  BY <1>2

\* q is num divided by den and rounded up.
Ceil(num, den, q) == q \in Nat /\ den * (q - 1) < num /\ num <= den * q

\* Rounding up is monotone.
LEMMA CeilMono ==
  ASSUME NEW d \in Nat, d > 0, NEW x \in Nat, NEW y \in Nat, x <= y,
         NEW q, NEW r, Ceil(x, d, q), Ceil(y, d, r)
  PROVE  q <= r
<1>1. q \in Int /\ r \in Int  BY DEF Ceil
<1>2. d * (q - 1) \in Int /\ d * r \in Int  BY <1>1
<1>3. d * (q - 1) < d * r  BY <1>2 DEF Ceil
<1>. QED  BY <1>1, <1>3, BelowMultiple

\* To div_ceil 0 is 2^32, because 0 - 1 wraps around.
WrapZero(x) == IF x = 0 THEN Word ELSE x

\* div_ceil rounds up and does not wrap around itself.
LEMMA DivCeil ==
  ASSUME NEW x \in Nat, x < Word, NEW d \in Nat, d > 0, d > 1 \/ x > 0
  PROVE  /\ Ceil(WrapZero(x), d, div_ceil(x, d))
         /\ div_ceil(x, d) > 0 /\ div_ceil(x, d) < Word
         /\ div_ceil(x, d) <= WrapZero(x)
<1>1. PICK n : n = (x - 1) % Word  OBVIOUS
<1>2. n \in Nat /\ n < Word /\ n = WrapZero(x) - 1
  BY <1>1, Sizes DEF WrapZero
<1>3. PICK q : q = n \div d  OBVIOUS
<1>4. PICK r : r = n % d  OBVIOUS
<1>5. q \in Int /\ r \in Nat /\ r < d /\ n = d * q + r
  BY <1>2, <1>3, <1>4, DivMod
<1>6. q >= 0
  <2>1. SUFFICES ASSUME q < 0 PROVE FALSE  BY <1>5
  <2>2. q <= -1  BY <2>1, <1>5
  <2>3. d * q <= d * (-1)  BY <2>2, <1>5, TimesMono
  <2>4. d * q \in Int /\ d * (-1) = - d  BY <1>5
  <2>. QED  BY <2>3, <2>4, <1>5, <1>2
<1>7. d * q \in Int /\ q <= d * q  BY <1>5, <1>6
<1>8. d > 1 /\ q > 0 => q < d * q  BY <1>5, <1>7
<1>9. q + 1 < Word
  <2>1. CASE d > 1 /\ q > 0  BY <2>1, <1>8, <1>7, <1>5, <1>2, Sizes
  <2>2. CASE q = 0  BY <2>2, Sizes
  <2>3. CASE x > 0  BY <2>3, <1>2, <1>5, <1>7, Sizes DEF WrapZero
  <2>. QED  BY <2>1, <2>2, <2>3, <1>5, <1>6
<1>10. div_ceil(x, d) = q + 1
  <2>1. div_ceil(x, d) = (q + 1) % Word  BY <1>1, <1>3 DEF div_ceil
  <2>. QED  BY <2>1, <1>9, <1>5, <1>6, Sizes
<1>11. d * (q + 1) = d * q + d /\ d * ((q + 1) - 1) = d * q
  BY <1>5
<1>12. q + 1 \in Nat /\ WrapZero(x) = n + 1  BY <1>2, <1>5, <1>6, Sizes DEF WrapZero
<1>13. Ceil(WrapZero(x), d, q + 1)
  BY <1>11, <1>12, <1>5, <1>7 DEF Ceil
<1>. QED  BY <1>10, <1>13, <1>9, <1>6, <1>7, <1>5, <1>12

\* A multiple has remainder 0.
LEMMA Multiple ==
  ASSUME NEW f \in Nat, f > 0, NEW q \in Int
  PROVE  (f * q) % f = 0 /\ (f * q) \div f = q
<1>1. PICK m : m = f * q  OBVIOUS
<1>2. m \in Int  BY <1>1
<1>3. PICK a : a = m \div f  OBVIOUS
<1>4. PICK b : b = m % f  OBVIOUS
<1>5. a \in Int /\ b \in Nat /\ b < f /\ m = f * a + b
  BY <1>3, <1>4, <1>2, DivMod
<1>6. PICK k : k = q - a  OBVIOUS
<1>7. k \in Int  BY <1>6, <1>5
<1>8. b = f * k  BY <1>6, <1>5, <1>1
<1>9. k > 0 => b >= f  BY <1>8, <1>7
<1>10. k < 0 => b < 0  BY <1>8, <1>7
<1>11. k = 0  BY <1>9, <1>10, <1>7, <1>5
<1>12. b = 0  BY <1>11, <1>8
<1>13. a = q  BY <1>11, <1>6, <1>5
<1>. QED  BY <1>12, <1>13, <1>4, <1>3, <1>1

\* align_up rounds up to the next frame, and does not wrap around unless the
\* address is in the last frame of memory.
LEMMA AlignUp ==
  ASSUME NEW n \in Nat, n + FOUR_KB <= Word
  PROVE  /\ align_up(n, FOUR_KB) \in Nat /\ align_up(n, FOUR_KB) % FOUR_KB = 0
         /\ n <= align_up(n, FOUR_KB) /\ align_up(n, FOUR_KB) < n + FOUR_KB
         /\ align_up(n, FOUR_KB) <= Word - FOUR_KB
         /\ Ceil(n, FOUR_KB, align_up(n, FOUR_KB) \div FOUR_KB)
         /\ align_up(n, FOUR_KB) = FOUR_KB * (align_up(n, FOUR_KB) \div FOUR_KB)
<1>1. PICK q : q = n \div FOUR_KB  OBVIOUS
<1>2. PICK r : r = n % FOUR_KB  OBVIOUS
<1>3. PICK f : f = FOUR_KB  OBVIOUS
<1>4. f \in Nat /\ f > 0  BY <1>3, Sizes
<1>5. q \in Int /\ r \in Nat /\ r < f /\ n = f * q + r
  BY <1>1, <1>2, <1>3, <1>4, DivMod
<1>6. PICK c : c = IF r = 0 THEN q ELSE q + 1  OBVIOUS
<1>7. c \in Int  BY <1>5, <1>6
<1>8. PICK m : m = f * c  OBVIOUS
<1>9. m \in Int  BY <1>8, <1>7, <1>4
<1>10. m = IF r = 0 THEN n ELSE n + (f - r)
  <2>1. f * (q + 1) = f * q + f  BY <1>4, <1>5
  <2>. QED  BY <2>1, <1>8, <1>6, <1>5, <1>4
<1>11. m \in Nat /\ n <= m /\ m < n + f
  BY <1>10, <1>9, <1>5, <1>4
<1>12. m % f = 0 /\ m \div f = c  BY <1>8, <1>7, <1>4, Multiple
<1>13. m <= Word - f
  <2>1. PICK w : w = Word \div f  OBVIOUS
  <2>2. w \in Int /\ Word = f * w
    BY <2>1, <1>3, <1>4, Sizes, DivMod
  <2>3. f * (w - 1) = Word - f  BY <2>2, <1>4
  <2>4. f * (c - 1) = m - f  BY <1>8, <1>7, <1>4
  <2>5. f * (c - 1) < f * (w - 1)
    BY <2>3, <2>4, <1>11, <1>3, <1>4, Sizes
  <2>6. w - 1 \in Int  BY <2>2
  <2>7. c <= w - 1  BY <2>5, <2>6, <1>7, <1>4, BelowMultiple
  <2>8. f * c <= f * (w - 1)  BY <2>7, <2>6, <1>7, <1>4, TimesMono
  <2>. QED  BY <2>8, <2>3, <1>8
<1>14. align_up(n, FOUR_KB) = m
  <2>1. CASE r = 0  BY <2>1, <1>2, <1>10 DEF align_up
  <2>2. CASE r # 0
    <3>1. align_up(n, FOUR_KB) = (n + (f - r)) % Word
      BY <2>2, <1>2, <1>3 DEF align_up
    <3>2. n + (f - r) = m  BY <1>10, <2>2
    <3>. QED  BY <3>1, <3>2, <1>11, <1>13, <1>4, Sizes
  <2>. QED  BY <2>1, <2>2
<1>15. Ceil(n, f, c)
  <2>1. f * (c - 1) = m - f  BY <1>8, <1>7, <1>4
  <2>2. c >= 0
    <3>1. -1 \in Int /\ f * (-1) = - f  BY <1>4
    <3>2. c <= -1 => f * c <= f * (-1)  BY <3>1, <1>7, <1>4, TimesMono
    <3>. QED  BY <3>1, <3>2, <1>8, <1>11, <1>7, <1>4
  <2>. QED  BY <2>1, <2>2, <1>8, <1>7, <1>11, <1>4 DEF Ceil
<1>. QED  BY <1>14, <1>15, <1>11, <1>12, <1>13, <1>8, <1>3

\* align_down rounds down to a frame.
LEMMA AlignDown ==
  ASSUME NEW n \in Nat
  PROVE  /\ align_down(n, FOUR_KB) \in Nat /\ align_down(n, FOUR_KB) % FOUR_KB = 0
         /\ align_down(n, FOUR_KB) <= n
         /\ align_down(n, FOUR_KB) = FOUR_KB * (align_down(n, FOUR_KB) \div FOUR_KB)
         /\ \A b \in Nat : FOUR_KB * b <= n => FOUR_KB * b <= align_down(n, FOUR_KB)
<1>1. PICK q : q = n \div FOUR_KB  OBVIOUS
<1>2. PICK r : r = n % FOUR_KB  OBVIOUS
<1>3. PICK f : f = FOUR_KB  OBVIOUS
<1>4. f \in Nat /\ f > 0  BY <1>3, Sizes
<1>5. q \in Int /\ r \in Nat /\ r < f /\ n = f * q + r
  BY <1>1, <1>2, <1>3, <1>4, DivMod
<1>6. PICK m : m = f * q  OBVIOUS
<1>7. m \in Int  BY <1>6, <1>5, <1>4
<1>8. m = n - r  BY <1>6, <1>5
<1>9. align_down(n, FOUR_KB) = m  BY <1>8, <1>2 DEF align_down
<1>10. m % f = 0 /\ m \div f = q  BY <1>6, <1>5, <1>4, Multiple
<1>11. m >= 0
  <2>1. f * (-1) = - f  BY <1>4
  <2>2. q <= -1 => f * q <= f * (-1)  BY <1>5, <1>4, TimesMono
  <2>3. q >= 0  BY <2>1, <2>2, <1>4, <1>5
  <2>4. f * q >= 0  BY <2>3, <1>4, <1>5
  <2>. QED  BY <2>4, <1>6
<1>12. ASSUME NEW b \in Nat, FOUR_KB * b <= n PROVE FOUR_KB * b <= m
  <2>1. f * (q + 1) = m + f  BY <1>6, <1>5, <1>4
  <2>2. f * (b - 1) = f * b - f /\ f * b \in Int  BY <1>4
  <2>3. f * (b - 1) < f * q  BY <1>12, <2>2, <1>3, <1>6, <1>7, <1>8, <1>5, <1>4
  <2>4. b <= q  BY <2>3, <1>4, <1>5, BelowMultiple
  <2>5. f * b <= f * q  BY <2>4, <1>4, <1>5, TimesMono
  <2>. QED  BY <2>5, <1>6, <1>3
<1>. QED  BY <1>9, <1>10, <1>11, <1>8, <1>5, <1>7, <1>6, <1>3, <1>12

-----------------------------------------------------------------------------
(***************************************************************************)
(* The size of the bitmap.                                                 *)
(***************************************************************************)

\* Memory has two frames at least: the kernel does not fill the first.
LEMMA TwoFrames == Word >= 2 * FOUR_KB
<1>1. PICK f : f = FOUR_KB  OBVIOUS
<1>2. PICK w : w = Word \div f  OBVIOUS
<1>3. f \in Nat /\ f > 0  BY <1>1, Sizes
<1>4. w \in Int /\ Word = f * w  BY <1>1, <1>2, <1>3, Sizes, DivMod
<1>5. f * 1 = f  BY <1>3
<1>6. f * 1 < f * w  BY <1>4, <1>5, <1>1, Sizes
<1>7. 1 < w  BY <1>6, <1>4, <1>3, TimesMono
<1>8. f * 2 <= f * w  BY <1>7, <1>4, <1>3, TimesMono
<1>. QED  BY <1>8, <1>4, <1>1, <1>3

\* A bitmap of bytes is smaller than memory, by a frame at least.
LEMMA BytesBelow ==
  ASSUME NEW x \in Nat, x <= Word, NEW q, Ceil(x, ByteBits, q)
  PROVE  q + FOUR_KB <= Word
<1>1. PICK b : b = ByteBits  OBVIOUS
<1>2. b \in Nat /\ b >= 2  BY <1>1, Sizes
<1>3. q \in Nat /\ b * (q - 1) < x  BY <1>1 DEF Ceil
<1>4. q >= 1 => 2 * (q - 1) <= b * (q - 1)  BY <1>2, <1>3
<1>5. b * (q - 1) \in Int  BY <1>2, <1>3
<1>. QED  BY <1>3, <1>4, <1>5, TwoFrames, Sizes

\* What construct_bitmap computes: bitmap_pfs frames hold one bit for each of
\* the pfs frames, and are not all of memory.
LEMMA BitmapFramesBounds ==
  ASSUME NEW pfs \in Nat, pfs < Word
  PROVE  /\ \E q \in Nat : /\ Ceil(WrapZero(pfs), ByteBits, q)
                           /\ Ceil(q, FOUR_KB, BitmapFrames(pfs))
         /\ BitmapFrames(pfs) \in Nat /\ BitmapFrames(pfs) > 0
         /\ BitmapFrames(pfs) <= WrapZero(pfs)
         /\ BitmapFrames(pfs) < Word
         /\ FOUR_KB * BitmapFrames(pfs) \in Nat
         /\ FOUR_KB * BitmapFrames(pfs) < Word
<1>1. PICK x : x = WrapZero(pfs)  OBVIOUS
<1>2. x \in Nat /\ x > 0 /\ x <= Word  BY <1>1, Sizes DEF WrapZero
<1>3. PICK q : q = div_ceil(pfs, ByteBits)  OBVIOUS
<1>4. Ceil(x, ByteBits, q) /\ q > 0 /\ q < Word /\ q <= x
  BY <1>1, <1>3, DivCeil, Sizes
<1>5. q \in Nat  BY <1>4 DEF Ceil
<1>6. PICK b : b = div_ceil(q, FOUR_KB)  OBVIOUS
<1>7. WrapZero(q) = q  BY <1>4 DEF WrapZero
<1>8. Ceil(WrapZero(q), FOUR_KB, b) /\ b > 0 /\ b < Word /\ b <= WrapZero(q)
  BY <1>4, <1>5, <1>6, DivCeil, Sizes
<1>9. Ceil(q, FOUR_KB, b) /\ b <= q  BY <1>7, <1>8
<1>10. b \in Nat  BY <1>9 DEF Ceil
<1>11. q + FOUR_KB <= Word  BY <1>2, <1>4, BytesBelow
<1>12. FOUR_KB * b \in Nat /\ FOUR_KB * b < q + FOUR_KB
  <2>1. FOUR_KB * (b - 1) = FOUR_KB * b - FOUR_KB /\ FOUR_KB * b \in Nat
    BY <1>10, Sizes
  <2>. QED  BY <2>1, <1>9, <1>5, Sizes DEF Ceil
<1>13. BitmapFrames(pfs) = b  BY <1>3, <1>6 DEF BitmapFrames
<1>14. FOUR_KB * b < Word  BY <1>12, <1>11, <1>5, Sizes
<1>. QED  BY <1>13, <1>14, <1>12, <1>10, <1>9, <1>8, <1>5, <1>4, <1>2, <1>1

\* The cells of len frames lie in the pages that are mapped for the bytes of
\* len frames, and the frames that were reserved for the bitmap before its own
\* frames were taken off are enough for those pages.
LEMMA CellsFit ==
  ASSUME NEW pfs \in Nat, pfs < Word,
         NEW len, len = (pfs - BitmapFrames(pfs)) % Word, len > 0
  PROVE  /\ div_ceil(len, CellBits) * (CellBits \div ByteBits)
              <= (align_up(div_ceil(len, ByteBits), FOUR_KB) \div FOUR_KB) * FOUR_KB
         /\ align_up(div_ceil(len, ByteBits), FOUR_KB) \div FOUR_KB
              <= BitmapFrames(pfs)
<1>1. PICK x : x = WrapZero(pfs)  OBVIOUS
<1>2. x \in Nat /\ x > 0 /\ x <= Word  BY <1>1, Sizes DEF WrapZero
<1>3. PICK b : b = BitmapFrames(pfs)  OBVIOUS
<1>4. b \in Nat /\ b > 0 /\ b < Word  BY <1>3, BitmapFramesBounds
<1>5. PICK q \in Nat : Ceil(x, ByteBits, q) /\ Ceil(q, FOUR_KB, b)
  BY <1>1, <1>3, BitmapFramesBounds
<1>6. len \in Nat /\ len < Word /\ len <= x
  <2>1. b <= x  BY <1>1, <1>3, BitmapFramesBounds
  <2>2. CASE pfs = 0
    BY <2>2, <2>1, <1>1, <1>3, <1>4, Sizes DEF WrapZero
  <2>3. CASE pfs > 0
    <3>1. x = pfs  BY <2>3, <1>1 DEF WrapZero
    <3>2. pfs - b \in Nat /\ pfs - b < Word  BY <3>1, <2>1, <1>4, Sizes
    <3>3. len = pfs - b  BY <3>2, <1>3, Sizes
    <3>. QED  BY <3>1, <3>2, <3>3, <1>4
  <2>. QED  BY <2>2, <2>3
<1>7. WrapZero(len) = len  BY <1>6 DEF WrapZero
<1>8. PICK s : s = div_ceil(len, ByteBits)  OBVIOUS
<1>9. Ceil(WrapZero(len), ByteBits, s)  BY <1>6, <1>8, DivCeil, Sizes
<1>10. Ceil(len, ByteBits, s) /\ s \in Nat  BY <1>9, <1>7 DEF Ceil
<1>11. s <= q
  <2>1. ByteBits \in Nat /\ ByteBits > 0  BY Sizes
  <2>. QED  BY <2>1, <1>10, <1>5, <1>6, <1>2, CeilMono
<1>12. s + FOUR_KB <= Word  BY <1>10, <1>6, BytesBelow, Sizes
<1>13. PICK p : p = align_up(s, FOUR_KB) \div FOUR_KB  OBVIOUS
<1>14. Ceil(s, FOUR_KB, p)  BY <1>13, <1>12, <1>10, AlignUp
<1>15. p <= b  BY <1>14, <1>5, <1>11, <1>10, CeilMono, Sizes
<1>16. PICK n : n = div_ceil(len, CellBits)  OBVIOUS
<1>17. PICK c : c = CellBits \div ByteBits  OBVIOUS
<1>18. c \in Nat /\ c > 0 /\ CellBits = ByteBits * c
  <2>1. c \in Int /\ CellBits = ByteBits * c  BY <1>17, DivMod, Sizes
  <2>2. c <= 0 => ByteBits * c <= ByteBits * 0  BY <2>1, TimesMono, Sizes
  <2>3. ByteBits * 0 = 0  BY Sizes
  <2>. QED  BY <2>1, <2>2, <2>3, Sizes
<1>19. PICK g : g = FOUR_KB \div c  OBVIOUS
<1>20. g \in Int /\ FOUR_KB = c * g
  <2>1. FOUR_KB % c = 0  BY <1>17, MemoryMapAssumption
  <2>. QED  BY <2>1, <1>19, <1>18, DivMod, Sizes
<1>21. n \in Nat /\ CellBits * (n - 1) < len
  <2>1. Ceil(WrapZero(len), CellBits, n)  BY <1>16, <1>6, DivCeil, Sizes
  <2>. QED  BY <2>1, <1>7 DEF Ceil
<1>22. p \in Nat /\ s <= FOUR_KB * p  BY <1>14 DEF Ceil
<1>23. c * (n - 1) < s
  <2>1. PICK k : k = c * (n - 1)  OBVIOUS
  <2>2. k \in Int  BY <2>1, <1>18, <1>21
  <2>3. CellBits * (n - 1) = ByteBits * k  BY <2>1, <1>18, <1>21, Sizes
  <2>4. len <= ByteBits * s  BY <1>10 DEF Ceil
  <2>5. ByteBits * k < ByteBits * s
    BY <2>2, <2>3, <2>4, <1>21, <1>6, <1>10, TimesMono, Sizes
  <2>6. k < s  BY <2>5, <2>2, <1>10, TimesMono, Sizes
  <2>. QED  BY <2>6, <2>1
<1>24. PICK k : k = g * p  OBVIOUS
<1>25. k \in Int /\ FOUR_KB * p = c * k
  BY <1>24, <1>20, <1>22, <1>18
<1>26. c * (n - 1) < c * k
  <2>1. c * (n - 1) \in Int /\ c * k \in Int  BY <1>25, <1>18, <1>21
  <2>2. s <= c * k  BY <1>22, <1>25
  <2>. QED  BY <2>1, <2>2, <1>23, <1>10
<1>27. n <= k  BY <1>26, <1>18, <1>21, <1>25, BelowMultiple
<1>28. c * n <= c * k  BY <1>27, <1>18, <1>21, <1>25, TimesMono
<1>29. n * c <= p * FOUR_KB
  <2>1. n * c = c * n /\ p * FOUR_KB = FOUR_KB * p  BY <1>18, <1>21, <1>22, Sizes
  <2>. QED  BY <2>1, <1>28, <1>25
<1>. QED  BY <1>29, <1>15, <1>3, <1>8, <1>13, <1>16, <1>17

\* One frame altogether, or none that is left for the bitmap: the length wraps
\* around, and kernel_pt has no room for the pages of such a bitmap.
LEMMA NoFramesNoPages ==
  align_up(div_ceil(0, ByteBits), FOUR_KB) \div FOUR_KB > FreePages
<1>1. PICK s : s = div_ceil(0, ByteBits)  OBVIOUS
<1>2. Ceil(Word, ByteBits, s)  BY <1>1, DivCeil, Sizes DEF WrapZero
<1>3. s \in Nat /\ Word <= ByteBits * s  BY <1>2 DEF Ceil
<1>4. s + FOUR_KB <= Word  BY <1>2, BytesBelow, Sizes
<1>5. PICK p : p = align_up(s, FOUR_KB) \div FOUR_KB  OBVIOUS
<1>6. Ceil(s, FOUR_KB, p)  BY <1>5, <1>4, <1>3, AlignUp
<1>7. p \in Nat /\ s <= FOUR_KB * p  BY <1>6 DEF Ceil
<1>8. PICK k : k = FOUR_KB * p  OBVIOUS
<1>9. k \in Nat /\ s <= k  BY <1>8, <1>7, Sizes
<1>10. ByteBits * s <= ByteBits * k  BY <1>9, <1>3, TimesMono, Sizes
<1>11. PICK d : d = FOUR_KB * ByteBits  OBVIOUS
<1>12. d \in Nat /\ d > 0 /\ ByteBits * k = d * p
  BY <1>11, <1>8, <1>7, Sizes
<1>13. FreePages * d < Word  BY <1>11, MemoryMapAssumption
<1>14. d * FreePages < d * p
  <2>1. d * FreePages = FreePages * d /\ d * FreePages \in Int /\ d * p \in Int
    BY <1>12, <1>7, Sizes
  <2>2. ByteBits * s \in Int  BY <1>3, Sizes
  <2>. QED  BY <2>1, <2>2, <1>13, <1>12, <1>10, <1>3, Sizes
<1>15. FreePages < p  BY <1>14, <1>12, <1>7, TimesMono, Sizes
<1>. QED  BY <1>15, <1>1, <1>5, <1>7, Sizes

-----------------------------------------------------------------------------
(***************************************************************************)
(* The invariant.                                                          *)
(***************************************************************************)

\* The elements of mmap[].
Areas == [addr : Nat, len : Nat]

\* The values of the variables.
Types ==
  /\ table \in Tables \cup {<<>>}
  /\ i \in Nat \ {0}
  /\ mmap \in Seq(Areas)
  /\ \A k \in DOMAIN mmap : mmap[k].addr < Word /\ mmap[k].len < Word
  /\ total_pfs \in Nat /\ total_pfs < Word

\* The locals of construct_bitmap once they are computed.
Sized ==
  /\ pc \in {"place", "map", "ready"} => bitmap_pfs = BitmapFrames(total_pfs)
  /\ pc \in {"map", "ready"} =>
       page_frames_len = (total_pfs - bitmap_pfs) % Word
  /\ pc = "ready" => MappedPages <= FreePages

\* An entry of a regular table as fill_memory_map copies it, and its whole
\* frames.
RawAddr(e) == IF HoldsKernel(e) THEN kernel_physical_end ELSE e.addr
RawLen(e) == IF HoldsKernel(e) THEN e.len - kernel_physical_end ELSE e.len
WholeLen(e) == align_down(UsableBytes(e), FOUR_KB)
Raw(e) == [addr |-> RawAddr(e), len |-> RawLen(e)]
Whole(e) == [addr |-> FirstFrame(e), len |-> WholeLen(e)]

\* The entries that have been copied, and what has become of entry n in
\* element k of mmap[].
Copied == {n \in UsableEntries : pc = "fill" => n < i}
IsRaw(k) == pc = "fill" \/ (pc = "align" /\ k >= i)
Holds(k, n) == mmap[k] = IF IsRaw(k) THEN Raw(table[n]) ELSE Whole(table[n])

\* Until the bitmap is placed mmap[] consists of the usable entries, in the
\* order of the table.
Mirror ==
  pc \in {"fill", "align", "count", "place"} =>
    /\ \A k \in DOMAIN mmap : \E n \in Copied : Holds(k, n)
    /\ \A n \in Copied : \E k \in DOMAIN mmap : Holds(k, n)
    /\ \A j, k \in DOMAIN mmap :
         j < k => mmap[j].addr + mmap[j].len <= mmap[k].addr

\* The bytes of the first elements of mmap[]; total_pfs is the number of the
\* frames that have been counted.
BytesUpTo(k) == UNION {Area(j) : j \in 1 .. k}
Counted ==
  /\ pc \in {"fill", "align"} => total_pfs = 0
  /\ pc = "fill" => Len(mmap) = Cardinality(Copied)
  /\ pc = "count" => /\ i <= Len(mmap) + 1
                     /\ FOUR_KB * total_pfs = Cardinality(BytesUpTo(i - 1))
  /\ pc = "place" => FOUR_KB * total_pfs = Cardinality(BytesUpTo(Len(mmap)))
  /\ pc \in {"place", "map"} => total_pfs = AllFrames

\* The areas that have been tried are too small for the bitmap.
TooSmall ==
  pc = "place" => \A k \in DOMAIN mmap : k < i => mmap[k].len < BitmapBytes

\* What MapUsable says, from the moment the bitmap is placed.
Usable ==
  pc \in {"map", "ready"} =>
    /\ \A k \in DOMAIN mmap :
         /\ mmap[k].addr % FOUR_KB = 0 /\ mmap[k].len % FOUR_KB = 0
         /\ mmap[k].addr > 0 /\ mmap[k].addr + mmap[k].len < Word
         /\ Area(k) \subseteq AvailableBytes \ (KernelImage \cup BitmapFrameBytes)
    /\ \A j, k \in DOMAIN mmap :
         j < k => mmap[j].addr + mmap[j].len <= mmap[k].addr
    /\ BitmapFrameBytes \subseteq AvailableBytes \ KernelImage
    /\ page_frames_len * FOUR_KB = Cardinality(UNION {Area(k) : k \in DOMAIN mmap})

RegularInv == Mirror /\ Counted /\ TooSmall /\ Usable

Inv == Types /\ Sized /\ (Regular => RegularInv) /\ BitmapBeforeUse

-----------------------------------------------------------------------------
(***************************************************************************)
(* Every table.                                                            *)
(***************************************************************************)

\* The elements of a sequence, and of sequences made from it.
LEMMA ElementIn ==
  ASSUME NEW S, NEW s \in Seq(S)
  PROVE  /\ \A k \in DOMAIN s : s[k] \in S
         /\ \A x \in S : /\ Append(s, x) \in Seq(S)
                         /\ \A k \in DOMAIN s : [s EXCEPT ![k] = x] \in Seq(S)
OBVIOUS

\* The fields of the entries.
LEMMA TableFacts ==
  ASSUME Types
  PROVE  /\ Len(table) \in Nat /\ DOMAIN table = 1 .. Len(table)
         /\ \A k \in DOMAIN table :
              /\ k \in Nat /\ k > 0 /\ k <= Len(table)
              /\ table[k].addr \in Nat /\ table[k].len \in Nat /\ table[k].len > 0
         /\ \A j, k \in DOMAIN table :
              j < k => table[j].addr + table[j].len <= table[k].addr
<1>1. CASE table = <<>>  BY <1>1
<1>2. CASE table \in Tables
  <2>1. table \in Seq([addr : Nat, len : Nat \ {0}, type : {Available, Reserved}])
    BY <1>2, TableAssumption
  <2>2. \A j, k \in DOMAIN table : j < k => Ends(table[j]) <= table[k].addr
    BY <1>2, TableAssumption
  <2>3. DOMAIN table = 1 .. Len(table) /\ Len(table) \in Nat  BY <2>1
  <2>4. \A k \in DOMAIN table :
          table[k] \in [addr : Nat, len : Nat \ {0}, type : {Available, Reserved}]
    BY <2>1, ElementIn
  <2>. QED  BY <2>2, <2>3, <2>4 DEF Ends
<1>. QED  BY <1>1, <1>2 DEF Types

\* The fields of mmap[].
LEMMA MmapFacts ==
  ASSUME Types
  PROVE  /\ Len(mmap) \in Nat /\ DOMAIN mmap = 1 .. Len(mmap)
         /\ \A k \in DOMAIN mmap :
              /\ k \in Nat /\ k > 0 /\ k <= Len(mmap)
              /\ mmap[k] = [addr |-> mmap[k].addr, len |-> mmap[k].len]
              /\ mmap[k].addr \in Nat /\ mmap[k].len \in Nat
              /\ mmap[k].addr < Word /\ mmap[k].len < Word
<1>1. Len(mmap) \in Nat /\ DOMAIN mmap = 1 .. Len(mmap)  BY DEF Types
<1>2. \A k \in DOMAIN mmap : mmap[k] \in Areas  BY ElementIn DEF Types
<1>. QED  BY <1>1, <1>2 DEF Types, Areas

\* A remainder modulo the word is a word.
LEMMA ModWord ==
  ASSUME NEW a \in Int
  PROVE  a % Word \in Nat /\ a % Word < Word
BY DivMod, Sizes

\* A word keeps its value.
LEMMA SmallWord ==
  ASSUME NEW a \in Nat, a < Word
  PROVE  a % Word = a
BY Sizes

\* Every step leaves words in mmap[] and in total_pfs.
LEMMA TypesStep ==
  ASSUME Types, Sized, Next
  PROVE  Types'
<1>1. CASE fill_entry
  <2>1. i \in DOMAIN table  BY <1>1, TableFacts DEF fill_entry, Types
  <2>2. PICK a : a = table[i].addr % Word  OBVIOUS
  <2>3. PICK l : l = table[i].len % Word  OBVIOUS
  <2>4. a \in Nat /\ a < Word /\ l \in Nat /\ l < Word
    <3>1. table[i].addr \in Int /\ table[i].len \in Int  BY <2>1, TableFacts
    <3>. QED  BY <3>1, <2>2, <2>3, ModWord
  <2>5. PICK m : m = (l - kernel_physical_end) % Word  OBVIOUS
  <2>6. m \in Nat /\ m < Word  BY <2>5, <2>4, ModWord, Sizes
  <2>7. PICK area : area = CutKernel(a, l)  OBVIOUS
  <2>8. \/ area = [addr |-> kernel_physical_end, len |-> m]
        \/ area = [addr |-> a, len |-> l]
    BY <2>7, <2>5 DEF CutKernel
  <2>9. area \in Areas /\ area.addr < Word /\ area.len < Word
    BY <2>8, <2>4, <2>6, Sizes DEF Areas
  <2>10. mmap' = mmap \/ mmap' = Append(mmap, area)
    BY <1>1, <2>2, <2>3, <2>7 DEF fill_entry
  <2>11. mmap' \in Seq(Areas)
    BY <2>10, <2>9, <2>1, ElementIn DEF Types
  <2>12. \A k \in DOMAIN mmap' : mmap'[k].addr < Word /\ mmap'[k].len < Word
    <3>1. CASE mmap' = mmap  BY <3>1 DEF Types
    <3>2. CASE mmap' = Append(mmap, area)
      <4>1. ASSUME NEW k \in DOMAIN mmap'
            PROVE  (k \in DOMAIN mmap /\ mmap'[k] = mmap[k]) \/ mmap'[k] = area
        BY <3>2, MmapFacts, <2>9 DEF Types
      <4>. QED  BY <4>1, <2>9 DEF Types
    <3>. QED  BY <2>10, <3>1, <3>2
  <2>. QED  BY <1>1, <2>11, <2>12 DEF fill_entry, Types
<1>2. CASE align_entry
  <2>1. i \in DOMAIN mmap  BY <1>2, MmapFacts DEF align_entry, Types
  <2>2. PICK a : a = align_up(mmap[i].addr, FOUR_KB)  OBVIOUS
  <2>3. a \in Nat /\ a < Word
    <3>1. PICK n : n = mmap[i].addr  OBVIOUS
    <3>2. n \in Nat /\ n < Word  BY <3>1, <2>1, MmapFacts
    <3>3. n % FOUR_KB \in Nat  BY <3>2, DivMod, Sizes
    <3>4. (n + (FOUR_KB - (n % FOUR_KB))) % Word \in Nat
            /\ (n + (FOUR_KB - (n % FOUR_KB))) % Word < Word
      BY <3>2, <3>3, ModWord, Sizes
    <3>. QED  BY <3>1, <3>2, <3>4, <2>2 DEF align_up
  <2>4. PICK l : l = (mmap[i].len - (a - mmap[i].addr)) % Word  OBVIOUS
  <2>5. l \in Nat /\ l < Word
    <3>1. mmap[i].len - (a - mmap[i].addr) \in Int  BY <2>1, <2>3, MmapFacts
    <3>. QED  BY <3>1, <2>4, ModWord
  <2>6. PICK d : d = align_down(l, FOUR_KB)  OBVIOUS
  <2>7. d \in Nat /\ d < Word  BY <2>5, <2>6, AlignDown, Sizes
  <2>8. PICK area : area = [addr |-> a, len |-> d]  OBVIOUS
  <2>9. area \in Areas /\ area.addr < Word /\ area.len < Word
    BY <2>8, <2>3, <2>7 DEF Areas
  <2>10. mmap' = [mmap EXCEPT ![i] = area]
    BY <1>2, <2>2, <2>4, <2>6, <2>8 DEF align_entry
  <2>11. mmap' \in Seq(Areas)
    BY <2>10, <2>9, <2>1, ElementIn DEF Types
  <2>12. \A k \in DOMAIN mmap' : mmap'[k].addr < Word /\ mmap'[k].len < Word
    BY <2>10, <2>9 DEF Types
  <2>. QED  BY <1>2, <2>11, <2>12 DEF align_entry, Types
<1>3. CASE count_entry
  <2>1. i \in DOMAIN mmap  BY <1>3, MmapFacts DEF count_entry, Types
  <2>2. mmap[i].len \div FOUR_KB \in Int  BY <2>1, MmapFacts, DivMod, Sizes
  <2>3. total_pfs' \in Nat /\ total_pfs' < Word
    BY <1>3, <2>2, ModWord DEF count_entry, Types
  <2>. QED  BY <1>3, <2>3 DEF count_entry, Types
<1>4. CASE place_bitmap
  <2>1. i \in DOMAIN mmap  BY <1>4, MmapFacts DEF place_bitmap, Types
  <2>b. BitmapBytes \in Nat
    <3>1. bitmap_pfs \in Nat
      BY <1>4, BitmapFramesBounds DEF place_bitmap, Sized, Types
    <3>2. bitmap_pfs * FOUR_KB \in Int  BY <3>1, Sizes
    <3>. QED  BY <3>2, ModWord DEF BitmapBytes
  <2>2. CASE mmap[i].len >= BitmapBytes
    <3>1. PICK a : a = (mmap[i].addr + BitmapBytes) % Word  OBVIOUS
    <3>2. a \in Nat /\ a < Word
      <4>1. mmap[i].addr + BitmapBytes \in Int  BY <2>1, <2>2, <2>b, MmapFacts
      <4>. QED  BY <4>1, <3>1, ModWord
    <3>3. PICK l : l = mmap[i].len - BitmapBytes  OBVIOUS
    <3>4. l \in Nat /\ l < Word
      <4>1. mmap[i].len \in Nat /\ mmap[i].len < Word  BY <2>1, MmapFacts
      <4>. QED  BY <4>1, <2>2, <2>b, <3>3, Sizes
    <3>5. PICK area : area = [addr |-> a, len |-> l]  OBVIOUS
    <3>6. area \in Areas /\ area.addr < Word /\ area.len < Word
      BY <3>5, <3>2, <3>4 DEF Areas
    <3>7. mmap' = [mmap EXCEPT ![i] = area]
      BY <1>4, <2>2, <3>1, <3>3, <3>5, <2>1 DEF place_bitmap
    <3>8. mmap' \in Seq(Areas)
      BY <3>7, <3>6, <2>1, ElementIn DEF Types
    <3>9. \A k \in DOMAIN mmap' : mmap'[k].addr < Word /\ mmap'[k].len < Word
      BY <3>7, <3>6 DEF Types
    <3>. QED  BY <1>4, <2>2, <3>8, <3>9 DEF place_bitmap, Types
  <2>3. CASE ~ (mmap[i].len >= BitmapBytes)
    BY <1>4, <2>3 DEF place_bitmap, Types
  <2>. QED  BY <2>2, <2>3
<1>5. CASE \/ fill_done \/ align_done \/ count_done \/ place_fails \/ map_bitmap
           \/ allocate_without_bitmap
  BY <1>5 DEF fill_done, align_done, count_done, place_fails, map_bitmap,
              allocate_without_bitmap, Types
<1>. QED  BY <1>1, <1>2, <1>3, <1>4, <1>5 DEF Next

\* The sizes are computed once, from total_pfs.
LEMMA SizedStep ==
  ASSUME Types, Sized, Next
  PROVE  Sized'
<1>1. CASE fill_entry  BY <1>1 DEF fill_entry, Sized
<1>2. CASE \/ fill_done \/ align_entry \/ align_done \/ count_entry
           \/ place_fails \/ allocate_without_bitmap
  BY <1>2 DEF fill_done, align_entry, align_done, count_entry, place_fails,
              allocate_without_bitmap, Sized
<1>3. CASE count_done  BY <1>3 DEF count_done, Sized
<1>4. CASE place_bitmap
  <2>1. pc' \in {"place", "map"}  BY <1>4 DEF place_bitmap
  <2>2. pc' = "map" => page_frames_len' = (total_pfs - bitmap_pfs) % Word
    BY <1>4 DEF place_bitmap
  <2>3. pc = "place" /\ UNCHANGED <<total_pfs, bitmap_pfs>>
    BY <1>4 DEF place_bitmap
  <2>. QED  BY <2>1, <2>2, <2>3 DEF Sized
<1>5. CASE map_bitmap
  <2>1. MappedPages' = MappedPages
    BY <1>5 DEF map_bitmap, MappedPages, bitmap_size
  <2>. QED  BY <1>5, <2>1 DEF map_bitmap, Sized
<1>. QED  BY <1>1, <1>2, <1>3, <1>4, <1>5 DEF Next

-----------------------------------------------------------------------------
(***************************************************************************)
(* Regular tables.                                                         *)
(***************************************************************************)

\* Nothing that frames_init computes from a usable entry wraps around: the
\* copy and the whole frames lie in the entry.
LEMMA EntryFacts ==
  ASSUME NEW e, e.addr \in Nat, e.len \in Nat,
         e.addr + e.len < Word - FOUR_KB,
         HoldsKernel(e) \/ e.addr > LowMemory,
         UsableBytes(e) >= 0
  PROVE  /\ RawAddr(e) \in Nat /\ RawAddr(e) > LowMemory
         /\ RawLen(e) \in Nat
         /\ e.addr <= RawAddr(e) /\ RawAddr(e) + RawLen(e) <= e.addr + e.len
         /\ FirstFrame(e) = align_up(RawAddr(e), FOUR_KB)
         /\ FirstFrame(e) \in Nat /\ FirstFrame(e) % FOUR_KB = 0
         /\ RawAddr(e) <= FirstFrame(e)
         /\ UsableBytes(e) = RawLen(e) - (FirstFrame(e) - RawAddr(e))
         /\ UsableBytes(e) \in Nat /\ UsableBytes(e) < Word
         /\ WholeLen(e) \in Nat /\ WholeLen(e) % FOUR_KB = 0
         /\ WholeLen(e) = FOUR_KB * (WholeLen(e) \div FOUR_KB)
         /\ WholeLen(e) <= UsableBytes(e)
         /\ FirstFrame(e) + WholeLen(e) <= RawAddr(e) + RawLen(e)
<1>1. RawAddr(e) \in Nat /\ RawAddr(e) > LowMemory /\ e.addr <= RawAddr(e)
  BY Sizes DEF RawAddr, HoldsKernel
<1>2. RawAddr(e) + FOUR_KB <= Word  BY Sizes DEF RawAddr
<1>3. PICK r : r = RawAddr(e)  OBVIOUS
<1>4. PICK f : f = FirstFrame(e)  OBVIOUS
<1>5. f = align_up(r, FOUR_KB)
  BY <1>3, <1>4 DEF FirstFrame, RawAddr
<1>6. r \in Nat /\ r + FOUR_KB <= Word  BY <1>1, <1>2, <1>3
<1>7. f \in Nat /\ f % FOUR_KB = 0 /\ r <= f
  BY <1>5, <1>6, AlignUp
<1>8. PICK l : l = RawLen(e)  OBVIOUS
<1>9. l \in Int  BY <1>8, Sizes DEF RawLen
<1>10. PICK u : u = UsableBytes(e)  OBVIOUS
<1>11. u = l - (f - r)
  BY <1>3, <1>4, <1>7, <1>8, <1>10, Sizes DEF UsableBytes, RawLen, RawAddr
<1>12. u \in Nat /\ l \in Nat  BY <1>11, <1>10, <1>9, <1>7, <1>6
<1>13. r + l <= e.addr + e.len
  BY <1>3, <1>8, Sizes DEF RawAddr, RawLen
<1>14. PICK w : w = align_down(u, FOUR_KB)  OBVIOUS
<1>15. w \in Nat /\ w % FOUR_KB = 0 /\ w <= u /\ w = FOUR_KB * (w \div FOUR_KB)
  BY <1>14, <1>12, AlignDown
<1>16. w = WholeLen(e)  BY <1>14, <1>10 DEF WholeLen
<1>17. f + w <= r + l /\ u < Word
  BY <1>15, <1>11, <1>12, <1>7, <1>6, <1>13, Sizes
<1>. QED
  BY <1>1, <1>3, <1>4, <1>5, <1>7, <1>8, <1>10, <1>11, <1>12, <1>13, <1>15, <1>16,
     <1>17

\* fill_memory_map copies the usable entries, as they are.
LEMMA CutFacts ==
  ASSUME NEW e, e.addr \in Nat, e.len \in Nat,
         e.addr + e.len < Word - FOUR_KB
  PROVE  /\ CutKernel(e.addr % Word, e.len % Word).addr > LowMemory
              <=> HoldsKernel(e) \/ e.addr > LowMemory
         /\ (HoldsKernel(e) \/ e.addr > LowMemory) /\ UsableBytes(e) >= 0
              => CutKernel(e.addr % Word, e.len % Word) = Raw(e)
<1>1. PICK a : a = e.addr  OBVIOUS
<1>2. PICK l : l = e.len  OBVIOUS
<1>3. a \in Nat /\ l \in Nat /\ a + l < Word  BY <1>1, <1>2, Sizes
<1>4. a % Word = a /\ l % Word = l /\ (a + l) % Word = a + l
  BY <1>3, SmallWord, Sizes
<1>5. HoldsKernel(e) <=> (a <= kernel_physical_start
                            /\ (a + l) % Word > kernel_physical_end)
  BY <1>1, <1>2, <1>3, <1>4, Sizes DEF HoldsKernel, Ends
<1>6. CASE HoldsKernel(e)
  <2>1. CutKernel(a, l) = [addr |-> kernel_physical_end,
                           len |-> (l - kernel_physical_end) % Word]
    BY <1>5, <1>6 DEF CutKernel
  <2>2. ASSUME UsableBytes(e) >= 0
        PROVE  (l - kernel_physical_end) % Word = RawLen(e)
    <3>1. RawLen(e) \in Nat /\ RawLen(e) <= l
      BY <2>2, <1>6, <1>2, EntryFacts, Sizes DEF RawLen
    <3>2. RawLen(e) = l - kernel_physical_end  BY <1>6, <1>2 DEF RawLen
    <3>. QED  BY <3>1, <3>2, <1>3, SmallWord, Sizes
  <2>3. RawAddr(e) = kernel_physical_end  BY <1>6 DEF RawAddr
  <2>. QED  BY <2>1, <2>2, <2>3, <1>1, <1>2, <1>4, <1>6, Sizes DEF Raw
<1>7. CASE ~ HoldsKernel(e)
  <2>1. CutKernel(a, l) = [addr |-> a, len |-> l]
    BY <1>5, <1>7 DEF CutKernel
  <2>2. RawAddr(e) = a /\ RawLen(e) = l  BY <1>7, <1>1, <1>2 DEF RawAddr, RawLen
  <2>. QED  BY <2>1, <2>2, <1>1, <1>2, <1>4, <1>7 DEF Raw
<1>. QED  BY <1>6, <1>7

\* The facts about all usable entries of a regular table.
LEMMA UsableFacts ==
  ASSUME Types, Regular, NEW n \in UsableEntries
  PROVE  /\ n \in AvailableEntries /\ n \in DOMAIN table
         /\ table[n].addr \in Nat /\ table[n].len \in Nat
         /\ table[n].addr + table[n].len < Word - FOUR_KB
         /\ HoldsKernel(table[n]) \/ table[n].addr > LowMemory
         /\ UsableBytes(table[n]) >= 0
<1>1. n \in AvailableEntries /\ n \in DOMAIN table
        /\ (HoldsKernel(table[n]) \/ table[n].addr > LowMemory)
  BY DEF UsableEntries, AvailableEntries
<1>. QED  BY <1>1, TableFacts DEF Regular, Ends

\* No part of an entry that is used belongs to the kernel.
LEMMA KernelApart ==
  ASSUME Types, Regular, NEW n \in UsableEntries
  PROVE  \/ RawAddr(table[n]) >= kernel_physical_end
         \/ table[n].addr + table[n].len <= kernel_physical_start
<1>1. PICK h \in AvailableEntries : HoldsKernel(table[h])  BY DEF Regular
<1>2. h \in DOMAIN table /\ n \in DOMAIN table
  BY <1>1, UsableFacts DEF AvailableEntries
<1>3. table[h].addr <= kernel_physical_start
        /\ kernel_physical_end < table[h].addr + table[h].len
  BY <1>1 DEF HoldsKernel, Ends
<1>4. h \in Nat /\ n \in Nat
        /\ table[h].addr \in Nat /\ table[h].len \in Nat
        /\ table[n].addr \in Nat /\ table[n].len \in Nat
  BY <1>2, TableFacts
<1>5. CASE n < h
  <2>1. table[n].addr + table[n].len <= table[h].addr  BY <1>5, <1>2, TableFacts
  <2>. QED  BY <2>1, <1>3, <1>4, Sizes
<1>6. CASE n > h
  <2>1. table[h].addr + table[h].len <= table[n].addr  BY <1>6, <1>2, TableFacts
  <2>. QED  BY <2>1, <1>3, <1>4, Sizes DEF RawAddr
<1>7. CASE n = h  BY <1>7, <1>1, Sizes DEF RawAddr
<1>. QED  BY <1>4, <1>5, <1>6, <1>7

\* No step changes the table and what is defined from it.
LEMMA TableSame ==
  ASSUME Next \/ UNCHANGED vars
  PROVE  /\ table' = table
         /\ AvailableEntries' = AvailableEntries /\ UsableEntries' = UsableEntries
         /\ AllFrames' = AllFrames /\ AvailableBytes' = AvailableBytes
         /\ Regular' = Regular
         /\ RoomForBitmap' = RoomForBitmap
<1>1. table' = table
  BY DEF Next, vars, fill_entry, fill_done, align_entry, align_done, count_entry,
         count_done, place_bitmap, place_fails, map_bitmap,
         allocate_without_bitmap
<1>2. AvailableEntries' = AvailableEntries  BY <1>1 DEF AvailableEntries
<1>3. UsableEntries' = UsableEntries  BY <1>1, <1>2 DEF UsableEntries
<1>4. AllFrames' = AllFrames  BY <1>1, <1>3 DEF AllFrames
<1>5. AvailableBytes' = AvailableBytes  BY <1>1, <1>2 DEF AvailableBytes
<1>6. Regular' = Regular  BY <1>1, <1>2, <1>3 DEF Regular
<1>7. RoomForBitmap' = RoomForBitmap  BY <1>1, <1>3, <1>4 DEF RoomForBitmap
<1>. QED  BY <1>1, <1>2, <1>3, <1>4, <1>5, <1>6, <1>7

\* Entries that have been copied are finitely many.
LEMMA EntriesFinite ==
  ASSUME Types, NEW S \in SUBSET AvailableEntries
  PROVE  IsFiniteSet(S) /\ Cardinality(S) \in Nat
           /\ IsFiniteSet(AvailableEntries)
           /\ Cardinality(S) <= Cardinality(AvailableEntries)
<1>1. IsFiniteSet(1 .. Len(table))
  <2>1. 1 \in Int /\ Len(table) \in Int  BY TableFacts
  <2>. QED  BY <2>1, FS_Interval
<1>2. AvailableEntries \in SUBSET (1 .. Len(table))
  BY TableFacts DEF AvailableEntries
<1>3. IsFiniteSet(AvailableEntries)  BY <1>1, <1>2, FS_Subset
<1>4. IsFiniteSet(S) /\ Cardinality(S) <= Cardinality(AvailableEntries)
  BY <1>3, FS_Subset
<1>. QED  BY <1>3, <1>4, FS_CardinalityType

\* An element of mmap[] lies in its entry.
LEMMA HoldsFacts ==
  ASSUME Types, Regular, NEW k \in DOMAIN mmap, NEW n \in UsableEntries, Holds(k, n)
  PROVE  /\ RawAddr(table[n]) <= mmap[k].addr
         /\ mmap[k].addr + mmap[k].len <= RawAddr(table[n]) + RawLen(table[n])
         /\ mmap[k].addr + mmap[k].len <= table[n].addr + table[n].len
         /\ mmap[k].addr > 0
         /\ ~ IsRaw(k) => /\ mmap[k].addr = FirstFrame(table[n])
                          /\ mmap[k].len = WholeLen(table[n])
<1>1. PICK e : e = table[n]  OBVIOUS
<1>2. /\ e.addr \in Nat /\ e.len \in Nat /\ e.addr + e.len < Word - FOUR_KB
      /\ HoldsKernel(e) \/ e.addr > LowMemory
      /\ UsableBytes(e) >= 0
  BY <1>1, UsableFacts
<1>3. CASE IsRaw(k)
  <2>1. mmap[k].addr = RawAddr(e) /\ mmap[k].len = RawLen(e)
    BY <1>1, <1>3 DEF Holds, Raw
  <2>. QED  BY <2>1, <1>2, <1>1, <1>3, EntryFacts, Sizes
<1>4. CASE ~ IsRaw(k)
  <2>1. mmap[k].addr = FirstFrame(e) /\ mmap[k].len = WholeLen(e)
    BY <1>1, <1>4 DEF Holds, Whole
  <2>2. /\ RawAddr(e) \in Nat /\ RawLen(e) \in Nat /\ RawAddr(e) > LowMemory
        /\ FirstFrame(e) \in Nat /\ WholeLen(e) \in Nat
        /\ RawAddr(e) <= FirstFrame(e)
        /\ FirstFrame(e) + WholeLen(e) <= RawAddr(e) + RawLen(e)
        /\ RawAddr(e) + RawLen(e) <= e.addr + e.len
    BY <1>2, EntryFacts
  <2>. QED  BY <2>1, <2>2, <1>2, <1>1, <1>4, Sizes
<1>. QED  BY <1>3, <1>4

\* fill_memory_map appends the next usable entry and passes over the others.
LEMMA FillStep ==
  ASSUME Inv, Regular, fill_entry
  PROVE  /\ i \in UsableEntries => \/ pc' = "overrun" /\ Len(mmap) = MAX_NUM_MEMORY_MAP
                                   \/ pc' = "fill" /\ mmap' = Append(mmap, Raw(table[i]))
         /\ i \notin UsableEntries => pc' = "fill" /\ mmap' = mmap
<1>1. Types /\ i \in DOMAIN table /\ pc = "fill"
  BY TableFacts DEF Inv, fill_entry, Types
<1>2. PICK e : e = table[i]  OBVIOUS
<1>3. PICK area : area = CutKernel(e.addr % Word, e.len % Word)  OBVIOUS
<1>4. e.addr \in Nat /\ e.len \in Nat  BY <1>1, <1>2, TableFacts
<1>5. i \in AvailableEntries => e.addr + e.len < Word - FOUR_KB
  BY <1>2 DEF Regular, Ends
<1>6. i \in UsableEntries <=> e.type = Available /\ area.addr > LowMemory
  BY <1>1, <1>2, <1>3, <1>4, <1>5, CutFacts DEF UsableEntries, AvailableEntries
<1>7. i \in UsableEntries => area = Raw(e)
  BY <1>1, <1>2, <1>3, <1>4, <1>5, CutFacts, UsableFacts
<1>8. CASE i \in UsableEntries
  <2>1. e.type = Available /\ area.addr > LowMemory  BY <1>6, <1>8
  <2>. QED  BY <2>1, <1>7, <1>8, <1>1, <1>2, <1>3 DEF fill_entry
<1>9. CASE i \notin UsableEntries
  <2>1. ~ (e.type = Available /\ area.addr > LowMemory)  BY <1>6, <1>9
  <2>. QED  BY <2>1, <1>9, <1>1, <1>2, <1>3 DEF fill_entry
<1>. QED  BY <1>8, <1>9

\* The loop of fill_memory_map keeps the invariant; when mmap[] overflows,
\* more than MAX_NUM_MEMORY_MAP entries are available.
LEMMA FillInv ==
  ASSUME Inv, Regular, fill_entry
  PROVE  RegularInv' /\ BitmapBeforeUse'
<1>1. /\ Types /\ Mirror /\ Counted /\ pc = "fill" /\ i \in DOMAIN table
      /\ i' = i + 1 /\ i \in Nat /\ total_pfs' = total_pfs
  BY TableFacts DEF Inv, RegularInv, fill_entry, Types
<1>2. table' = table /\ UsableEntries' = UsableEntries
        /\ AvailableEntries' = AvailableEntries
  BY TableSame DEF Next
<1>3. \A n \in UsableEntries : n \in Nat
  BY <1>1, TableFacts DEF UsableEntries, AvailableEntries
<1>4. Copied = {n \in UsableEntries : n < i}  BY <1>1 DEF Copied
<1>5. Copied \in SUBSET AvailableEntries  BY <1>4 DEF UsableEntries
<1>6. CASE i \notin UsableEntries
  <2>1. pc' = "fill" /\ mmap' = mmap  BY <1>6, FillStep
  <2>2. Copied' = Copied
    BY <2>1, <1>1, <1>2, <1>3, <1>4, <1>6 DEF Copied
  <2>3. \A k, n : Holds(k, n)' <=> Holds(k, n)
    BY <2>1, <1>1, <1>2 DEF Holds, IsRaw
  <2>4. Mirror'  BY <2>1, <2>2, <2>3, <1>1 DEF Mirror
  <2>5. Counted'  BY <2>1, <2>2, <1>1 DEF Counted
  <2>. QED
    BY <2>1, <2>4, <2>5 DEF RegularInv, TooSmall, Usable, BitmapBeforeUse
<1>7. CASE i \in UsableEntries /\ pc' = "overrun"
  <2>1. Len(mmap) = MAX_NUM_MEMORY_MAP  BY <1>7, FillStep
  <2>2. i \notin Copied  BY <1>4, <1>1
  <2>3. Copied \cup {i} \in SUBSET AvailableEntries
    BY <1>5, <1>7 DEF UsableEntries
  <2>4. Cardinality(Copied \cup {i}) = Cardinality(Copied) + 1
    BY <2>2, <1>1, <1>5, EntriesFinite, FS_AddElement
  <2>5. Cardinality(Copied) = MAX_NUM_MEMORY_MAP  BY <2>1, <1>1 DEF Counted
  <2>6. Cardinality(Copied \cup {i}) <= Cardinality(AvailableEntries)
    BY <2>3, <1>1, EntriesFinite
  <2>7. Cardinality(AvailableEntries) \in Nat  BY <1>1, EntriesFinite
  <2>8. ~ (Cardinality(AvailableEntries) <= MAX_NUM_MEMORY_MAP)
    BY <2>4, <2>5, <2>6, <2>7, Sizes
  <2>9. BitmapBeforeUse'  BY <2>8, <1>2 DEF BitmapBeforeUse
  <2>. QED
    BY <2>9, <1>7 DEF RegularInv, Mirror, Counted, TooSmall, Usable
<1>8. CASE i \in UsableEntries /\ pc' # "overrun"
  <2>1. pc' = "fill" /\ mmap' = Append(mmap, Raw(table[i]))  BY <1>8, FillStep
  <2>2. Copied' = Copied \cup {i}
    BY <2>1, <1>1, <1>2, <1>3, <1>4, <1>8 DEF Copied
  <2>3. PICK m : m = Len(mmap)  OBVIOUS
  <2>4. m \in Nat /\ DOMAIN mmap = 1 .. m  BY <2>3, <1>1, MmapFacts
  <2>5. /\ DOMAIN mmap' = 1 .. (m + 1) /\ Len(mmap') = m + 1
        /\ mmap'[m + 1] = Raw(table[i])
        /\ \A k \in DOMAIN mmap : mmap'[k] = mmap[k]
    BY <2>1, <2>3, <1>1 DEF Types
  <2>6. \A k \in DOMAIN mmap : \A n : Holds(k, n)' <=> Holds(k, n)
    BY <2>1, <2>5, <1>1, <1>2 DEF Holds, IsRaw
  <2>c. PICK c : c = i  OBVIOUS
  <2>7. Holds(m + 1, c)'
    BY <2>1, <2>5, <2>c, <1>2 DEF Holds, IsRaw
  <2>8. ASSUME NEW k \in DOMAIN mmap' PROVE \E n \in Copied' : Holds(k, n)'
    <3>1. CASE k = m + 1  BY <3>1, <2>7, <2>2, <2>c
    <3>2. CASE k \in DOMAIN mmap  BY <3>2, <2>6, <2>2, <1>1 DEF Mirror
    <3>. QED  BY <3>1, <3>2, <2>4, <2>5
  <2>9. ASSUME NEW n \in Copied' PROVE \E k \in DOMAIN mmap' : Holds(k, n)'
    <3>1. CASE n = c  BY <3>1, <2>7, <2>4, <2>5
    <3>2. CASE n \in Copied
      <4>1. PICK k \in DOMAIN mmap : Holds(k, n)  BY <3>2, <1>1 DEF Mirror
      <4>2. k \in DOMAIN mmap'  BY <4>1, <2>4, <2>5
      <4>. QED  BY <4>1, <4>2, <2>6
    <3>. QED  BY <3>1, <3>2, <2>2, <2>c
  <2>10. ASSUME NEW j \in DOMAIN mmap
         PROVE  mmap[j].addr + mmap[j].len <= RawAddr(table[i])
    <3>1. PICK n \in Copied : Holds(j, n)  BY <1>1 DEF Mirror
    <3>2. n \in UsableEntries /\ n < i  BY <3>1, <1>4
    <3>3. mmap[j].addr + mmap[j].len <= table[n].addr + table[n].len
      BY <3>1, <3>2, <1>1, HoldsFacts
    <3>4. n \in DOMAIN table  BY <3>2, <1>1, UsableFacts
    <3>5. table[n].addr + table[n].len <= table[i].addr
      BY <3>2, <3>4, <1>1, TableFacts
    <3>6. table[i].addr <= RawAddr(table[i]) /\ RawAddr(table[i]) \in Nat
      BY <1>8, <1>1, UsableFacts, EntryFacts
    <3>7. mmap[j].addr \in Nat /\ mmap[j].len \in Nat  BY <1>1, MmapFacts
    <3>8. /\ table[n].addr \in Nat /\ table[n].len \in Nat /\ table[i].addr \in Nat
      BY <3>4, <1>1, TableFacts
    <3>. QED  BY <3>3, <3>5, <3>6, <3>7, <3>8
  <2>11. ASSUME NEW j \in DOMAIN mmap', NEW k \in DOMAIN mmap', j < k
         PROVE  mmap'[j].addr + mmap'[j].len <= mmap'[k].addr
    <3>1. j \in DOMAIN mmap  BY <2>11, <2>4, <2>5
    <3>2. CASE k = m + 1
      BY <3>1, <3>2, <2>5, <2>10 DEF Raw
    <3>3. CASE k \in DOMAIN mmap
      BY <2>11, <3>1, <3>3, <2>5, <1>1 DEF Mirror
    <3>. QED  BY <3>2, <3>3, <2>4, <2>5
  <2>12. Mirror'  BY <2>8, <2>9, <2>11 DEF Mirror
  <2>13. Counted'
    <3>1. i \notin Copied  BY <1>4, <1>1
    <3>2. Cardinality(Copied \cup {i}) = Cardinality(Copied) + 1
      BY <3>1, <1>1, <1>5, EntriesFinite, FS_AddElement
    <3>3. Cardinality(Copied) = m  BY <2>3, <1>1 DEF Counted
    <3>. QED  BY <3>2, <3>3, <2>1, <2>2, <2>5, <1>1 DEF Counted
  <2>. QED
    BY <2>1, <2>12, <2>13 DEF RegularInv, TooSmall, Usable, BitmapBeforeUse
<1>. QED  BY <1>6, <1>7, <1>8

\* At the end of the table every usable entry has been copied.
LEMMA FillDoneInv ==
  ASSUME Inv, Regular, fill_done
  PROVE  RegularInv' /\ BitmapBeforeUse'
<1>1. /\ Types /\ Mirror /\ Counted /\ pc = "fill" /\ i > Len(table)
      /\ pc' = "align" /\ i' = 1 /\ i \in Nat
      /\ mmap' = mmap /\ total_pfs' = total_pfs
  BY DEF Inv, RegularInv, fill_done, Types
<1>2. table' = table /\ UsableEntries' = UsableEntries
  BY TableSame DEF Next
<1>3. Copied = UsableEntries /\ Copied' = UsableEntries
  <2>1. \A n \in UsableEntries : n < i
    BY <1>1, TableFacts DEF UsableEntries, AvailableEntries
  <2>. QED  BY <2>1, <1>1, <1>2 DEF Copied
<1>4. \A k \in DOMAIN mmap : \A n : Holds(k, n)' <=> Holds(k, n)
  <2>1. \A k \in DOMAIN mmap : k >= 1  BY <1>1, MmapFacts
  <2>. QED  BY <2>1, <1>1, <1>2 DEF Holds, IsRaw
<1>5. Mirror'  BY <1>1, <1>3, <1>4 DEF Mirror
<1>6. Counted'  BY <1>1 DEF Counted
<1>. QED
  BY <1>1, <1>5, <1>6 DEF RegularInv, TooSmall, Usable, BitmapBeforeUse

\* The loop of frames_init turns the copy of an entry into its whole frames.
LEMMA AlignStep ==
  ASSUME Inv, Regular, align_entry, NEW n \in UsableEntries, Holds(i, n)
  PROVE  mmap' = [mmap EXCEPT ![i] = Whole(table[n])]
<1>1. Types /\ pc = "align" /\ i \in DOMAIN mmap /\ IsRaw(i)
  BY MmapFacts DEF Inv, align_entry, Types, IsRaw
<1>2. PICK e : e = table[n]  OBVIOUS
<1>3. /\ e.addr \in Nat /\ e.len \in Nat /\ e.addr + e.len < Word - FOUR_KB
      /\ HoldsKernel(e) \/ e.addr > LowMemory
      /\ UsableBytes(e) >= 0
  BY <1>1, <1>2, UsableFacts
<1>4. mmap[i].addr = RawAddr(e) /\ mmap[i].len = RawLen(e)
  BY <1>1, <1>2 DEF Holds, Raw
<1>5. align_up(mmap[i].addr, FOUR_KB) = FirstFrame(e)  BY <1>3, <1>4, EntryFacts
<1>6. mmap[i].len - (FirstFrame(e) - mmap[i].addr) = UsableBytes(e)
  BY <1>3, <1>4, EntryFacts
<1>7. UsableBytes(e) % Word = UsableBytes(e)  BY <1>3, EntryFacts, SmallWord
<1>. QED
  BY <1>2, <1>5, <1>6, <1>7 DEF align_entry, Whole, WholeLen

\* Aligning an element keeps it in its place among the others.
LEMMA AlignInv ==
  ASSUME Inv, Regular, align_entry
  PROVE  RegularInv' /\ BitmapBeforeUse'
<1>1. /\ Types /\ Mirror /\ Counted /\ pc = "align" /\ i \in DOMAIN mmap
      /\ pc' = "align" /\ i' = i + 1 /\ i \in Nat /\ total_pfs' = total_pfs
  BY MmapFacts DEF Inv, RegularInv, align_entry, Types
<1>2. table' = table /\ UsableEntries' = UsableEntries
  BY TableSame DEF Next
<1>3. Copied = UsableEntries /\ Copied' = UsableEntries
  BY <1>1, <1>2 DEF Copied
<1>4. PICK c : c = i  OBVIOUS
<1>5. ASSUME NEW n \in Copied, Holds(c, n)
      PROVE  /\ mmap' = [mmap EXCEPT ![c] = Whole(table[n])]
             /\ Holds(c, n)'
             /\ mmap[c].addr <= mmap'[c].addr
             /\ mmap'[c].addr + mmap'[c].len <= mmap[c].addr + mmap[c].len
             /\ mmap'[c].addr \in Nat /\ mmap'[c].len \in Nat
  <2>1. mmap' = [mmap EXCEPT ![c] = Whole(table[n])]
    BY <1>3, <1>4, <1>5, AlignStep
  <2>2. mmap'[c] = Whole(table[n])  BY <2>1, <1>1, <1>4
  <2>3. Holds(c, n)'
    BY <2>2, <1>1, <1>2, <1>4 DEF Holds, IsRaw
  <2>4. mmap[c] = Raw(table[n])  BY <1>1, <1>4, <1>5 DEF Holds, IsRaw
  <2>5. /\ RawAddr(table[n]) <= FirstFrame(table[n])
        /\ FirstFrame(table[n]) + WholeLen(table[n])
             <= RawAddr(table[n]) + RawLen(table[n])
        /\ FirstFrame(table[n]) \in Nat /\ WholeLen(table[n]) \in Nat
    BY <1>1, <1>3, UsableFacts, EntryFacts
  <2>. QED  BY <2>1, <2>2, <2>3, <2>4, <2>5 DEF Raw, Whole
<1>6. PICK s \in Copied : Holds(c, s)  BY <1>1, <1>4 DEF Mirror
<1>7. DOMAIN mmap' = DOMAIN mmap /\ \A k \in DOMAIN mmap : k # c => mmap'[k] = mmap[k]
  BY <1>5, <1>6
<1>8. \A k \in DOMAIN mmap : k \in Nat /\ mmap[k].addr \in Nat /\ mmap[k].len \in Nat
  BY <1>1, MmapFacts
<1>9. \A k \in DOMAIN mmap : \A n : k # c => (Holds(k, n)' <=> Holds(k, n))
  BY <1>1, <1>2, <1>4, <1>7, <1>8 DEF Holds, IsRaw
<1>10. \A k \in DOMAIN mmap' : \E n \in Copied' : Holds(k, n)'
  BY <1>1, <1>3, <1>5, <1>6, <1>7, <1>9 DEF Mirror
<1>11. ASSUME NEW n \in Copied PROVE \E k \in DOMAIN mmap' : Holds(k, n)'
  <2>1. PICK k \in DOMAIN mmap : Holds(k, n)  BY <1>1 DEF Mirror
  <2>. QED  BY <2>1, <1>5, <1>7, <1>9
<1>12. \A k \in DOMAIN mmap :
         /\ mmap[k].addr <= mmap'[k].addr
         /\ mmap'[k].addr + mmap'[k].len <= mmap[k].addr + mmap[k].len
         /\ mmap'[k].addr \in Nat /\ mmap'[k].len \in Nat
  BY <1>5, <1>6, <1>7, <1>8
<1>13. ASSUME NEW j \in DOMAIN mmap, NEW k \in DOMAIN mmap, j < k
       PROVE  mmap'[j].addr + mmap'[j].len <= mmap'[k].addr
  <2>1. mmap[j].addr + mmap[j].len <= mmap[k].addr  BY <1>13, <1>1 DEF Mirror
  <2>. QED  BY <2>1, <1>8, <1>12
<1>14. Mirror'  BY <1>3, <1>7, <1>10, <1>11, <1>13 DEF Mirror
<1>15. Counted'  BY <1>1 DEF Counted
<1>. QED
  BY <1>1, <1>14, <1>15 DEF RegularInv, TooSmall, Usable, BitmapBeforeUse

\* The end of the loop: nothing is counted yet.
LEMMA AlignDoneInv ==
  ASSUME Inv, Regular, align_done
  PROVE  RegularInv' /\ BitmapBeforeUse'
<1>1. /\ Types /\ Mirror /\ Counted /\ pc = "align" /\ i > Len(mmap)
      /\ pc' = "count" /\ i' = 1 /\ i \in Nat
      /\ mmap' = mmap /\ total_pfs' = total_pfs
  BY DEF Inv, RegularInv, align_done, Types
<1>2. table' = table /\ UsableEntries' = UsableEntries
  BY TableSame DEF Next
<1>3. Copied' = Copied  BY <1>1, <1>2 DEF Copied
<1>4. \A k \in DOMAIN mmap : \A n : Holds(k, n)' <=> Holds(k, n)
  <2>1. \A k \in DOMAIN mmap : ~ (k >= i)  BY <1>1, MmapFacts
  <2>. QED  BY <2>1, <1>1, <1>2 DEF Holds, IsRaw
<1>5. Mirror'  BY <1>1, <1>3, <1>4 DEF Mirror
<1>6. Counted'
  <2>1. BytesUpTo(0)' = {}  BY DEF BytesUpTo
  <2>2. BytesUpTo(i - 1)' = {}  BY <2>1, <1>1
  <2>3. Cardinality(BytesUpTo(i - 1)') = 0  BY <2>2, FS_EmptySet
  <2>4. total_pfs' = 0 /\ FOUR_KB * 0 = 0  BY <1>1, Sizes DEF Counted
  <2>5. i' <= Len(mmap') + 1  BY <1>1, MmapFacts
  <2>. QED  BY <2>3, <2>4, <2>5, <1>1 DEF Counted
<1>. QED
  BY <1>1, <1>5, <1>6 DEF RegularInv, TooSmall, Usable, BitmapBeforeUse

\* Once aligned, an element of mmap[] is the whole frames of an entry.
LEMMA AreaFacts ==
  ASSUME Types, Regular, Mirror, pc \in {"count", "place"}, NEW k \in DOMAIN mmap
  PROVE  /\ \E n \in UsableEntries :
              /\ Area(k) = WholeFrames(table[n])
              /\ table[n].addr \in Nat /\ table[n].len \in Nat
              /\ table[n].addr <= mmap[k].addr
              /\ mmap[k].addr + mmap[k].len <= table[n].addr + table[n].len
              /\ \/ mmap[k].addr >= kernel_physical_end
                 \/ mmap[k].addr + mmap[k].len <= kernel_physical_start
         /\ mmap[k].addr > 0
         /\ mmap[k].addr + mmap[k].len < Word - FOUR_KB
         /\ mmap[k].addr % FOUR_KB = 0 /\ mmap[k].len % FOUR_KB = 0
         /\ mmap[k].len \div FOUR_KB \in Nat
         /\ mmap[k].len = FOUR_KB * (mmap[k].len \div FOUR_KB)
         /\ Area(k) \in SUBSET (1 .. (Word - 1))
         /\ IsFiniteSet(Area(k)) /\ Cardinality(Area(k)) = mmap[k].len
<1>1. PICK n \in UsableEntries : Holds(k, n)  BY DEF Mirror, Copied
<1>2. PICK e : e = table[n]  OBVIOUS
<1>3. /\ e.addr \in Nat /\ e.len \in Nat /\ e.addr + e.len < Word - FOUR_KB
      /\ HoldsKernel(e) \/ e.addr > LowMemory
      /\ UsableBytes(e) >= 0
  BY <1>2, UsableFacts
<1>4. PICK a : a = mmap[k].addr  OBVIOUS
<1>5. PICK l : l = mmap[k].len  OBVIOUS
<1>6. a = FirstFrame(e) /\ l = WholeLen(e)
  BY <1>1, <1>2, <1>4, <1>5, HoldsFacts DEF IsRaw
<1>7. /\ a \in Nat /\ l \in Nat /\ a % FOUR_KB = 0 /\ l % FOUR_KB = 0
      /\ l = FOUR_KB * (l \div FOUR_KB)
      /\ RawAddr(e) \in Nat /\ RawAddr(e) <= a /\ a > 0
      /\ e.addr <= RawAddr(e) /\ a + l <= e.addr + e.len
  <2>1. /\ FirstFrame(e) \in Nat /\ WholeLen(e) \in Nat
        /\ FirstFrame(e) % FOUR_KB = 0 /\ WholeLen(e) % FOUR_KB = 0
        /\ WholeLen(e) = FOUR_KB * (WholeLen(e) \div FOUR_KB)
        /\ RawAddr(e) \in Nat /\ RawLen(e) \in Nat /\ RawAddr(e) <= FirstFrame(e)
        /\ RawAddr(e) > LowMemory /\ e.addr <= RawAddr(e)
        /\ FirstFrame(e) + WholeLen(e) <= RawAddr(e) + RawLen(e)
        /\ RawAddr(e) + RawLen(e) <= e.addr + e.len
    BY <1>3, EntryFacts
  <2>. QED  BY <2>1, <1>6, <1>3, Sizes
<1>8. a + l < Word - FOUR_KB  BY <1>7, <1>3, Sizes
<1>9. l \div FOUR_KB \in Nat
  <2>1. PICK d : d = l \div FOUR_KB  OBVIOUS
  <2>2. d \in Int /\ FOUR_KB * d = l  BY <2>1, <1>7, DivMod, Sizes
  <2>3. d < 0 => FOUR_KB * d < FOUR_KB * 0  BY <2>2, TimesMono, Sizes
  <2>4. FOUR_KB * 0 = 0  BY Sizes
  <2>. QED  BY <2>1, <2>2, <2>3, <2>4, <1>7
<1>10. Area(k) = a .. (a + l - 1)  BY <1>4, <1>5 DEF Area, Bytes
<1>11. Area(k) = WholeFrames(e)
  BY <1>10, <1>6 DEF WholeFrames, Bytes, WholeLen
<1>12. a \in Int /\ a + l - 1 \in Int  BY <1>7
<1>13. IsFiniteSet(Area(k)) /\ Cardinality(Area(k)) = l
  <2>1. IsFiniteSet(a .. (a + l - 1))
          /\ Cardinality(a .. (a + l - 1)) =
               IF a > a + l - 1 THEN 0 ELSE (a + l - 1) - a + 1
    BY <1>12, FS_Interval
  <2>2. (IF a > a + l - 1 THEN 0 ELSE (a + l - 1) - a + 1) = l  BY <1>7
  <2>. QED  BY <2>1, <2>2, <1>10
<1>14. Area(k) \in SUBSET (1 .. (Word - 1))  BY <1>10, <1>7, <1>8, Sizes
<1>15. RawAddr(e) >= kernel_physical_end \/ e.addr + e.len <= kernel_physical_start
  BY <1>2, KernelApart
<1>16. a >= kernel_physical_end \/ a + l <= kernel_physical_start
  BY <1>15, <1>7, <1>3, Sizes
<1>17. e.addr <= a  BY <1>7, <1>3
<1>. QED
  BY <1>2, <1>3, <1>4, <1>5, <1>7, <1>8, <1>9, <1>11, <1>13, <1>14, <1>16, <1>17

\* The bytes of some elements of mmap[] are finitely many.
LEMMA FramesFinite ==
  ASSUME Types, Regular, Mirror, pc \in {"count", "place"},
         NEW S \in SUBSET (DOMAIN mmap)
  PROVE  /\ UNION {Area(j) : j \in S} \in SUBSET (1 .. (Word - 1))
         /\ IsFiniteSet(UNION {Area(j) : j \in S})
         /\ Cardinality(UNION {Area(j) : j \in S}) \in Nat
         /\ Cardinality(UNION {Area(j) : j \in S}) < Word
<1>1. PICK U : U = UNION {Area(j) : j \in S}  OBVIOUS
<1>2. U \in SUBSET (1 .. (Word - 1))  BY <1>1, AreaFacts
<1>3. IsFiniteSet(1 .. (Word - 1)) /\ Cardinality(1 .. (Word - 1)) = Word - 1
  <2>1. 1 \in Int /\ Word - 1 \in Int  BY Sizes
  <2>2. IsFiniteSet(1 .. (Word - 1))
          /\ Cardinality(1 .. (Word - 1)) =
               IF 1 > Word - 1 THEN 0 ELSE (Word - 1) - 1 + 1
    BY <2>1, FS_Interval
  <2>. QED  BY <2>2, Sizes
<1>4. IsFiniteSet(U) /\ Cardinality(U) <= Word - 1  BY <1>2, <1>3, FS_Subset
<1>5. Cardinality(U) \in Nat  BY <1>4, FS_CardinalityType
<1>. QED  BY <1>1, <1>2, <1>4, <1>5, Sizes

\* The next element adds its frames, none of which was counted before.
LEMMA CountInv ==
  ASSUME Inv, Regular, count_entry
  PROVE  RegularInv' /\ BitmapBeforeUse'
<1>1. /\ Types /\ Mirror /\ Counted /\ pc = "count" /\ i \in DOMAIN mmap
      /\ pc' = "count" /\ i' = i + 1 /\ i \in Nat /\ i > 0 /\ mmap' = mmap
      /\ total_pfs' = (total_pfs + (mmap[i].len \div FOUR_KB)) % Word
      /\ total_pfs \in Nat
  BY MmapFacts DEF Inv, RegularInv, count_entry, Types
<1>2. table' = table /\ UsableEntries' = UsableEntries
  BY TableSame DEF Next
<1>3. Mirror'
  <2>1. Copied' = Copied  BY <1>1, <1>2 DEF Copied
  <2>2. \A k, n : Holds(k, n)' <=> Holds(k, n)
    BY <1>1, <1>2 DEF Holds, IsRaw
  <2>. QED  BY <1>1, <2>1, <2>2 DEF Mirror
<1>4. PICK U : U = BytesUpTo(i - 1)  OBVIOUS
<1>5. PICK A : A = Area(i)  OBVIOUS
<1>6. Len(mmap) \in Nat /\ DOMAIN mmap = 1 .. Len(mmap) /\ i <= Len(mmap)
  BY <1>1, MmapFacts
<1>7. IsFiniteSet(U) /\ Cardinality(U) \in Nat
  <2>1. 1 .. (i - 1) \in SUBSET (DOMAIN mmap)  BY <1>6, <1>1
  <2>. QED  BY <2>1, <1>1, <1>4, FramesFinite DEF BytesUpTo
<1>8. IsFiniteSet(A) /\ Cardinality(A) = mmap[i].len  BY <1>5, <1>1, AreaFacts
<1>9. BytesUpTo(i) = U \cup A
  <2>1. 1 .. i = (1 .. (i - 1)) \cup {i}  BY <1>1
  <2>. QED  BY <2>1, <1>4, <1>5 DEF BytesUpTo
<1>10. U \cap A = {}
  <2>1. SUFFICES ASSUME NEW x \in U, x \in A PROVE FALSE  OBVIOUS
  <2>2. PICK j \in 1 .. (i - 1) : x \in Area(j)  BY <2>1, <1>4 DEF BytesUpTo
  <2>3. j \in DOMAIN mmap /\ j < i  BY <2>2, <1>1, <1>6
  <2>4. mmap[j].addr + mmap[j].len <= mmap[i].addr
    BY <2>3, <1>1 DEF Mirror
  <2>5. mmap[j].addr \in Nat /\ mmap[j].len \in Nat /\ mmap[i].addr \in Nat
          /\ mmap[i].len \in Nat
    BY <2>3, <1>1, MmapFacts
  <2>6. x \in mmap[j].addr .. (mmap[j].addr + mmap[j].len - 1)
    BY <2>2 DEF Area, Bytes
  <2>7. x \in mmap[i].addr .. (mmap[i].addr + mmap[i].len - 1)
    BY <2>1, <1>5 DEF Area, Bytes
  <2>. QED  BY <2>4, <2>5, <2>6, <2>7
<1>11. Cardinality(U \cup A) = Cardinality(U) + mmap[i].len
  <2>1. Cardinality(U \cup A) =
          Cardinality(U) + Cardinality(A) - Cardinality(U \cap A)
    BY <1>7, <1>8, FS_Union
  <2>2. Cardinality(U \cap A) = 0  BY <1>10, FS_EmptySet
  <2>3. mmap[i].len \in Nat  BY <1>1, MmapFacts
  <2>. QED  BY <2>1, <2>2, <2>3, <1>7, <1>8
<1>12. Cardinality(U \cup A) < Word
  <2>1. 1 .. i \in SUBSET (DOMAIN mmap)  BY <1>6, <1>1
  <2>. QED  BY <2>1, <1>1, <1>9, FramesFinite DEF BytesUpTo
<1>13. PICK d : d = mmap[i].len \div FOUR_KB  OBVIOUS
<1>14. d \in Nat /\ mmap[i].len = FOUR_KB * d  BY <1>13, <1>1, AreaFacts
<1>15. FOUR_KB * total_pfs = Cardinality(U)  BY <1>1, <1>4 DEF Counted
<1>16. PICK t : t = total_pfs + d  OBVIOUS
<1>17. t \in Nat /\ FOUR_KB * t = Cardinality(U \cup A)
  <2>1. t \in Nat  BY <1>16, <1>14, <1>1
  <2>2. FOUR_KB * t = FOUR_KB * total_pfs + FOUR_KB * d
    BY <1>16, <1>14, <1>1, Sizes
  <2>. QED  BY <2>1, <2>2, <1>15, <1>14, <1>11
<1>18. t < Word
  <2>1. FOUR_KB * t >= t  BY <1>17, Sizes
  <2>2. FOUR_KB * t < Word /\ FOUR_KB * t \in Int  BY <1>12, <1>17, Sizes
  <2>. QED  BY <2>1, <2>2, <1>17, Sizes
<1>19. total_pfs' = t
  <2>1. total_pfs' = t % Word  BY <1>1, <1>13, <1>16
  <2>. QED  BY <2>1, <1>17, <1>18, SmallWord
<1>20. Counted'
  <2>1. BytesUpTo(i - 1)' = BytesUpTo(i)
    <3>1. i' - 1 = i  BY <1>1
    <3>. QED  BY <3>1, <1>1 DEF BytesUpTo, Area
  <2>2. i' <= Len(mmap') + 1  BY <1>1, <1>6
  <2>. QED  BY <2>1, <2>2, <1>1, <1>9, <1>17, <1>19 DEF Counted
<1>. QED
  BY <1>1, <1>3, <1>20 DEF RegularInv, TooSmall, Usable, BitmapBeforeUse

\* All frames have been counted.
LEMMA CountDoneInv ==
  ASSUME Inv, Regular, count_done
  PROVE  RegularInv' /\ BitmapBeforeUse'
<1>1. /\ Types /\ Mirror /\ Counted /\ pc = "count" /\ i > Len(mmap)
      /\ pc' = "place" /\ i' = 1 /\ i \in Nat
      /\ mmap' = mmap /\ total_pfs' = total_pfs /\ total_pfs \in Nat
  BY DEF Inv, RegularInv, count_done, Types
<1>2. table' = table /\ UsableEntries' = UsableEntries /\ AllFrames' = AllFrames
  BY TableSame DEF Next
<1>3. Copied' = Copied /\ Copied = UsableEntries  BY <1>1, <1>2 DEF Copied
<1>4. \A k, n : Holds(k, n)' <=> Holds(k, n)
  BY <1>1, <1>2 DEF Holds, IsRaw
<1>5. Mirror'  BY <1>1, <1>3, <1>4 DEF Mirror
<1>6. Len(mmap) \in Nat /\ DOMAIN mmap = 1 .. Len(mmap) /\ i - 1 = Len(mmap)
  BY <1>1, MmapFacts DEF Counted
<1>7. FOUR_KB * total_pfs = Cardinality(BytesUpTo(Len(mmap)))
  BY <1>1, <1>6 DEF Counted
<1>8. BytesUpTo(Len(mmap)) = UNION {WholeFrames(table[n]) : n \in UsableEntries}
  <2>1. ASSUME NEW k \in DOMAIN mmap
        PROVE  \E n \in UsableEntries : Area(k) = WholeFrames(table[n])
    BY <1>1, AreaFacts
  <2>2. ASSUME NEW n \in UsableEntries
        PROVE  \E k \in DOMAIN mmap : Area(k) = WholeFrames(table[n])
    <3>1. PICK k \in DOMAIN mmap : Holds(k, n)  BY <1>1, <1>3 DEF Mirror
    <3>2. mmap[k].addr = FirstFrame(table[n]) /\ mmap[k].len = WholeLen(table[n])
      BY <3>1, <1>1, HoldsFacts DEF IsRaw
    <3>. QED  BY <3>1, <3>2 DEF Area, WholeFrames, WholeLen
  <2>. QED  BY <2>1, <2>2, <1>6 DEF BytesUpTo
<1>9. AllFrames = (FOUR_KB * total_pfs) \div FOUR_KB
  BY <1>7, <1>8 DEF AllFrames
<1>10. AllFrames = total_pfs  BY <1>9, <1>1, Multiple, Sizes
<1>11. BytesUpTo(Len(mmap))' = BytesUpTo(Len(mmap))
  BY <1>1 DEF BytesUpTo, Area
<1>12. Counted'  BY <1>1, <1>2, <1>7, <1>10, <1>11 DEF Counted
<1>13. TooSmall'
  <2>1. \A k \in DOMAIN mmap : ~ (k < 1)  BY <1>1, MmapFacts
  <2>. QED  BY <2>1, <1>1 DEF TooSmall
<1>. QED
  BY <1>1, <1>5, <1>12, <1>13 DEF RegularInv, Usable, BitmapBeforeUse

\* The bytes of the bitmap do not wrap around.
LEMMA BitmapBytesFacts ==
  ASSUME Types, Sized, pc \in {"place", "map", "ready"}
  PROVE  /\ bitmap_pfs \in Nat /\ bitmap_pfs > 0
         /\ BitmapBytes = FOUR_KB * bitmap_pfs
         /\ BitmapBytes \in Nat /\ BitmapBytes > 0
         /\ bitmap_pfs * FOUR_KB = FOUR_KB * bitmap_pfs
<1>1. PICK b : b = bitmap_pfs  OBVIOUS
<1>2. b = BitmapFrames(total_pfs) /\ total_pfs \in Nat /\ total_pfs < Word
  BY <1>1 DEF Types, Sized
<1>3. b \in Nat /\ b > 0 /\ FOUR_KB * b \in Nat /\ FOUR_KB * b < Word
  BY <1>2, BitmapFramesBounds
<1>4. b * FOUR_KB = FOUR_KB * b  BY <1>3, Sizes
<1>5. (b * FOUR_KB) % Word = FOUR_KB * b  BY <1>3, <1>4, SmallWord
<1>6. FOUR_KB * b > 0  BY <1>3, Sizes
<1>. QED  BY <1>1, <1>3, <1>4, <1>5, <1>6 DEF BitmapBytes

\* The areas of an aligned map are available memory, outside of the kernel.
LEMMA AreaAvailable ==
  ASSUME Types, Regular, Mirror, pc \in {"count", "place"}, NEW k \in DOMAIN mmap
  PROVE  Area(k) \subseteq AvailableBytes \ KernelImage
<1>1. PICK n \in UsableEntries :
        /\ table[n].addr \in Nat /\ table[n].len \in Nat
        /\ table[n].addr <= mmap[k].addr
        /\ mmap[k].addr + mmap[k].len <= table[n].addr + table[n].len
        /\ \/ mmap[k].addr >= kernel_physical_end
           \/ mmap[k].addr + mmap[k].len <= kernel_physical_start
  BY AreaFacts
<1>2. n \in AvailableEntries  BY DEF UsableEntries
<1>3. mmap[k].addr \in Nat /\ mmap[k].len \in Nat  BY MmapFacts
<1>4. ASSUME NEW x \in Area(k)
      PROVE  x \in Bytes(table[n].addr, table[n].len) /\ x \notin KernelImage
  <2>1. x \in mmap[k].addr .. (mmap[k].addr + mmap[k].len - 1)
    BY <1>4 DEF Area, Bytes
  <2>. QED  BY <2>1, <1>1, <1>3, Sizes DEF Bytes, KernelImage
<1>. QED  BY <1>2, <1>4 DEF AvailableBytes

\* Two areas of a sorted map have no byte in common.
LEMMA AreasApart ==
  ASSUME Types, Mirror, pc \in {"count", "place"},
         NEW j \in DOMAIN mmap, NEW k \in DOMAIN mmap, j # k
  PROVE  Area(j) \cap Area(k) = {}
<1>1. j \in Nat /\ k \in Nat
        /\ mmap[j].addr \in Nat /\ mmap[j].len \in Nat
        /\ mmap[k].addr \in Nat /\ mmap[k].len \in Nat
  BY MmapFacts
<1>2. \/ mmap[j].addr + mmap[j].len <= mmap[k].addr
      \/ mmap[k].addr + mmap[k].len <= mmap[j].addr
  BY <1>1 DEF Mirror
<1>. QED  BY <1>1, <1>2 DEF Area, Bytes

\* The bitmap takes the first frames of one area.
LEMMA PlaceInv ==
  ASSUME Inv, Regular, place_bitmap, mmap[i].len >= BitmapBytes
  PROVE  RegularInv' /\ BitmapBeforeUse'
<1>1. /\ Types /\ Sized /\ Mirror /\ Counted /\ pc = "place" /\ pc' = "map"
      /\ i \in DOMAIN mmap /\ i \in Nat
      /\ bitmap' = mmap[i].addr
      /\ total_pfs' = total_pfs /\ bitmap_pfs' = bitmap_pfs /\ total_pfs \in Nat
      /\ total_pfs < Word
  BY MmapFacts DEF Inv, RegularInv, place_bitmap, Types
<1>2. AllFrames' = AllFrames /\ AvailableBytes' = AvailableBytes
  BY TableSame DEF Next
<1>3. PICK c : c = i  OBVIOUS
<1>4. PICK a : a = mmap[c].addr  OBVIOUS
<1>5. PICK l : l = mmap[c].len  OBVIOUS
<1>6. PICK b : b = bitmap_pfs  OBVIOUS
<1>7. PICK B : B = BitmapBytes  OBVIOUS
<1>8. /\ b \in Nat /\ b > 0 /\ B \in Nat /\ B > 0 /\ B = FOUR_KB * b
      /\ b * FOUR_KB = FOUR_KB * b
  BY <1>1, <1>6, <1>7, BitmapBytesFacts
<1>9. /\ c \in DOMAIN mmap /\ a \in Nat /\ l \in Nat /\ l >= B
  BY <1>1, <1>3, <1>4, <1>5, <1>7, MmapFacts
<1>10. /\ a > 0 /\ a + l < Word - FOUR_KB
       /\ a % FOUR_KB = 0 /\ l % FOUR_KB = 0
  BY <1>1, <1>4, <1>5, <1>9, AreaFacts
<1>11. mmap' = [mmap EXCEPT ![c] = [addr |-> a + B, len |-> l - B]]
  <2>1. (a + B) % Word = a + B  BY <1>8, <1>9, <1>10, SmallWord, Sizes
  <2>2. mmap' = [mmap EXCEPT ![i] = [addr |-> (mmap[i].addr + BitmapBytes) % Word,
                                     len |-> mmap[i].len - BitmapBytes]]
    BY <1>1 DEF place_bitmap
  <2>. QED  BY <2>1, <2>2, <1>3, <1>4, <1>5, <1>7
<1>12. DOMAIN mmap' = DOMAIN mmap
  BY <1>11
<1>13. \A k \in DOMAIN mmap : k # c => mmap'[k] = mmap[k]
  BY <1>11
<1>14. mmap'[c].addr = a + B /\ mmap'[c].len = l - B
  BY <1>11, <1>9
<1>15. \A k \in DOMAIN mmap : k \in Nat /\ mmap[k].addr \in Nat /\ mmap[k].len \in Nat
  BY <1>1, MmapFacts
<1>16. PICK F : F = a .. (a + B - 1)  OBVIOUS
<1>17. BitmapFrameBytes' = F
  BY <1>1, <1>3, <1>4, <1>6, <1>8, <1>16 DEF BitmapFrameBytes, Bytes
<1>18. PICK R : R = (a + B) .. (a + l - 1)  OBVIOUS
<1>19. Area(c) = F \cup R /\ F \cap R = {}
  <2>1. Area(c) = a .. (a + l - 1)  BY <1>4, <1>5 DEF Area, Bytes
  <2>. QED  BY <2>1, <1>16, <1>18, <1>8, <1>9
<1>20. Area(c)' = R
  <2>1. (a + B) + (l - B) - 1 = a + l - 1  BY <1>8, <1>9
  <2>. QED  BY <2>1, <1>14, <1>18 DEF Area, Bytes
<1>21. \A k \in DOMAIN mmap : k # c => Area(k)' = Area(k)
  BY <1>13 DEF Area
<1>22. \A k \in DOMAIN mmap : k # c => Area(k) \cap F = {}
  BY <1>1, <1>9, <1>19, AreasApart
<1>23. \A k \in DOMAIN mmap : Area(k)' \subseteq Area(k) \ F
  BY <1>19, <1>20, <1>21, <1>22
<1>24. \A k \in DOMAIN mmap' :
         Area(k)' \subseteq AvailableBytes' \ (KernelImage' \cup BitmapFrameBytes')
  <2>1. KernelImage' = KernelImage  BY DEF KernelImage
  <2>2. \A k \in DOMAIN mmap : Area(k) \subseteq AvailableBytes \ KernelImage
    BY <1>1, AreaAvailable
  <2>. QED  BY <2>1, <2>2, <1>2, <1>12, <1>17, <1>23
<1>25. BitmapFrameBytes' \subseteq AvailableBytes' \ KernelImage'
  <2>1. KernelImage' = KernelImage  BY DEF KernelImage
  <2>2. Area(c) \subseteq AvailableBytes \ KernelImage
    BY <1>1, <1>9, AreaAvailable
  <2>. QED  BY <2>1, <2>2, <1>2, <1>17, <1>19
<1>26. (a + B) % FOUR_KB = 0 /\ (l - B) % FOUR_KB = 0
  <2>1. PICK x : x = a \div FOUR_KB  OBVIOUS
  <2>2. PICK y : y = l \div FOUR_KB  OBVIOUS
  <2>3. x \in Int /\ a = FOUR_KB * x  BY <2>1, <1>9, <1>10, DivMod, Sizes
  <2>4. y \in Int /\ l = FOUR_KB * y  BY <2>2, <1>9, <1>10, DivMod, Sizes
  <2>5. a + B = FOUR_KB * (x + b)  BY <2>3, <1>8, Sizes
  <2>6. l - B = FOUR_KB * (y - b)  BY <2>4, <1>8, Sizes
  <2>7. (FOUR_KB * (x + b)) % FOUR_KB = 0 /\ (FOUR_KB * (y - b)) % FOUR_KB = 0
    BY <2>3, <2>4, <1>8, Multiple, Sizes
  <2>. QED  BY <2>5, <2>6, <2>7
<1>27. ASSUME NEW k \in DOMAIN mmap'
       PROVE  /\ mmap'[k].addr % FOUR_KB = 0 /\ mmap'[k].len % FOUR_KB = 0
              /\ mmap'[k].addr > 0 /\ mmap'[k].addr + mmap'[k].len < Word
  <2>1. CASE k = c  BY <2>1, <1>14, <1>26, <1>10, <1>9, <1>8, Sizes
  <2>2. CASE k # c
    <3>1. k \in DOMAIN mmap /\ mmap'[k] = mmap[k]  BY <2>2, <1>12, <1>13
    <3>2. /\ mmap[k].addr > 0 /\ mmap[k].addr + mmap[k].len < Word - FOUR_KB
          /\ mmap[k].addr % FOUR_KB = 0 /\ mmap[k].len % FOUR_KB = 0
      BY <3>1, <1>1, AreaFacts
    <3>. QED  BY <3>1, <3>2, <1>15, Sizes
  <2>. QED  BY <2>1, <2>2
<1>28. ASSUME NEW j \in DOMAIN mmap', NEW k \in DOMAIN mmap', j < k
       PROVE  mmap'[j].addr + mmap'[j].len <= mmap'[k].addr
  <2>1. mmap[j].addr + mmap[j].len <= mmap[k].addr
    BY <1>28, <1>12, <1>1 DEF Mirror
  <2>2. mmap'[j].addr + mmap'[j].len = mmap[j].addr + mmap[j].len
    BY <1>12, <1>13, <1>14, <1>4, <1>5, <1>8, <1>9
  <2>3. mmap[k].addr <= mmap'[k].addr
    BY <1>12, <1>13, <1>14, <1>15, <1>4, <1>8, <1>9
  <2>4. mmap'[k].addr \in Int
    BY <1>12, <1>13, <1>14, <1>15, <1>8, <1>9
  <2>. QED  BY <2>1, <2>2, <2>3, <2>4, <1>12, <1>15
<1>29. PICK U : U = UNION {Area(k) : k \in DOMAIN mmap}  OBVIOUS
<1>30. PICK V : V = UNION {Area(k)' : k \in DOMAIN mmap}  OBVIOUS
<1>31. U = V \cup F /\ V \cap F = {}
  <2>1. \A k \in DOMAIN mmap : Area(k) \subseteq Area(k)' \cup F
    BY <1>19, <1>20, <1>21
  <2>2. F \subseteq Area(c)  BY <1>19
  <2>. QED  BY <2>1, <2>2, <1>9, <1>23, <1>29, <1>30
<1>32. IsFiniteSet(U) /\ IsFiniteSet(V) /\ Cardinality(V) \in Nat
  <2>1. DOMAIN mmap \in SUBSET (DOMAIN mmap)  OBVIOUS
  <2>2. IsFiniteSet(U)  BY <2>1, <1>1, <1>29, FramesFinite
  <2>3. V \in SUBSET U  BY <1>31
  <2>4. IsFiniteSet(V)  BY <2>2, <2>3, FS_Subset
  <2>. QED  BY <2>2, <2>4, FS_CardinalityType
<1>33. IsFiniteSet(F) /\ Cardinality(F) = B
  <2>1. a \in Int /\ a + B - 1 \in Int  BY <1>8, <1>9
  <2>2. IsFiniteSet(F)
          /\ Cardinality(F) = IF a > a + B - 1 THEN 0 ELSE (a + B - 1) - a + 1
    BY <2>1, <1>16, FS_Interval
  <2>. QED  BY <2>2, <1>8, <1>9
<1>34. Cardinality(U) = FOUR_KB * total_pfs
  <2>1. BytesUpTo(Len(mmap)) = U  BY <1>1, <1>29, MmapFacts DEF BytesUpTo
  <2>. QED  BY <2>1, <1>1 DEF Counted
<1>35. Cardinality(U) = Cardinality(V) + B
  <2>1. Cardinality(V \cup F) =
          Cardinality(V) + Cardinality(F) - Cardinality(V \cap F)
    BY <1>32, <1>33, FS_Union
  <2>2. Cardinality(V \cap F) = 0  BY <1>31, FS_EmptySet
  <2>. QED  BY <2>1, <2>2, <1>31, <1>32, <1>33, <1>8
<1>36. page_frames_len' * FOUR_KB = Cardinality(V)
  <2>1. PICK t : t = total_pfs  OBVIOUS
  <2>2. t \in Nat /\ t < Word /\ FOUR_KB * t = Cardinality(V) + FOUR_KB * b
    BY <2>1, <1>1, <1>8, <1>34, <1>35
  <2>3. PICK v : v = Cardinality(V)  OBVIOUS
  <2>4. v \in Nat /\ FOUR_KB * t = v + FOUR_KB * b  BY <2>2, <2>3, <1>32
  <2>5. FOUR_KB * b <= FOUR_KB * t
    <3>1. FOUR_KB * b \in Int  BY <1>8, Sizes
    <3>. QED  BY <3>1, <2>4
  <2>6. b <= t  BY <2>5, <2>2, <1>8, TimesMono, Sizes
  <2>7. page_frames_len' = (t - b) % Word
    BY <1>1, <2>1, <1>6 DEF place_bitmap
  <2>8. t - b \in Nat /\ t - b < Word  BY <2>6, <2>2, <1>8, Sizes
  <2>9. page_frames_len' = t - b  BY <2>7, <2>8, SmallWord
  <2>10. (t - b) * FOUR_KB = FOUR_KB * t - FOUR_KB * b
    BY <2>2, <1>8, Sizes
  <2>11. FOUR_KB * b \in Int  BY <1>8, Sizes
  <2>. QED  BY <2>3, <2>4, <2>9, <2>10, <2>11
<1>37. V = UNION {Area(k)' : k \in DOMAIN mmap'}  BY <1>30, <1>12
<1>38. Usable'
  BY <1>24, <1>25, <1>27, <1>28, <1>36, <1>37 DEF Usable
<1>39. Mirror' /\ TooSmall'  BY <1>1 DEF Mirror, TooSmall
<1>40. Counted'  BY <1>1, <1>2 DEF Counted
<1>. QED
  BY <1>1, <1>38, <1>39, <1>40 DEF RegularInv, BitmapBeforeUse

\* An area that is too small is passed over.
LEMMA PlaceNextInv ==
  ASSUME Inv, Regular, place_bitmap, ~ (mmap[i].len >= BitmapBytes)
  PROVE  RegularInv' /\ BitmapBeforeUse'
<1>1. /\ Types /\ Sized /\ Mirror /\ Counted /\ TooSmall
      /\ pc = "place" /\ pc' = "place"
      /\ i \in DOMAIN mmap /\ i \in Nat /\ i' = i + 1
      /\ UNCHANGED <<mmap, total_pfs, bitmap_pfs>>
  BY MmapFacts DEF Inv, RegularInv, place_bitmap, Types
<1>2. table' = table /\ UsableEntries' = UsableEntries /\ AllFrames' = AllFrames
  BY TableSame DEF Next
<1>3. Copied' = Copied /\ \A k, n : Holds(k, n)' <=> Holds(k, n)
  BY <1>1, <1>2 DEF Copied, Holds, IsRaw
<1>4. Mirror'  BY <1>1, <1>3 DEF Mirror
<1>5. BytesUpTo(Len(mmap))' = BytesUpTo(Len(mmap))
  BY <1>1 DEF BytesUpTo, Area
<1>6. Counted'  BY <1>1, <1>2, <1>5 DEF Counted
<1>7. TooSmall'
  <2>1. BitmapBytes' = BitmapBytes  BY <1>1 DEF BitmapBytes
  <2>2. BitmapBytes \in Nat  BY <1>1, BitmapBytesFacts
  <2>3. ASSUME NEW k \in DOMAIN mmap, k < i + 1 PROVE mmap[k].len < BitmapBytes
    <3>1. k \in Nat /\ mmap[k].len \in Nat  BY <1>1, MmapFacts
    <3>2. CASE k = i  BY <3>1, <3>2, <2>2
    <3>3. CASE k < i  BY <3>3, <1>1 DEF TooSmall
    <3>. QED  BY <2>3, <3>1, <3>2, <3>3, <1>1
  <2>. QED  BY <2>1, <2>3, <1>1 DEF TooSmall
<1>. QED
  BY <1>1, <1>4, <1>6, <1>7 DEF RegularInv, Usable, BitmapBeforeUse

\* With room for the bitmap one area is large enough.
LEMMA PlaceFailsInv ==
  ASSUME Inv, Regular, place_fails
  PROVE  RegularInv' /\ BitmapBeforeUse'
<1>1. /\ Types /\ Sized /\ Mirror /\ Counted /\ TooSmall
      /\ pc = "place" /\ pc' = "failed" /\ i > Len(mmap) /\ i \in Nat
  BY DEF Inv, RegularInv, place_fails, Types
<1>2. RoomForBitmap' = RoomForBitmap  BY TableSame DEF Next
<1>3. ~ RoomForBitmap
  <2>1. SUFFICES ASSUME RoomForBitmap PROVE FALSE  OBVIOUS
  <2>2. BitmapFrames(AllFrames) = bitmap_pfs  BY <1>1 DEF Counted, Sized
  <2>3. PICK n \in UsableEntries :
          UsableBytes(table[n]) >= bitmap_pfs * FOUR_KB
    BY <2>1, <2>2 DEF RoomForBitmap
  <2>4. n \in Copied  BY <1>1 DEF Copied
  <2>5. PICK k \in DOMAIN mmap : Holds(k, n)  BY <2>4, <1>1 DEF Mirror
  <2>6. mmap[k].len = WholeLen(table[n])
    BY <2>5, <1>1, HoldsFacts DEF IsRaw
  <2>7. PICK u : u = UsableBytes(table[n])  OBVIOUS
  <2>8. u \in Nat  BY <2>7, <1>1, UsableFacts, EntryFacts
  <2>9. PICK b : b = bitmap_pfs  OBVIOUS
  <2>10. b \in Nat /\ BitmapBytes = FOUR_KB * b /\ b * FOUR_KB = FOUR_KB * b
    BY <2>9, <1>1, BitmapBytesFacts
  <2>11. FOUR_KB * b <= u
    <3>1. b * FOUR_KB <= u  BY <2>3, <2>7, <2>8, <2>9, <2>10, Sizes
    <3>. QED  BY <3>1, <2>10
  <2>12. FOUR_KB * b <= align_down(u, FOUR_KB)  BY <2>8, <2>10, <2>11, AlignDown
  <2>13. BitmapBytes <= mmap[k].len  BY <2>6, <2>7, <2>10, <2>12 DEF WholeLen
  <2>14. k < i /\ mmap[k].len \in Nat  BY <1>1, MmapFacts
  <2>15. mmap[k].len < BitmapBytes  BY <2>14, <1>1 DEF TooSmall
  <2>16. BitmapBytes \in Nat  BY <1>1, BitmapBytesFacts
  <2>. QED  BY <2>13, <2>14, <2>15, <2>16
<1>. QED
  BY <1>1, <1>2, <1>3 DEF RegularInv, Mirror, Counted, TooSmall, Usable,
                          BitmapBeforeUse

\* With room for the bitmap kernel_pt has room for its pages.
LEMMA MapInv ==
  ASSUME Inv, Regular, map_bitmap
  PROVE  RegularInv' /\ BitmapBeforeUse'
<1>1. /\ Types /\ Sized /\ Counted /\ Usable /\ pc = "map" /\ pc' \in {"ready", "wild"}
      /\ UNCHANGED <<mmap, total_pfs, bitmap_pfs, bitmap, page_frames_len>>
  BY DEF Inv, RegularInv, map_bitmap
<1>2. RoomForBitmap' = RoomForBitmap /\ AvailableBytes' = AvailableBytes
  BY TableSame DEF Next
<1>3. Usable'
  <2>1. \A k : Area(k)' = Area(k)  BY <1>1 DEF Area
  <2>2. BitmapFrameBytes' = BitmapFrameBytes  BY <1>1 DEF BitmapFrameBytes
  <2>3. KernelImage' = KernelImage  BY DEF KernelImage
  <2>. QED  BY <2>1, <2>2, <2>3, <1>1, <1>2 DEF Usable
<1>4. RoomForBitmap => pc' = "ready"
  <2>1. SUFFICES ASSUME RoomForBitmap PROVE MappedPages <= FreePages
    BY DEF map_bitmap
  <2>2. PICK t : t = total_pfs  OBVIOUS
  <2>3. PICK b : b = BitmapFrames(t)  OBVIOUS
  <2>4. t \in Nat /\ t < Word /\ b = bitmap_pfs
    BY <2>2, <2>3, <1>1 DEF Types, Sized
  <2>5. t > b /\ b <= FreePages
    BY <2>1, <2>2, <2>3, <1>1 DEF RoomForBitmap, Counted
  <2>6. b \in Nat  BY <2>3, <2>4, BitmapFramesBounds
  <2>7. PICK m : m = page_frames_len  OBVIOUS
  <2>8. m = (t - b) % Word  BY <2>2, <2>4, <2>7, <1>1 DEF Sized
  <2>9. t - b \in Nat /\ t - b < Word  BY <2>4, <2>5, <2>6, Sizes
  <2>10. m = t - b  BY <2>8, <2>9, SmallWord
  <2>11. m > 0  BY <2>10, <2>4, <2>5, <2>6
  <2>12. m = (t - BitmapFrames(t)) % Word  BY <2>8, <2>3
  <2>13. align_up(div_ceil(m, ByteBits), FOUR_KB) \div FOUR_KB <= BitmapFrames(t)
    BY <2>4, <2>11, <2>12, CellsFit
  <2>14. MappedPages <= b
    BY <2>13, <2>3, <2>7 DEF MappedPages, bitmap_size
  <2>15. MappedPages \in Int
    <3>1. m \in Nat /\ m < Word  BY <2>10, <2>9
    <3>2. Ceil(WrapZero(m), ByteBits, div_ceil(m, ByteBits))
      BY <3>1, DivCeil, Sizes
    <3>3. WrapZero(m) \in Nat /\ WrapZero(m) <= Word  BY <3>1, Sizes DEF WrapZero
    <3>4. PICK s : s = div_ceil(m, ByteBits)  OBVIOUS
    <3>5. s \in Nat  BY <3>2, <3>4 DEF Ceil
    <3>6. s + FOUR_KB <= Word  BY <3>2, <3>3, <3>4, BytesBelow
    <3>7. align_up(s, FOUR_KB) \div FOUR_KB \in Nat
      BY <3>5, <3>6, AlignUp DEF Ceil
    <3>. QED  BY <3>4, <3>7, <2>7 DEF MappedPages, bitmap_size
  <2>. QED  BY <2>5, <2>6, <2>14, <2>15, Sizes
<1>. QED
  BY <1>1, <1>2, <1>3, <1>4 DEF RegularInv, Mirror, Counted, TooSmall,
                                BitmapBeforeUse

\* A wild allocation follows a failure only.
LEMMA WildInv ==
  ASSUME Inv, Regular, allocate_without_bitmap
  PROVE  RegularInv' /\ BitmapBeforeUse'
<1>1. BitmapBeforeUse /\ pc = "failed" /\ pc' = "wild"
  BY DEF Inv, allocate_without_bitmap
<1>2. RoomForBitmap' = RoomForBitmap /\ AvailableEntries' = AvailableEntries
        /\ Regular' = Regular
  BY TableSame DEF Next
<1>3. BitmapBeforeUse'  BY <1>1, <1>2 DEF BitmapBeforeUse
<1>. QED
  BY <1>1, <1>3 DEF RegularInv, Mirror, Counted, TooSmall, Usable

-----------------------------------------------------------------------------
(***************************************************************************)
(* The theorems.                                                           *)
(***************************************************************************)

\* Before the first entry nothing is copied, counted or placed.
LEMMA InitInv == Init => Inv
<1>1. SUFFICES ASSUME Init PROVE Inv  OBVIOUS
<1>2. Types
  <2>1. table \in Tables \cup {<<>>}  BY <1>1 DEF Init
  <2>2. mmap = <<>> /\ i = 1 /\ total_pfs = 0  BY <1>1 DEF Init
  <2>. QED  BY <2>1, <2>2, Sizes DEF Types
<1>3. Sized  BY <1>1 DEF Init, Sized
<1>4. Copied = {}
  <2>1. \A n \in UsableEntries : ~ (n < 1)
    BY <1>2, TableFacts DEF UsableEntries, AvailableEntries
  <2>. QED  BY <2>1, <1>1 DEF Init, Copied
<1>5. Mirror  BY <1>1, <1>4 DEF Init, Mirror
<1>6. Counted
  <2>1. Cardinality(Copied) = 0  BY <1>4, FS_EmptySet
  <2>2. Len(mmap) = 0 /\ pc = "fill" /\ total_pfs = 0  BY <1>1 DEF Init
  <2>. QED  BY <2>1, <2>2 DEF Counted
<1>. QED
  BY <1>1, <1>2, <1>3, <1>5, <1>6 DEF Init, Inv, RegularInv, TooSmall, Usable,
                                      BitmapBeforeUse

\* Every step of frames_init keeps the invariant.
LEMMA NextInv == Inv /\ [Next]_vars => Inv'
<1>1. SUFFICES ASSUME Inv, [Next]_vars PROVE Inv'  OBVIOUS
<1>2. CASE UNCHANGED vars
  <2>1. table' = table /\ AvailableEntries' = AvailableEntries
          /\ UsableEntries' = UsableEntries /\ AllFrames' = AllFrames
          /\ AvailableBytes' = AvailableBytes /\ Regular' = Regular
          /\ RoomForBitmap' = RoomForBitmap
    BY <1>2, TableSame
  <2>2. /\ pc' = pc /\ i' = i /\ mmap' = mmap /\ total_pfs' = total_pfs
        /\ bitmap_pfs' = bitmap_pfs /\ bitmap' = bitmap
        /\ page_frames_len' = page_frames_len
    BY <1>2 DEF vars
  <2>3. Types'  BY <1>1, <2>1, <2>2 DEF Inv, Types
  <2>4. MappedPages' = MappedPages /\ BitmapBytes' = BitmapBytes
          /\ BitmapFrameBytes' = BitmapFrameBytes /\ KernelImage' = KernelImage
    BY <2>2 DEF MappedPages, bitmap_size, BitmapBytes, BitmapFrameBytes, KernelImage
  <2>5. Sized'  BY <1>1, <2>2, <2>4 DEF Inv, Sized
  <2>6. \A k : Area(k)' = Area(k)  BY <2>2 DEF Area
  <2>7. Copied' = Copied /\ \A k, n : Holds(k, n)' <=> Holds(k, n)
    BY <2>1, <2>2 DEF Copied, Holds, IsRaw
  <2>8. \A k : BytesUpTo(k)' = BytesUpTo(k)  BY <2>6 DEF BytesUpTo
  <2>9. Mirror => Mirror'  BY <2>2, <2>7 DEF Mirror
  <2>10. Counted => Counted'  BY <2>1, <2>2, <2>7, <2>8 DEF Counted
  <2>11. TooSmall => TooSmall'  BY <2>2, <2>4 DEF TooSmall
  <2>12. Usable => Usable'  BY <2>1, <2>2, <2>4, <2>6 DEF Usable
  <2>13. BitmapBeforeUse'  BY <1>1, <2>1, <2>2 DEF Inv, BitmapBeforeUse
  <2>. QED
    BY <1>1, <2>1, <2>3, <2>5, <2>9, <2>10, <2>11, <2>12, <2>13 DEF Inv, RegularInv
<1>3. CASE Next
  <2>1. Types' /\ Sized'  BY <1>1, <1>3, TypesStep, SizedStep DEF Inv
  <2>2. Regular' = Regular  BY <1>3, TableSame
  <2>3. CASE ~ Regular  BY <2>1, <2>2, <2>3 DEF Inv, BitmapBeforeUse
  <2>4. CASE Regular
    <3>1. RegularInv' /\ BitmapBeforeUse'
      BY <1>1, <1>3, <2>4, FillInv, FillDoneInv, AlignInv, AlignDoneInv, CountInv,
         CountDoneInv, PlaceInv, PlaceNextInv, PlaceFailsInv, MapInv, WildInv
         DEF Next
    <3>. QED  BY <3>1, <2>1 DEF Inv
  <2>. QED  BY <2>3, <2>4
<1>. QED  BY <1>1, <1>2, <1>3

\* The invariant holds from the boot loader's table to the finished map.
THEOREM InvHolds == Spec => []Inv
  BY InitInv, NextInv, PTL DEF Spec

\* For every table, with any arithmetic that wraps around, the cells that
\* pfa_allocate reads lie in the pages mapped for the bitmap, and these in the
\* frames reserved for it.
THEOREM ScanStaysInside == Spec => []ScanInsideBitmap
<1>1. Inv => ScanInsideBitmap
  <2>1. SUFFICES ASSUME Inv, pc = "ready"
                 PROVE  /\ div_ceil(page_frames_len, CellBits)
                             * (CellBits \div ByteBits) <= MappedPages * FOUR_KB
                        /\ MappedPages <= bitmap_pfs
    BY DEF ScanInsideBitmap
  <2>2. PICK t : t = total_pfs  OBVIOUS
  <2>3. PICK m : m = page_frames_len  OBVIOUS
  <2>4. /\ t \in Nat /\ t < Word
        /\ bitmap_pfs = BitmapFrames(t) /\ m = (t - BitmapFrames(t)) % Word
        /\ MappedPages <= FreePages
    BY <2>1, <2>2, <2>3 DEF Inv, Types, Sized
  <2>5. MappedPages = align_up(div_ceil(m, ByteBits), FOUR_KB) \div FOUR_KB
    BY <2>3 DEF MappedPages, bitmap_size
  <2>6. m \in Nat
    <3>1. BitmapFrames(t) \in Nat  BY <2>4, BitmapFramesBounds
    <3>2. t - BitmapFrames(t) \in Int  BY <3>1, <2>4
    <3>. QED  BY <3>2, <2>4, ModWord
  <2>7. m > 0
    <3>1. SUFFICES ASSUME m = 0 PROVE FALSE  BY <2>6
    <3>2. MappedPages > FreePages  BY <3>1, <2>5, NoFramesNoPages
    <3>3. MappedPages \in Int
      <4>1. PICK s : s = div_ceil(0, ByteBits)  OBVIOUS
      <4>2. Ceil(Word, ByteBits, s)  BY <4>1, DivCeil, Sizes DEF WrapZero
      <4>3. s \in Nat /\ s + FOUR_KB <= Word  BY <4>2, BytesBelow, Sizes DEF Ceil
      <4>4. align_up(s, FOUR_KB) \div FOUR_KB \in Nat  BY <4>3, AlignUp DEF Ceil
      <4>. QED  BY <4>1, <4>4, <3>1, <2>5
    <3>. QED  BY <3>2, <3>3, <2>4, Sizes
  <2>8. /\ div_ceil(m, CellBits) * (CellBits \div ByteBits)
             <= (align_up(div_ceil(m, ByteBits), FOUR_KB) \div FOUR_KB) * FOUR_KB
        /\ align_up(div_ceil(m, ByteBits), FOUR_KB) \div FOUR_KB
             <= BitmapFrames(t)
    BY <2>4, <2>7, CellsFit
  <2>. QED  BY <2>3, <2>4, <2>5, <2>8
<1>. QED  BY <1>1, InvHolds, PTL

\* For every regular table frames_init hands whole, sorted, disjoint frames of
\* available memory to the frame allocator, as many as page_frames.len says.
THEOREM MapIsUsable == Spec => []MapUsable
<1>1. Inv => MapUsable
  BY DEF Inv, RegularInv, Usable, MapUsable
<1>. QED  BY <1>1, InvHolds, PTL

\* With room for the bitmap and in mmap[] nothing that frames_init does not
\* handle happens.
THEOREM NeverWithoutBitmap == Spec => []BitmapBeforeUse
<1>1. Inv => BitmapBeforeUse  BY DEF Inv
<1>. QED  BY <1>1, InvHolds, PTL

=============================================================================
