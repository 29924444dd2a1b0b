--------------------------- MODULE ConsoleProofs ---------------------------
(***************************************************************************)
(* Proofs about the screen, for every size of it and however the keyboard  *)
(* interrupts tty_write_byte.                                              *)
(***************************************************************************)
EXTENDS Console, WellFoundedInduction, NaturalsInduction, TLAPS

-----------------------------------------------------------------------------
(***************************************************************************)
(* What the programs of tty.c look like.  Each condition is about one      *)
(* operation and the ones that follow it, so that it holds of what is left *)
(* of a program at any time.                                               *)
(***************************************************************************)
Glyphs ==
  (Text \cup Range(chars) \cup (UNION {Range(s) : s \in Strings}) \cup {"x", Space, Old})
    \ {Newline, Tab, Backspace}

Sides == {"high", "low"}
Ports == {"index", "data"}
Shifts == {"copy", "blank"}
LowUsers == {"cell", "forward", "down", "back"}
Users == LowUsers \cup {"start"}
SureMoves == {"forward", "down", "start"}
Moves == SureMoves \cup {"back", "home"}

Ops ==
  {<<"load">>, <<"forward">>, <<"down">>, <<"start">>, <<"back">>}
    \cup {<<"cell", g>> : g \in Glyphs}
    \cup {<<"home", i>> : i \in 0 .. (TTY_NUM_ROWS - 1)}
    \cup {<<"index", b>> : b \in Sides} \cup {<<"data", b>> : b \in Sides}
    \cup {<<"check", Size>>}
    \cup {<<"copy", i>> : i \in 1 .. (TTY_NUM_ROWS - 1)}
    \cup {<<"blank", i>> : i \in 0 .. (TTY_NUM_ROWS - 1)}

\* The operations behind k are those of set_cursor.
SetsCursor(q, k) ==
  /\ k + 4 <= Len(q)
  /\ q[k + 1] = <<"index", "high">> /\ q[k + 2] = <<"data", "high">>
  /\ q[k + 3] = <<"index", "low">> /\ q[k + 4] = <<"data", "low">>

\* What follows an operation: the use of a loaded register, set_cursor after
\* a new position and nowhere else, ...
Follows(q, k) ==
  /\ q[k][1] = "load" => k < Len(q) /\ q[k + 1][1] \in Users
  /\ (k < Len(q) /\ q[k][1] # "load") => q[k + 1][1] \notin Users
  /\ q[k][1] \in Moves => SetsCursor(q, k)
  /\ (k < Len(q) /\ q[k][1] \notin Moves \cup Ports) => q[k + 1][1] \notin Ports
  /\ (k < Len(q) /\ q[k] = <<"data", "low">>) => q[k + 1][1] \notin Ports

\* ... and the test, with what it guards, after everything that may take the
\* cursor off the screen.
Checked(q, k) ==
  /\ q[k][1] \in {"forward", "start"} => k + 5 <= Len(q) /\ q[k + 5][1] = "check"
  /\ q[k][1] = "down" =>
       k + 6 <= Len(q) /\ q[k + 5][1] = "load" /\ q[k + 6][1] = "start"
  /\ q[k][1] = "back" => k + 7 <= Len(q) /\ q[k + 7][1] = "check"
  /\ q[k][1] = "check" =>
       /\ k + TTY_NUM_ROWS + 5 <= Len(q) /\ q[k + TTY_NUM_ROWS + 1][1] = "home"
       /\ \A i \in 1 .. TTY_NUM_ROWS : q[k + i][1] \in Shifts

InOrder(q) == \A k \in 1 .. Len(q) : Follows(q, k) /\ Checked(q, k)

\* The cursor will be tested or sent home.
Ends(q) == \E j \in 1 .. Len(q) : q[j][1] \in {"check", "home"}

\* It will be before anything depends on its being on the screen.
Lowering(q) ==
  \E j \in 1 .. Len(q) :
    /\ q[j][1] \in {"check", "home"}
    /\ \A i \in 1 .. (j - 1) :
         \/ q[i][1] \in Ports \cup Shifts \cup {"start"}
         \/ q[i][1] = "load" /\ q[i + 1][1] = "start"

-----------------------------------------------------------------------------
(***************************************************************************)
(* The state of a thread that writes.  The limit M is Size for the kernel, *)
(* which begins each byte on the screen, and a row more for a handler,     *)
(* which may find the cursor in the row below.                             *)
(***************************************************************************)
Devices ==
  [fb : [Cells -> Glyphs], cursor_pos : Nat, index : Sides,
   location : [Sides -> 0 .. (Byte - 1)], todo : Seq(Ops), r : Nat, loc : Nat]

Registers(t, M) ==
  t.todo # <<>> => /\ t.todo[1][1] \in LowUsers => t.r < M
                   /\ t.todo[1][1] = "start" => t.r < M + TTY_NUM_COLS

Writing(t, M) ==
  /\ t \in Devices
  /\ InOrder(t.todo)
  /\ t.cursor_pos < M + TTY_NUM_COLS
  /\ Registers(t, M)
  /\ t.cursor_pos >= M => Lowering(t.todo)
  /\ t.cursor_pos >= Size => Ends(t.todo)
  /\ t.fb[Size + TTY_NUM_COLS] = Old

-----------------------------------------------------------------------------
(***************************************************************************)
(* The hardware cursor shows the position, or a part of set_cursor is left *)
(* that will make it, or a move to a new position is.                      *)
(***************************************************************************)
High(c) == (c \div Byte) % Byte
Low(c) == c % Byte

Shown(t) ==
  /\ t.todo = <<>> \/ t.todo[1][1] \notin Ports
  /\ t.location["high"] = High(t.cursor_pos) /\ t.location["low"] = Low(t.cursor_pos)

Showing(t) ==
  /\ t.todo # <<>> /\ t.loc = t.cursor_pos
  /\ \/ SetsCursor(t.todo, 0)
     \/ /\ 3 <= Len(t.todo) /\ t.todo[1] = <<"data", "high">> /\ t.index = "high"
        /\ t.todo[2] = <<"index", "low">> /\ t.todo[3] = <<"data", "low">>
     \/ /\ 2 <= Len(t.todo) /\ t.todo[1] = <<"index", "low">>
        /\ t.todo[2] = <<"data", "low">> /\ t.location["high"] = High(t.cursor_pos)
     \/ /\ t.todo[1] = <<"data", "low">> /\ t.index = "low"
        /\ t.location["high"] = High(t.cursor_pos)

Moving(q) ==
  \E j \in 1 .. Len(q) :
    \/ q[j][1] \in SureMoves
    \/ q[j][1] = "home" /\ \A i \in 1 .. (j - 1) : q[i][1] # "check"

Synced(t) == Moving(t.todo) \/ Shown(t) \/ Showing(t)

-----------------------------------------------------------------------------
(***************************************************************************)
(* The inductive invariant.                                                *)
(***************************************************************************)
Flags ==
  /\ stage \in Booting .. Started
  /\ IF_flag = (stage \in {Enabled, Cleared, Keyboard})
  /\ buffer \in {Empty, Press, Release}
  /\ irq \in BOOLEAN /\ torn \in BOOLEAN /\ dirty \in BOOLEAN /\ early \in BOOLEAN

\* A scancode that waits without an interrupt to come, or whose interrupt may
\* find no handler, came early.
Waiting == (buffer # Empty /\ (~irq \/ stage < Keyboard)) => early

Inv == Flags /\ Waiting /\ Writing(tty, Size) /\ (~dirty => Synced(tty))

-----------------------------------------------------------------------------
(***************************************************************************)
(* Sizes, operations and suffixes.                                         *)
(***************************************************************************)

\* The sizes of the screen.
LEMMA Sizes ==
  /\ TTY_NUM_ROWS \in Nat /\ TTY_NUM_ROWS >= 2 /\ TTY_NUM_COLS \in Nat /\ TTY_NUM_COLS >= 1
  /\ Size \in Nat /\ Size >= 1 /\ Byte \in Nat /\ Byte >= 2 /\ Size <= Byte * Byte
  /\ Size + TTY_NUM_COLS \in Cells
<1>1. /\ TTY_NUM_ROWS \in Nat /\ TTY_NUM_ROWS >= 2 /\ TTY_NUM_COLS \in Nat
      /\ TTY_NUM_COLS >= 1 /\ Byte \in Nat /\ Byte >= 2
  BY ConsoleAssumption
<1>2. Size \in Nat /\ Size >= 1 /\ Size <= Byte * Byte
  BY <1>1, ConsoleAssumption DEF Size
<1>. QED  BY <1>1, <1>2 DEF Cells

\* A row on the screen ends on the screen.
LEMMA RowEnds ==
  ASSUME NEW i \in 0 .. (TTY_NUM_ROWS - 1)
  PROVE  i * TTY_NUM_COLS \in Nat /\ (i * TTY_NUM_COLS) + TTY_NUM_COLS <= Size
<1>1. i \in Nat /\ TTY_NUM_ROWS \in Nat /\ TTY_NUM_COLS \in Nat /\ i <= TTY_NUM_ROWS - 1
  BY Sizes
<1>2. PICK d : d = TTY_NUM_ROWS - 1 - i  OBVIOUS
<1>3. d \in Nat /\ TTY_NUM_ROWS = i + 1 + d  BY <1>1, <1>2
<1>4. Size = (i * TTY_NUM_COLS) + TTY_NUM_COLS + (d * TTY_NUM_COLS)
  BY <1>1, <1>3 DEF Size
<1>5. i * TTY_NUM_COLS \in Nat /\ d * TTY_NUM_COLS \in Nat  BY <1>1, <1>3
<1>. QED  BY <1>4, <1>5, <1>1

OpKind(op) ==
  /\ op[1] \in Users \cup Ports \cup Shifts \cup {"load", "home", "check"}
  /\ op[1] = "cell" => op[2] \in Glyphs
  /\ op[1] = "home" => op[2] \in 0 .. (TTY_NUM_ROWS - 1)
  /\ op[1] = "index" => op[2] \in Sides
  /\ op[1] = "check" => op[2] = Size
  /\ op[1] = "copy" => op[2] \in 1 .. (TTY_NUM_ROWS - 1)
  /\ op[1] = "blank" => op[2] \in 0 .. (TTY_NUM_ROWS - 1)

\* The operands of an operation.
LEMMA OpKinds ==
  ASSUME NEW op \in Ops
  PROVE  OpKind(op)
<1>1. CASE op \in {<<"load">>, <<"forward">>, <<"down">>, <<"start">>, <<"back">>}
  BY <1>1 DEF OpKind, Users, LowUsers
<1>2. CASE op \in {<<"cell", g>> : g \in Glyphs}
  BY <1>2 DEF OpKind, Users, LowUsers
<1>3. CASE op \in {<<"home", i>> : i \in 0 .. (TTY_NUM_ROWS - 1)}
  BY <1>3 DEF OpKind
<1>4. CASE op \in {<<"index", b>> : b \in Sides} \cup {<<"data", b>> : b \in Sides}
  BY <1>4 DEF OpKind, Ports
<1>5. CASE op \in {<<"check", Size>>}
  BY <1>5 DEF OpKind
<1>6. CASE op \in {<<"copy", i>> : i \in 1 .. (TTY_NUM_ROWS - 1)}
               \cup {<<"blank", i>> : i \in 0 .. (TTY_NUM_ROWS - 1)}
  BY <1>6 DEF OpKind, Shifts
<1>. QED  BY <1>1, <1>2, <1>3, <1>4, <1>5, <1>6 DEF Ops

\* s is what is left of q after n operations.
Suffix(s, q, n) ==
  /\ s \in Seq(Ops) /\ Len(s) \in Nat /\ Len(s) = Len(q) - n
  /\ \A i \in 1 .. Len(s) : s[i] = q[i + n]

\* Leaving out the first n operations gives a suffix.
LEMMA SuffixOf ==
  ASSUME NEW q \in Seq(Ops), NEW n \in 0 .. Len(q)
  PROVE  Suffix(SubSeq(q, n + 1, Len(q)), q, n)
<1>1. PICK s : s = SubSeq(q, n + 1, Len(q))  OBVIOUS
<1>2. Len(q) \in Nat /\ n \in Nat /\ n <= Len(q)  OBVIOUS
<1>3. s \in Seq(Ops) /\ Len(s) = Len(q) - n
  BY <1>1, <1>2
<1>4. \A i \in 1 .. Len(s) : s[i] = q[i + n]  BY <1>1, <1>2, <1>3
<1>. QED  BY <1>1, <1>2, <1>3, <1>4 DEF Suffix

\* So does Tail.
LEMMA SuffixTail ==
  ASSUME NEW q \in Seq(Ops), q # <<>>
  PROVE  Suffix(Tail(q), q, 1) /\ Head(q) = q[1] /\ Len(q) \in Nat /\ Len(q) >= 1
         /\ 1 \in 1 .. Len(q) /\ q[1] \in Ops
<1>1. Len(q) \in Nat /\ Len(q) >= 1  OBVIOUS
<1>2. PICK s : s = Tail(q)  OBVIOUS
<1>3. s \in Seq(Ops) /\ Len(s) = Len(q) - 1  BY <1>1, <1>2
<1>4. \A i \in 1 .. Len(s) : s[i] = q[i + 1]  BY <1>1, <1>2, <1>3
<1>. QED  BY <1>1, <1>2, <1>3, <1>4 DEF Suffix

\* What is left of a program is in order, too.
LEMMA SuffixInOrder ==
  ASSUME NEW q \in Seq(Ops), InOrder(q), NEW n \in 0 .. Len(q), NEW s, Suffix(s, q, n)
  PROVE  InOrder(s)
<1>1. Len(q) \in Nat /\ n \in Nat /\ Len(s) \in Nat /\ Len(s) = Len(q) - n
  BY DEF Suffix
<1>2. SUFFICES ASSUME NEW k \in 1 .. Len(s) PROVE Follows(s, k) /\ Checked(s, k)
  BY DEF InOrder
<1>3. PICK l : l = k + n  OBVIOUS
<1>4. l \in 1 .. Len(q) /\ k \in Nat /\ l \in Nat  BY <1>1, <1>2, <1>3
<1>5. Follows(q, l) /\ Checked(q, l)  BY <1>4 DEF InOrder
<1>6. ASSUME NEW c \in Nat
      PROVE  /\ k + c <= Len(s) <=> l + c <= Len(q)
             /\ k + c <= Len(s) => s[k + c] = q[l + c]
  <2>1. k + c <= Len(s) <=> l + c <= Len(q)  BY <1>1, <1>3, <1>4, <1>6
  <2>2. ASSUME k + c <= Len(s) PROVE s[k + c] = q[l + c]
    <3>1. k + c \in 1 .. Len(s)  BY <2>2, <1>1, <1>4, <1>6
    <3>2. s[k + c] = q[(k + c) + n]  BY <3>1 DEF Suffix
    <3>3. (k + c) + n = l + c  BY <1>1, <1>3, <1>4, <1>6
    <3>. QED  BY <3>2, <3>3
  <2>. QED  BY <2>1, <2>2
<1>7. s[k] = q[l]  BY <1>2, <1>3 DEF Suffix
<1>8. (k < Len(s) <=> l < Len(q)) /\ (k < Len(s) => s[k + 1] = q[l + 1])
  <2>1. k < Len(s) <=> k + 1 <= Len(s)  BY <1>1, <1>4
  <2>2. l < Len(q) <=> l + 1 <= Len(q)  BY <1>1, <1>4
  <2>. QED  BY <2>1, <2>2, <1>6
<1>9. SetsCursor(q, l) => SetsCursor(s, k)
  <2>1. SUFFICES ASSUME SetsCursor(q, l) PROVE SetsCursor(s, k)  OBVIOUS
  <2>2. k + 4 <= Len(s)  BY <2>1, <1>6 DEF SetsCursor
  <2>3. k + 1 <= Len(s) /\ k + 2 <= Len(s) /\ k + 3 <= Len(s)  BY <2>2, <1>1, <1>4
  <2>4. s[k + 1] = q[l + 1] /\ s[k + 2] = q[l + 2] /\ s[k + 3] = q[l + 3] /\ s[k + 4] = q[l + 4]
    BY <2>2, <2>3, <1>6
  <2>. QED  BY <2>1, <2>2, <2>4 DEF SetsCursor
<1>10. Follows(s, k)  BY <1>5, <1>7, <1>8, <1>9, Zenon DEF Follows
<1>11. Checked(s, k)
  <2>1. s[k][1] \in {"forward", "start"} => k + 5 <= Len(s) /\ s[k + 5][1] = "check"
    BY <1>5, <1>6, <1>7 DEF Checked
  <2>2. s[k][1] = "down" =>
          k + 6 <= Len(s) /\ s[k + 5][1] = "load" /\ s[k + 6][1] = "start"
    <3>1. SUFFICES ASSUME s[k][1] = "down"
                   PROVE  k + 6 <= Len(s) /\ s[k + 5][1] = "load" /\ s[k + 6][1] = "start"
      OBVIOUS
    <3>2. l + 6 <= Len(q) /\ q[l + 5][1] = "load" /\ q[l + 6][1] = "start"
      BY <3>1, <1>5, <1>7 DEF Checked
    <3>3. k + 6 <= Len(s) /\ k + 5 <= Len(s)  BY <3>2, <1>6, <1>1, <1>4
    <3>. QED  BY <3>2, <3>3, <1>6
  <2>3. s[k][1] = "back" => k + 7 <= Len(s) /\ s[k + 7][1] = "check"
    BY <1>5, <1>6, <1>7 DEF Checked
  <2>4. s[k][1] = "check" =>
          /\ k + TTY_NUM_ROWS + 5 <= Len(s) /\ s[k + TTY_NUM_ROWS + 1][1] = "home"
          /\ \A i \in 1 .. TTY_NUM_ROWS : s[k + i][1] \in Shifts
    <3>1. SUFFICES ASSUME s[k][1] = "check"
                   PROVE  /\ k + TTY_NUM_ROWS + 5 <= Len(s)
                          /\ s[k + TTY_NUM_ROWS + 1][1] = "home"
                          /\ \A i \in 1 .. TTY_NUM_ROWS : s[k + i][1] \in Shifts
      OBVIOUS
    <3>2. /\ l + TTY_NUM_ROWS + 5 <= Len(q) /\ q[l + TTY_NUM_ROWS + 1][1] = "home"
          /\ \A i \in 1 .. TTY_NUM_ROWS : q[l + i][1] \in Shifts
      BY <3>1, <1>5, <1>7 DEF Checked
    <3>3. k + TTY_NUM_ROWS + 5 <= Len(s)  BY <3>2, <1>1, <1>3, <1>4, Sizes
    <3>4. \A c \in Nat : c <= TTY_NUM_ROWS + 1 => k + c <= Len(s)  BY <3>3, <1>1, <1>4, Sizes
    <3>5. PICK c : c = TTY_NUM_ROWS + 1  OBVIOUS
    <3>6. /\ c \in Nat /\ c <= TTY_NUM_ROWS + 1
          /\ k + TTY_NUM_ROWS + 1 = k + c /\ l + TTY_NUM_ROWS + 1 = l + c
      BY <3>5, <1>4, Sizes
    <3>7. s[k + c] = q[l + c]  BY <3>4, <3>6, <1>6
    <3>8. \A i \in 1 .. TTY_NUM_ROWS : i \in Nat /\ i <= TTY_NUM_ROWS + 1  BY Sizes
    <3>9. \A i \in 1 .. TTY_NUM_ROWS : s[k + i] = q[l + i]  BY <3>4, <3>8, <1>6
    <3>. QED  BY <3>2, <3>3, <3>6, <3>7, <3>9
  <2>. QED  BY <2>1, <2>2, <2>3, <2>4, Zenon DEF Checked
<1>. QED  BY <1>10, <1>11

\* The positions of a suffix.
LEMMA SuffixAt ==
  ASSUME NEW q \in Seq(Ops), NEW n \in 0 .. Len(q), NEW s, Suffix(s, q, n),
         NEW j \in 1 .. Len(q), j > n
  PROVE  j - n \in 1 .. Len(s) /\ s[j - n] = q[j]
<1>1. Len(q) \in Nat /\ n \in Nat /\ j \in Nat /\ Len(s) = Len(q) - n /\ j <= Len(q)
  BY DEF Suffix
<1>2. j - n \in 1 .. Len(s) /\ (j - n) + n = j  BY <1>1
<1>. QED  BY <1>2 DEF Suffix

\* The test or the way home that is left is still left after another operation.
LEMMA EndsTail ==
  ASSUME NEW q \in Seq(Ops), q # <<>>, NEW s, Suffix(s, q, 1),
         Ends(q), q[1][1] \notin {"check", "home"}
  PROVE  Ends(s)
<1>1. PICK j \in 1 .. Len(q) : q[j][1] \in {"check", "home"}  BY DEF Ends
<1>2. j # 1 /\ Len(q) \in Nat  BY <1>1
<1>3. j > 1 /\ 1 \in 0 .. Len(q)  BY <1>1, <1>2
<1>4. PICK i : i = j - 1  OBVIOUS
<1>5. i \in 1 .. Len(s) /\ s[i] = q[j]  BY <1>1, <1>3, <1>4, SuffixAt
<1>. QED  BY <1>1, <1>5 DEF Ends

\* The same, with nothing that depends on the cursor before it.
LEMMA LoweringTail ==
  ASSUME NEW q \in Seq(Ops), q # <<>>, NEW s, Suffix(s, q, 1),
         Lowering(q), q[1][1] \notin {"check", "home"}
  PROVE  Lowering(s)
<1>1. PICK j \in 1 .. Len(q) :
         /\ q[j][1] \in {"check", "home"}
         /\ \A i \in 1 .. (j - 1) :
              \/ q[i][1] \in Ports \cup Shifts \cup {"start"}
              \/ q[i][1] = "load" /\ q[i + 1][1] = "start"
  BY DEF Lowering
<1>2. j # 1 /\ Len(q) \in Nat  BY <1>1
<1>3. j > 1 /\ 1 \in 0 .. Len(q)  BY <1>1, <1>2
<1>4. PICK h : h = j - 1  OBVIOUS
<1>5. h \in 1 .. Len(s) /\ s[h] = q[j]  BY <1>1, <1>3, <1>4, SuffixAt
<1>6. ASSUME NEW i \in 1 .. (h - 1)
      PROVE  \/ s[i][1] \in Ports \cup Shifts \cup {"start"}
             \/ s[i][1] = "load" /\ s[i + 1][1] = "start"
  <2>1. /\ i + 1 \in 1 .. (j - 1) /\ i \in 1 .. Len(s) /\ i + 1 \in 1 .. Len(s)
    BY <1>4, <1>5, <1>6, <1>3
  <2>2. s[i] = q[i + 1] /\ s[i + 1] = q[(i + 1) + 1]  BY <2>1 DEF Suffix
  <2>. QED  BY <2>1, <2>2, <1>1
<1>. QED  BY <1>1, <1>5, <1>6 DEF Lowering

\* It is a test or a way home that is left.
LEMMA LoweringEnds ==
  ASSUME NEW q, Lowering(q)
  PROVE  Ends(q)
BY DEF Lowering, Ends

\* After the cursor has moved on or to the start of its row comes the test.
LEMMA LoweringAfterMove ==
  ASSUME NEW q \in Seq(Ops), q # <<>>, InOrder(q), NEW s, Suffix(s, q, 1),
         q[1][1] \in {"forward", "start"}
  PROVE  Lowering(s)
<1>1. Len(q) \in Nat /\ 1 \in 1 .. Len(q)  OBVIOUS
<1>2. SetsCursor(q, 1) /\ 1 + 5 <= Len(q) /\ q[1 + 5][1] = "check"
  BY <1>1 DEF InOrder, Follows, Checked, Moves, SureMoves
<1>3. /\ Len(s) = Len(q) - 1 /\ Len(q) >= 6
      /\ s[1] = q[2] /\ s[2] = q[3] /\ s[3] = q[4] /\ s[4] = q[5] /\ s[5] = q[6]
  BY <1>1, <1>2 DEF Suffix
<1>4. /\ s[1][1] \in Ports /\ s[2][1] \in Ports /\ s[3][1] \in Ports /\ s[4][1] \in Ports
      /\ s[5][1] = "check"
  BY <1>2, <1>3 DEF SetsCursor, Ports
<1>5. 5 \in 1 .. Len(s) /\ \A i \in 1 .. (5 - 1) : s[i][1] \in Ports
  BY <1>1, <1>3, <1>4
<1>. QED  BY <1>4, <1>5 DEF Lowering

\* After the cursor has moved down comes the move to the start, then the test.
LEMMA LoweringAfterDown ==
  ASSUME NEW q \in Seq(Ops), q # <<>>, InOrder(q), NEW s, Suffix(s, q, 1),
         q[1][1] = "down"
  PROVE  Lowering(s)
<1>1. Len(q) \in Nat /\ 1 \in 1 .. Len(q)  OBVIOUS
<1>2. SetsCursor(q, 1) /\ 1 + 6 <= Len(q) /\ q[1 + 5][1] = "load" /\ q[1 + 6][1] = "start"
  BY <1>1 DEF InOrder, Follows, Checked, Moves, SureMoves
<1>3. 7 \in 1 .. Len(q) /\ q[7][1] = "start"  BY <1>1, <1>2
<1>4. SetsCursor(q, 7) /\ 7 + 5 <= Len(q) /\ q[7 + 5][1] = "check"
  BY <1>3 DEF InOrder, Follows, Checked, Moves, SureMoves
<1>5. /\ Len(s) = Len(q) - 1 /\ Len(q) >= 12
      /\ s[1] = q[2] /\ s[2] = q[3] /\ s[3] = q[4] /\ s[4] = q[5] /\ s[5] = q[6]
      /\ s[6] = q[7] /\ s[7] = q[8] /\ s[8] = q[9] /\ s[9] = q[10] /\ s[10] = q[11]
      /\ s[11] = q[12]
  BY <1>1, <1>4 DEF Suffix
<1>6. /\ s[1][1] \in Ports /\ s[2][1] \in Ports /\ s[3][1] \in Ports /\ s[4][1] \in Ports
      /\ s[5][1] = "load" /\ s[5 + 1][1] = "start" /\ s[6][1] = "start"
      /\ s[7][1] \in Ports /\ s[8][1] \in Ports /\ s[9][1] \in Ports /\ s[10][1] \in Ports
      /\ s[11][1] = "check"
  BY <1>2, <1>4, <1>5 DEF SetsCursor, Ports
<1>7. \A i \in 1 .. (11 - 1) : \/ i = 1 \/ i = 2 \/ i = 3 \/ i = 4 \/ i = 5 \/ i = 6
                               \/ i = 7 \/ i = 8 \/ i = 9 \/ i = 10
  OBVIOUS
<1>8. \A i \in 1 .. (11 - 1) : \/ s[i][1] \in Ports \cup Shifts \cup {"start"}
                               \/ s[i][1] = "load" /\ s[i + 1][1] = "start"
  BY <1>6, <1>7
<1>9. 11 \in 1 .. Len(s)  BY <1>1, <1>5
<1>. QED  BY <1>6, <1>8, <1>9 DEF Lowering

\* After a test that finds the cursor off the screen comes the way home.
LEMMA LoweringAfterCheck ==
  ASSUME NEW q \in Seq(Ops), q # <<>>, InOrder(q), NEW s, Suffix(s, q, 1),
         q[1][1] = "check"
  PROVE  Lowering(s)
<1>1. Len(q) \in Nat /\ 1 \in 1 .. Len(q)  OBVIOUS
<1>2. /\ 1 + TTY_NUM_ROWS + 5 <= Len(q) /\ q[1 + TTY_NUM_ROWS + 1][1] = "home"
      /\ \A i \in 1 .. TTY_NUM_ROWS : q[1 + i][1] \in Shifts
  BY <1>1 DEF InOrder, Checked
<1>3. PICK j : j = TTY_NUM_ROWS + 1  OBVIOUS
<1>4. /\ j \in Nat /\ Len(s) = Len(q) - 1 /\ j \in 1 .. Len(s)
      /\ 1 + TTY_NUM_ROWS + 1 = j + 1
  BY <1>1, <1>2, <1>3, Sizes DEF Suffix
<1>5. s[j] = q[j + 1]  BY <1>4 DEF Suffix
<1>6. ASSUME NEW i \in 1 .. (j - 1) PROVE s[i][1] \in Shifts
  <2>1. i \in 1 .. TTY_NUM_ROWS /\ i \in 1 .. Len(s) /\ 1 + i = i + 1
    BY <1>3, <1>4, <1>6, Sizes
  <2>2. s[i] = q[i + 1]  BY <2>1 DEF Suffix
  <2>3. q[1 + i][1] \in Shifts  BY <1>2, <2>1
  <2>. QED  BY <2>1, <2>2, <2>3
<1>. QED  BY <1>2, <1>4, <1>5, <1>6 DEF Lowering

\* A program's next operation uses a register only if one was just loaded.
LEMMA NextUses ==
  ASSUME NEW q \in Seq(Ops), InOrder(q), NEW n \in 1 .. Len(q), q[n][1] # "load",
         NEW s, Suffix(s, q, n), s # <<>>
  PROVE  s[1][1] \notin Users
<1>1. /\ Len(q) \in Nat /\ n \in Nat /\ s \in Seq(Ops) /\ Len(s) \in Nat
      /\ Len(s) = Len(q) - n /\ Len(s) >= 1
  BY DEF Suffix
<1>2. n < Len(q) /\ 1 \in 1 .. Len(s) /\ 1 + n = n + 1  BY <1>1
<1>3. s[1] = q[n + 1]  BY <1>2 DEF Suffix
<1>. QED  BY <1>2, <1>3 DEF InOrder, Follows

-----------------------------------------------------------------------------
(***************************************************************************)
(* One operation of a thread keeps Writing.                                *)
(***************************************************************************)

\* What Execute does with each of the operations.
LEMMA Executes ==
  ASSUME NEW t, NEW op
  PROVE  /\ op[1] = "load" => Execute(t, op) = [t EXCEPT !.r = t.cursor_pos]
         /\ op[1] = "cell" => Execute(t, op) = [t EXCEPT !.fb[CellOf(t.r)] = op[2]]
         /\ op[1] = "forward" => Execute(t, op) = MoveTo(t, t.r + 1)
         /\ op[1] = "down" => Execute(t, op) = MoveTo(t, t.r + TTY_NUM_COLS)
         /\ op[1] = "start" => Execute(t, op) = MoveTo(t, t.r - (t.r % TTY_NUM_COLS))
         /\ op[1] = "back" =>
              Execute(t, op) = IF t.r # 0 THEN MoveTo(t, t.r - 1) ELSE Skip(t, set_cursor)
         /\ op[1] = "home" => Execute(t, op) = MoveTo(t, op[2] * TTY_NUM_COLS)
         /\ op[1] = "index" => Execute(t, op) = [t EXCEPT !.index = op[2]]
         /\ op[1] = "data" =>
              Execute(t, op) = [t EXCEPT !.location[t.index] =
                                  IF op[2] = "high" THEN (t.loc \div Byte) % Byte
                                  ELSE t.loc % Byte]
         /\ op[1] = "check" =>
              Execute(t, op) = IF t.cursor_pos >= op[2] THEN t ELSE Skip(t, Tail(tty_check))
         /\ op[1] = "copy" =>
              Execute(t, op) = [t EXCEPT !.fb = [c \in Cells |-> IF Row(c) = op[2] - 1
                                                                 THEN t.fb[c + TTY_NUM_COLS]
                                                                 ELSE t.fb[c]]]
         /\ op[1] = "blank" =>
              Execute(t, op) = [t EXCEPT !.fb = [c \in Cells |-> IF Row(c) = op[2]
                                                                 THEN Space ELSE t.fb[c]]]
BY DEF Execute

\* The limits: the screen, or a row more.
LEMMA Limits ==
  ASSUME NEW M \in {Size, Size + TTY_NUM_COLS}
  PROVE  M \in Nat /\ Size <= M
BY Sizes

\* The conditions on the state that an operation leaves, when a register that
\* is used next has not been loaded by it.
LEMMA Frame ==
  ASSUME NEW M \in {Size, Size + TTY_NUM_COLS}, NEW t, Writing(t, M),
         NEW e \in Devices, NEW n \in 1 .. Len(t.todo), Suffix(e.todo, t.todo, n),
         t.todo[n][1] # "load",
         e.cursor_pos < M + TTY_NUM_COLS,
         e.cursor_pos >= M => Lowering(e.todo),
         e.cursor_pos >= Size => Ends(e.todo),
         e.fb[Size + TTY_NUM_COLS] = Old
  PROVE  Writing(e, M)
<1>1. PICK q : q = t.todo  OBVIOUS
<1>2. q \in Seq(Ops) /\ InOrder(q)  BY <1>1 DEF Writing, Devices
<1>3. Len(q) \in Nat /\ n \in 0 .. Len(q) /\ n \in 1 .. Len(q)  BY <1>1, <1>2
<1>4. PICK s : s = e.todo  OBVIOUS
<1>5. Suffix(s, q, n)  BY <1>1, <1>4
<1>6. InOrder(s)  BY <1>2, <1>3, <1>5, SuffixInOrder
<1>7. s # <<>> => s[1][1] \notin Users  BY <1>1, <1>2, <1>3, <1>5, NextUses
<1>8. Registers(e, M)  BY <1>4, <1>7 DEF Registers, Users
<1>. QED  BY <1>4, <1>6, <1>8 DEF Writing

\* An operation that leaves the cursor where it is.
LEMMA FrameUnmoved ==
  ASSUME NEW M \in {Size, Size + TTY_NUM_COLS}, NEW t, Writing(t, M), t.todo # <<>>,
         NEW e \in Devices, Suffix(e.todo, t.todo, 1),
         t.todo[1][1] \notin {"load", "check", "home"},
         e.cursor_pos = t.cursor_pos, e.fb[Size + TTY_NUM_COLS] = Old
  PROVE  Writing(e, M)
<1>1. PICK q : q = t.todo  OBVIOUS
<1>2. q \in Seq(Ops) /\ InOrder(q) /\ q # <<>>  BY <1>1 DEF Writing, Devices
<1>3. Len(q) \in Nat /\ 1 \in 1 .. Len(q)  BY <1>2
<1>4. PICK s : s = e.todo  OBVIOUS
<1>5. Suffix(s, q, 1)  BY <1>1, <1>4
<1>6. Lowering(q) => Lowering(s)  BY <1>1, <1>2, <1>5, LoweringTail
<1>7. Ends(q) => Ends(s)  BY <1>1, <1>2, <1>5, EndsTail
<1>8. /\ e.cursor_pos < M + TTY_NUM_COLS /\ (e.cursor_pos >= M => Lowering(e.todo))
      /\ e.cursor_pos >= Size => Ends(e.todo)
  BY <1>1, <1>4, <1>6, <1>7 DEF Writing
<1>9. 1 \in 1 .. Len(t.todo)  BY <1>1, <1>3
<1>. QED  BY <1>8, <1>9, Frame

\* What runs an operation: the rest of the program is left.
Rest(t) == [t EXCEPT !.todo = Tail(@)]

\* The rest of a program.
LEMMA RestIs ==
  ASSUME NEW M, NEW t, Writing(t, M), t.todo # <<>>
  PROVE  /\ Rest(t) \in Devices /\ Rest(t).todo = Tail(t.todo)
         /\ Suffix(Tail(t.todo), t.todo, 1) /\ Head(t.todo) = t.todo[1]
         /\ t.todo \in Seq(Ops) /\ InOrder(t.todo) /\ 1 \in 1 .. Len(t.todo)
         /\ Len(t.todo) \in Nat
         /\ t.todo[1] \in Ops /\ OpKind(t.todo[1])
         /\ Rest(t).fb = t.fb /\ Rest(t).cursor_pos = t.cursor_pos /\ Rest(t).index = t.index
         /\ Rest(t).location = t.location /\ Rest(t).r = t.r /\ Rest(t).loc = t.loc
<1>1. t \in Devices /\ t.todo \in Seq(Ops) /\ InOrder(t.todo)  BY DEF Writing, Devices
<1>2. /\ Suffix(Tail(t.todo), t.todo, 1) /\ Head(t.todo) = t.todo[1] /\ Len(t.todo) \in Nat
      /\ 1 \in 1 .. Len(t.todo) /\ t.todo[1] \in Ops
  BY <1>1, SuffixTail
<1>3. OpKind(t.todo[1])  BY <1>2, OpKinds
<1>4. Tail(t.todo) \in Seq(Ops)  BY <1>2 DEF Suffix
<1>. QED  BY <1>1, <1>2, <1>3, <1>4 DEF Rest, Devices

\* load: the register that is used next has the position, and while the cursor
\* is off the screen only the move to the start of the row uses it.
LEMMA StepLoad ==
  ASSUME NEW M \in {Size, Size + TTY_NUM_COLS}, NEW t, Writing(t, M), t.todo # <<>>,
         t.todo[1][1] = "load"
  PROVE  Writing(Execute(Rest(t), Head(t.todo)), M)
<1>1. PICK q : q = t.todo  OBVIOUS
<1>2. PICK u : u = Rest(t)  OBVIOUS
<1>3. PICK e : e = Execute(u, q[1])  OBVIOUS
<1>4. e = [u EXCEPT !.r = u.cursor_pos]  BY <1>1, <1>3, Executes
<1>5. /\ u \in Devices /\ u.todo = Tail(q) /\ Suffix(Tail(q), q, 1) /\ Head(q) = q[1]
      /\ q \in Seq(Ops) /\ InOrder(q) /\ 1 \in 1 .. Len(q) /\ Len(q) \in Nat
      /\ u.fb = t.fb /\ u.cursor_pos = t.cursor_pos
  BY <1>1, <1>2, RestIs
<1>6. /\ e \in Devices /\ e.todo = u.todo /\ e.fb = t.fb /\ e.cursor_pos = t.cursor_pos
      /\ e.r = t.cursor_pos /\ t.cursor_pos \in Nat
  BY <1>4, <1>5 DEF Devices
<1>7. PICK s : s = e.todo  OBVIOUS
<1>8. Suffix(s, q, 1)  BY <1>5, <1>6, <1>7
<1>9. InOrder(s)  BY <1>5, <1>8, SuffixInOrder
<1>10. Lowering(q) => Lowering(s)  BY <1>1, <1>5, <1>8, LoweringTail
<1>11. Ends(q) => Ends(s)  BY <1>1, <1>5, <1>8, EndsTail
<1>12. s # <<>> => s[1] = q[2]  BY <1>8 DEF Suffix
<1>13. Lowering(q) => q[2][1] = "start"
  <2>1. SUFFICES ASSUME Lowering(q) PROVE q[2][1] = "start"  OBVIOUS
  <2>2. PICK j \in 1 .. Len(q) :
          /\ q[j][1] \in {"check", "home"}
          /\ \A i \in 1 .. (j - 1) :
               \/ q[i][1] \in Ports \cup Shifts \cup {"start"}
               \/ q[i][1] = "load" /\ q[i + 1][1] = "start"
    BY <2>1 DEF Lowering
  <2>3. j # 1  BY <1>1, <2>2
  <2>4. 1 \in 1 .. (j - 1)  BY <2>2, <2>3, <1>5
  <2>. QED  BY <1>1, <2>2, <2>4 DEF Ports, Shifts
<1>14. Registers(e, M)
  <2>1. SUFFICES ASSUME s # <<>>
                 PROVE  /\ s[1][1] \in LowUsers => e.r < M
                        /\ s[1][1] = "start" => e.r < M + TTY_NUM_COLS
    BY <1>7 DEF Registers
  <2>2. t.cursor_pos < M + TTY_NUM_COLS /\ (t.cursor_pos >= M => Lowering(q))
    BY <1>1 DEF Writing
  <2>3. s[1][1] \in LowUsers => t.cursor_pos < M
    <3>1. s[1][1] \in LowUsers => ~(t.cursor_pos >= M)  BY <2>1, <2>2, <1>12, <1>13 DEF LowUsers
    <3>. QED  BY <3>1, <1>6, Limits
  <2>. QED  BY <2>2, <2>3, <1>6
<1>15. /\ e.cursor_pos < M + TTY_NUM_COLS /\ (e.cursor_pos >= M => Lowering(s))
       /\ (e.cursor_pos >= Size => Ends(s)) /\ e.fb[Size + TTY_NUM_COLS] = Old
  BY <1>1, <1>6, <1>10, <1>11 DEF Writing
<1>16. Writing(e, M)  BY <1>6, <1>7, <1>9, <1>14, <1>15 DEF Writing
<1>. QED  BY <1>1, <1>2, <1>3, <1>5, <1>16

\* A cell is on the screen or in the row below, a port is not the screen.
LEMMA StepInPlace ==
  ASSUME NEW M \in {Size, Size + TTY_NUM_COLS}, NEW t, Writing(t, M), t.todo # <<>>,
         t.todo[1][1] \in {"cell", "index", "data"}
  PROVE  Writing(Execute(Rest(t), Head(t.todo)), M)
<1>1. PICK q : q = t.todo  OBVIOUS
<1>2. PICK u : u = Rest(t)  OBVIOUS
<1>3. PICK op : op = q[1]  OBVIOUS
<1>4. PICK e : e = Execute(u, op)  OBVIOUS
<1>5. /\ u \in Devices /\ u.todo = Tail(q) /\ Suffix(Tail(q), q, 1) /\ Head(q) = op
      /\ u.fb = t.fb /\ u.cursor_pos = t.cursor_pos /\ u.r = t.r /\ OpKind(op)
  BY <1>1, <1>2, <1>3, RestIs
<1>6. t.fb[Size + TTY_NUM_COLS] = Old  BY DEF Writing
<1>7. CASE op[1] = "cell"
  <2>1. e = [u EXCEPT !.fb[CellOf(u.r)] = op[2]]  BY <1>7, <1>4, Executes
  <2>2. op[2] \in Glyphs  BY <1>7, <1>5 DEF OpKind
  <2>3. t.r < M /\ t.r \in Nat
    BY <1>1, <1>3, <1>7 DEF Writing, Registers, LowUsers, Devices
  <2>4. u.r \in Nat /\ u.r < Size + TTY_NUM_COLS  BY <2>3, <1>5, Sizes
  <2>5. u.r \in Cells /\ u.r # Size + TTY_NUM_COLS /\ CellOf(u.r) = u.r
    BY <2>4, Sizes DEF Cells, CellOf
  <2>6. u.fb \in [Cells -> Glyphs]  BY <1>5 DEF Devices
  <2>7. /\ [u.fb EXCEPT ![u.r] = op[2]] \in [Cells -> Glyphs]
        /\ [u.fb EXCEPT ![u.r] = op[2]][Size + TTY_NUM_COLS] = Old
    BY <2>2, <2>5, <2>6, <1>5, <1>6, Sizes
  <2>8. /\ e \in Devices /\ e.todo = u.todo /\ e.cursor_pos = u.cursor_pos
        /\ e.fb[Size + TTY_NUM_COLS] = Old
    BY <2>1, <2>5, <2>7, <1>5 DEF Devices
  <2>9. Suffix(e.todo, t.todo, 1) /\ e.cursor_pos = t.cursor_pos  BY <2>8, <1>1, <1>5
  <2>10. t.todo[1][1] \notin {"load", "check", "home"}  BY <1>1, <1>3, <1>7
  <2>11. Writing(e, M)  BY <2>8, <2>9, <2>10, FrameUnmoved
  <2>. QED  BY <2>11, <1>1, <1>2, <1>4, <1>5
<1>8. CASE op[1] = "index"
  <2>1. e = [u EXCEPT !.index = op[2]]  BY <1>8, <1>4, Executes
  <2>2. op[2] \in Sides  BY <1>8, <1>5 DEF OpKind
  <2>8. /\ e \in Devices /\ e.todo = u.todo /\ e.cursor_pos = u.cursor_pos
        /\ e.fb[Size + TTY_NUM_COLS] = Old
    BY <2>1, <2>2, <1>5, <1>6 DEF Devices
  <2>9. Suffix(e.todo, t.todo, 1) /\ e.cursor_pos = t.cursor_pos  BY <2>8, <1>1, <1>5
  <2>10. t.todo[1][1] \notin {"load", "check", "home"}  BY <1>1, <1>3, <1>8
  <2>11. Writing(e, M)  BY <2>8, <2>9, <2>10, FrameUnmoved
  <2>. QED  BY <2>11, <1>1, <1>2, <1>4, <1>5
<1>9. CASE op[1] = "data"
  <2>1. PICK v : v = IF op[2] = "high" THEN (u.loc \div Byte) % Byte ELSE u.loc % Byte
    OBVIOUS
  <2>2. e = [u EXCEPT !.location[u.index] = v]  BY <1>9, <1>4, <2>1, Executes
  <2>3. u.loc \in Nat  BY <1>5 DEF Devices
  <2>4. v \in 0 .. (Byte - 1)  BY <2>1, <2>3, Sizes
  <2>5. u.location \in [Sides -> 0 .. (Byte - 1)]  BY <1>5 DEF Devices
  <2>6. [u.location EXCEPT ![u.index] = v] \in [Sides -> 0 .. (Byte - 1)]  BY <2>4, <2>5
  <2>8. /\ e \in Devices /\ e.todo = u.todo /\ e.cursor_pos = u.cursor_pos
        /\ e.fb[Size + TTY_NUM_COLS] = Old
    BY <2>2, <2>6, <1>5, <1>6 DEF Devices
  <2>9. Suffix(e.todo, t.todo, 1) /\ e.cursor_pos = t.cursor_pos  BY <2>8, <1>1, <1>5
  <2>10. t.todo[1][1] \notin {"load", "check", "home"}  BY <1>1, <1>3, <1>9
  <2>11. Writing(e, M)  BY <2>8, <2>9, <2>10, FrameUnmoved
  <2>. QED  BY <2>11, <1>1, <1>2, <1>4, <1>5
<1>. QED  BY <1>1, <1>3, <1>7, <1>8, <1>9

\* The cells of a row on the screen end before the next row.
LEMMA RowCells ==
  ASSUME NEW i \in 0 .. (TTY_NUM_ROWS - 1), NEW c \in Cells, Row(c) = i
  PROVE  c < Size /\ c < (i * TTY_NUM_COLS) + TTY_NUM_COLS
<1>1. c \in Nat /\ TTY_NUM_COLS \in Nat /\ TTY_NUM_COLS >= 1 /\ i \in Nat  BY Sizes DEF Cells
<1>2. PICK w : w = TTY_NUM_COLS  OBVIOUS
<1>3. c \div w = i /\ w \in Nat /\ w >= 1  BY <1>1, <1>2 DEF Row
<1>4. c = (w * (c \div w)) + (c % w) /\ c % w < w /\ c % w \in Nat
  BY <1>1, <1>3
<1>5. c < (i * w) + w /\ i * w \in Nat  BY <1>1, <1>3, <1>4
<1>6. (i * w) + w <= Size /\ Size \in Nat  BY <1>2, RowEnds, Sizes
<1>. QED  BY <1>1, <1>2, <1>3, <1>5, <1>6

\* Scrolling and clearing stay on the screen.
LEMMA StepShift ==
  ASSUME NEW M \in {Size, Size + TTY_NUM_COLS}, NEW t, Writing(t, M), t.todo # <<>>,
         t.todo[1][1] \in {"copy", "blank"}
  PROVE  Writing(Execute(Rest(t), Head(t.todo)), M)
<1>1. PICK q : q = t.todo  OBVIOUS
<1>2. PICK u : u = Rest(t)  OBVIOUS
<1>3. PICK op : op = q[1]  OBVIOUS
<1>4. PICK e : e = Execute(u, op)  OBVIOUS
<1>5. /\ u \in Devices /\ u.todo = Tail(q) /\ Suffix(Tail(q), q, 1) /\ Head(q) = op
      /\ u.fb = t.fb /\ u.cursor_pos = t.cursor_pos /\ OpKind(op)
  BY <1>1, <1>2, <1>3, RestIs
<1>6. u.fb[Size + TTY_NUM_COLS] = Old  BY <1>5 DEF Writing
<1>7. PICK far : far = Size + TTY_NUM_COLS  OBVIOUS
<1>8. far \in Cells /\ far \in Nat /\ ~(far < Size) /\ u.fb[far] = Old /\ u.fb \in [Cells -> Glyphs]
  BY <1>5, <1>6, <1>7, Sizes DEF Devices
<1>9. SUFFICES ASSUME NEW f \in [Cells -> Glyphs], f[far] = Old, e = [u EXCEPT !.fb = f]
               PROVE  Writing(e, M)
  <2>1. ASSUME NEW f \in [Cells -> Glyphs], f[far] = Old, e = [u EXCEPT !.fb = f]
        PROVE  Writing(Execute(Rest(t), Head(t.todo)), M)
    <3>1. Writing(e, M)  BY <1>9, <2>1
    <3>. QED  BY <3>1, <1>1, <1>2, <1>4, <1>5
  <2>2. CASE op[1] = "copy"
    <3>1. PICK f : f = [c \in Cells |-> IF Row(c) = op[2] - 1 THEN u.fb[c + TTY_NUM_COLS]
                                        ELSE u.fb[c]]
      OBVIOUS
    <3>2. e = [u EXCEPT !.fb = f]  BY <2>2, <3>1, <1>4, Executes
    <3>3. op[2] \in 1 .. (TTY_NUM_ROWS - 1)  BY <2>2, <1>5 DEF OpKind
    <3>4. op[2] - 1 \in 0 .. (TTY_NUM_ROWS - 1)  BY <3>3, Sizes
    <3>5. PICK i : i = op[2] - 1  OBVIOUS
    <3>6. i \in 0 .. (TTY_NUM_ROWS - 1)  BY <3>4, <3>5
    <3>7. ASSUME NEW c \in Cells, Row(c) = i PROVE c + TTY_NUM_COLS \in Cells
      <4>1. c < Size  BY <3>6, <3>7, RowCells
      <4>. QED  BY <4>1, <3>7, Sizes DEF Cells
    <3>8. Row(far) # i  BY <3>6, <1>8, RowCells
    <3>9. f \in [Cells -> Glyphs]  BY <3>1, <3>5, <3>7, <1>8
    <3>10. f[far] = Old  BY <3>1, <3>5, <3>8, <1>8
    <3>. QED  BY <3>2, <3>9, <3>10, <2>1
  <2>3. CASE op[1] = "blank"
    <3>1. PICK f : f = [c \in Cells |-> IF Row(c) = op[2] THEN Space ELSE u.fb[c]]  OBVIOUS
    <3>2. e = [u EXCEPT !.fb = f]  BY <2>3, <3>1, <1>4, Executes
    <3>3. op[2] \in 0 .. (TTY_NUM_ROWS - 1)  BY <2>3, <1>5 DEF OpKind
    <3>4. Row(far) # op[2]  BY <3>3, <1>8, RowCells
    <3>5. Space \in Glyphs  BY DEF Glyphs, Space, Newline, Tab, Backspace
    <3>6. f \in [Cells -> Glyphs]  BY <3>1, <3>5, <1>8
    <3>7. f[far] = Old  BY <3>1, <3>4, <1>8
    <3>. QED  BY <3>2, <3>6, <3>7, <2>1
  <2>. QED  BY <1>1, <1>3, <2>2, <2>3
<1>10. /\ e \in Devices /\ e.todo = u.todo /\ e.cursor_pos = u.cursor_pos
       /\ e.fb = f
  BY <1>9, <1>5 DEF Devices
<1>11. Suffix(e.todo, t.todo, 1) /\ e.cursor_pos = t.cursor_pos  BY <1>10, <1>1, <1>5
<1>12. t.todo[1][1] \notin {"load", "check", "home"}  OBVIOUS
<1>13. e.fb[Size + TTY_NUM_COLS] = Old  BY <1>7, <1>9, <1>10
<1>. QED  BY <1>10, <1>11, <1>12, <1>13, FrameUnmoved

\* Moving the cursor forward, down or to the start of its row takes it off the
\* screen by less than a row, and what follows brings it back.
LEMMA StepMove ==
  ASSUME NEW M \in {Size, Size + TTY_NUM_COLS}, NEW t, Writing(t, M), t.todo # <<>>,
         t.todo[1][1] \in SureMoves
  PROVE  Writing(Execute(Rest(t), Head(t.todo)), M)
<1>1. PICK q : q = t.todo  OBVIOUS
<1>2. PICK u : u = Rest(t)  OBVIOUS
<1>3. PICK op : op = q[1]  OBVIOUS
<1>4. PICK e : e = Execute(u, op)  OBVIOUS
<1>5. /\ u \in Devices /\ u.todo = Tail(q) /\ Suffix(Tail(q), q, 1) /\ Head(q) = op
      /\ q \in Seq(Ops) /\ InOrder(q) /\ 1 \in 1 .. Len(q)
      /\ u.fb = t.fb /\ u.r = t.r
  BY <1>1, <1>2, <1>3, RestIs
<1>6. t.fb[Size + TTY_NUM_COLS] = Old /\ t.r \in Nat /\ Registers(t, M)
  BY DEF Writing, Devices
<1>7. M \in Nat /\ TTY_NUM_COLS \in Nat /\ TTY_NUM_COLS >= 1 /\ Size <= M /\ Size \in Nat
  BY Limits, Sizes
<1>8. PICK r : r = t.r  OBVIOUS
<1>9. r \in Nat /\ u.r = r  BY <1>5, <1>6, <1>8
<1>10. PICK l \in Nat : l < M + TTY_NUM_COLS /\ e = MoveTo(u, l)
  <2>1. CASE op[1] = "forward"
    <3>1. r < M  BY <2>1, <1>1, <1>3, <1>6, <1>8 DEF Registers, LowUsers
    <3>2. e = MoveTo(u, r + 1)  BY <2>1, <1>4, <1>9, Executes
    <3>3. r + 1 \in Nat /\ r + 1 < M + TTY_NUM_COLS
      <4>1. r + 1 <= M  BY <3>1, <1>7, <1>9
      <4>2. CASE TTY_NUM_COLS = 1  BY <4>2, <3>1, <1>9, <1>7
      <4>3. CASE TTY_NUM_COLS # 1  BY <4>3, <3>1, <1>9, <1>7
      <4>. QED  BY <4>2, <4>3
    <3>. QED  BY <3>2, <3>3
  <2>2. CASE op[1] = "down"
    <3>1. r < M  BY <2>2, <1>1, <1>3, <1>6, <1>8 DEF Registers, LowUsers
    <3>2. e = MoveTo(u, r + TTY_NUM_COLS)  BY <2>2, <1>4, <1>9, Executes
    <3>3. r + TTY_NUM_COLS \in Nat /\ r + TTY_NUM_COLS < M + TTY_NUM_COLS
      BY <3>1, <1>7, <1>9
    <3>. QED  BY <3>2, <3>3
  <2>3. CASE op[1] = "start"
    <3>1. r < M + TTY_NUM_COLS  BY <2>3, <1>1, <1>3, <1>6, <1>8 DEF Registers
    <3>2. e = MoveTo(u, r - (r % TTY_NUM_COLS))  BY <2>3, <1>4, <1>9, Executes
    <3>3. PICK w : w = TTY_NUM_COLS  OBVIOUS
    <3>4. r = (w * (r \div w)) + (r % w) /\ r % w \in Nat /\ w * (r \div w) \in Nat
      BY <3>3, <1>7, <1>9
    <3>5. r - (r % w) \in Nat /\ r - (r % w) <= r  BY <3>4, <1>9
    <3>6. r - (r % w) < M + TTY_NUM_COLS  BY <3>1, <3>5, <1>7, <1>9
    <3>. QED  BY <3>2, <3>3, <3>5, <3>6
  <2>. QED  BY <1>1, <1>3, <2>1, <2>2, <2>3 DEF SureMoves
<1>11. /\ e \in Devices /\ e.todo = u.todo /\ e.cursor_pos = l /\ e.fb = t.fb
  BY <1>10, <1>5 DEF MoveTo, Devices
<1>12. PICK s : s = e.todo  OBVIOUS
<1>13. Suffix(s, q, 1)  BY <1>5, <1>11, <1>12
<1>14. Lowering(s)
  BY <1>1, <1>3, <1>5, <1>13, LoweringAfterMove, LoweringAfterDown DEF SureMoves
<1>15. Ends(s)  BY <1>14, LoweringEnds
<1>16. op[1] # "load"  BY <1>1, <1>3 DEF SureMoves
<1>17. Writing(e, M)
  <2>1. /\ 1 \in 1 .. Len(t.todo) /\ Suffix(e.todo, t.todo, 1) /\ t.todo[1][1] # "load"
        /\ e.cursor_pos < M + TTY_NUM_COLS
        /\ (e.cursor_pos >= M => Lowering(e.todo)) /\ (e.cursor_pos >= Size => Ends(e.todo))
        /\ e.fb[Size + TTY_NUM_COLS] = Old
    BY <1>1, <1>3, <1>5, <1>6, <1>10, <1>11, <1>12, <1>13, <1>14, <1>15, <1>16
  <2>. QED  BY <2>1, <1>11, Frame
<1>. QED  BY <1>17, <1>1, <1>2, <1>4, <1>5

\* The cursor goes home to the start of a row of the screen.
LEMMA StepHome ==
  ASSUME NEW M \in {Size, Size + TTY_NUM_COLS}, NEW t, Writing(t, M), t.todo # <<>>,
         t.todo[1][1] = "home"
  PROVE  Writing(Execute(Rest(t), Head(t.todo)), M)
<1>1. PICK q : q = t.todo  OBVIOUS
<1>2. PICK u : u = Rest(t)  OBVIOUS
<1>3. PICK op : op = q[1]  OBVIOUS
<1>4. PICK e : e = Execute(u, op)  OBVIOUS
<1>5. /\ u \in Devices /\ u.todo = Tail(q) /\ Suffix(Tail(q), q, 1) /\ Head(q) = op
      /\ q \in Seq(Ops) /\ InOrder(q) /\ 1 \in 1 .. Len(q)
      /\ u.fb = t.fb /\ OpKind(op)
  BY <1>1, <1>2, <1>3, RestIs
<1>6. PICK l : l = op[2] * TTY_NUM_COLS  OBVIOUS
<1>7. e = MoveTo(u, l)  BY <1>1, <1>3, <1>4, <1>6, Executes
<1>8. op[2] \in 0 .. (TTY_NUM_ROWS - 1)  BY <1>1, <1>3, <1>5 DEF OpKind
<1>9. l \in Nat /\ l + TTY_NUM_COLS <= Size  BY <1>6, <1>8, RowEnds
<1>10. /\ l < Size /\ ~(l >= Size) /\ ~(l >= M) /\ l < M + TTY_NUM_COLS
  BY <1>9, Limits, Sizes
<1>11. e \in Devices /\ e.todo = u.todo /\ e.cursor_pos = l /\ e.fb = t.fb
  BY <1>5, <1>7, <1>9 DEF MoveTo, Devices
<1>12. e.fb[Size + TTY_NUM_COLS] = Old  BY <1>11 DEF Writing
<1>13. 1 \in 1 .. Len(t.todo) /\ Suffix(e.todo, t.todo, 1) /\ t.todo[1][1] # "load"
  BY <1>1, <1>3, <1>5, <1>11
<1>14. Writing(e, M)  BY <1>10, <1>11, <1>12, <1>13, Frame
<1>. QED  BY <1>14, <1>1, <1>2, <1>4, <1>5

\* e is u without the first operations of a program.
SkipTo(e, u, q, n) ==
  /\ e \in Devices /\ Suffix(e.todo, q, n) /\ e.cursor_pos = u.cursor_pos
  /\ e.fb = u.fb /\ e.location = u.location

\* A branch that is not taken leaves a suffix of the program.
LEMMA SkipIs ==
  ASSUME NEW q \in Seq(Ops), q # <<>>, NEW u \in Devices, u.todo = Tail(q),
         NEW b, NEW n, Len(b) = n - 1, n \in 1 .. Len(q)
  PROVE  SkipTo(Skip(u, b), u, q, n)
<1>1. PICK p : p = Tail(q)  OBVIOUS
<1>2. Suffix(p, q, 1) /\ Len(q) \in Nat /\ Len(q) >= 1  BY <1>1, SuffixTail
<1>3. PICK m : m = n - 1  OBVIOUS
<1>4. p \in Seq(Ops) /\ Len(p) \in Nat /\ Len(p) = Len(q) - 1  BY <1>2 DEF Suffix
<1>5. m \in Nat /\ m \in 0 .. Len(p) /\ n = m + 1  BY <1>2, <1>3, <1>4
<1>6. PICK s : s = SubSeq(p, m + 1, Len(p))  OBVIOUS
<1>7. Suffix(s, p, m)  BY <1>4, <1>5, <1>6, SuffixOf
<1>8. Suffix(s, q, n)
  <2>1. s \in Seq(Ops) /\ Len(s) \in Nat /\ Len(s) = Len(p) - m  BY <1>7 DEF Suffix
  <2>2. Len(s) = Len(q) - n  BY <2>1, <1>2, <1>4, <1>5
  <2>3. ASSUME NEW i \in 1 .. Len(s) PROVE s[i] = q[i + n]
    <3>1. s[i] = p[i + m]  BY <1>7 DEF Suffix
    <3>2. i + m \in 1 .. Len(p) /\ (i + m) + 1 = i + n  BY <2>1, <2>3, <1>4, <1>5
    <3>3. p[i + m] = q[(i + m) + 1]  BY <3>2, <1>2 DEF Suffix
    <3>. QED  BY <3>1, <3>2, <3>3
  <2>. QED  BY <2>1, <2>2, <2>3 DEF Suffix
<1>9. s \in Seq(Ops)  BY <1>8 DEF Suffix
<1>10. Skip(u, b) = [u EXCEPT !.todo = s]  BY <1>1, <1>3, <1>6 DEF Skip, Devices
<1>. QED  BY <1>8, <1>9, <1>10 DEF Devices, SkipTo

\* move_cursor_back is called with the cursor on the screen or, at location 0,
\* not carried out; the test is still to come.
LEMMA StepBack ==
  ASSUME NEW M \in {Size, Size + TTY_NUM_COLS}, NEW t, Writing(t, M), t.todo # <<>>,
         t.todo[1][1] = "back"
  PROVE  Writing(Execute(Rest(t), Head(t.todo)), M)
<1>1. PICK q : q = t.todo  OBVIOUS
<1>2. PICK u : u = Rest(t)  OBVIOUS
<1>3. PICK op : op = q[1]  OBVIOUS
<1>4. PICK e : e = Execute(u, op)  OBVIOUS
<1>5. /\ u \in Devices /\ u.todo = Tail(q) /\ Suffix(Tail(q), q, 1) /\ Head(q) = op
      /\ q \in Seq(Ops) /\ InOrder(q) /\ 1 \in 1 .. Len(q) /\ Len(q) \in Nat
      /\ u.fb = t.fb /\ u.cursor_pos = t.cursor_pos /\ u.r = t.r /\ q # <<>>
  BY <1>1, <1>2, <1>3, RestIs
<1>6. Follows(q, 1) /\ Checked(q, 1)  BY <1>5 DEF InOrder
<1>7. SetsCursor(q, 1) /\ 8 <= Len(q) /\ q[8][1] = "check"
  BY <1>1, <1>6 DEF Follows, Checked, Moves
<1>8. ASSUME NEW n \in {1, 5}, NEW s, Suffix(s, q, n) PROVE Ends(s)
  <2>1. n \in 0 .. Len(q) /\ 8 \in 1 .. Len(q) /\ 8 > n  BY <1>7, <1>5, <1>8
  <2>2. PICK j : j = 8 - n  OBVIOUS
  <2>3. j \in 1 .. Len(s) /\ s[j] = q[8]  BY <2>1, <2>2, <1>5, <1>8, SuffixAt
  <2>. QED  BY <2>3, <1>7 DEF Ends
<1>9. /\ t.fb[Size + TTY_NUM_COLS] = Old /\ t.r \in Nat /\ t.r < M /\ t.cursor_pos \in Nat
      /\ (t.cursor_pos >= M => Lowering(q))
  BY <1>1 DEF Writing, Devices, Registers, LowUsers
<1>10. e = IF u.r # 0 THEN MoveTo(u, u.r - 1) ELSE Skip(u, set_cursor)
  BY <1>1, <1>3, <1>4, Executes
<1>11. M \in Nat /\ TTY_NUM_COLS \in Nat /\ Size <= M /\ Size \in Nat /\ TTY_NUM_COLS >= 1
  BY Limits, Sizes
<1>12. CASE u.r # 0
  <2>1. PICK l : l = u.r - 1  OBVIOUS
  <2>2. l \in Nat /\ l < M /\ ~(l >= M) /\ l < M + TTY_NUM_COLS
    BY <2>1, <1>5, <1>9, <1>11, <1>12
  <2>3. e = MoveTo(u, l)  BY <2>1, <1>10, <1>12
  <2>4. e \in Devices /\ e.todo = u.todo /\ e.cursor_pos = l /\ e.fb = t.fb
    BY <2>2, <2>3, <1>5 DEF MoveTo, Devices
  <2>5. Suffix(e.todo, q, 1)  BY <2>4, <1>5
  <2>6. Ends(e.todo)  BY <2>5, <1>8
  <2>7. 1 \in 1 .. Len(t.todo) /\ Suffix(e.todo, t.todo, 1) /\ t.todo[1][1] # "load"
    BY <1>1, <1>5, <2>5
  <2>8. Writing(e, M)  BY <2>2, <2>4, <2>6, <2>7, <1>9, Frame
  <2>. QED  BY <2>8, <1>1, <1>2, <1>4, <1>5
<1>13. CASE u.r = 0
  <2>1. e = Skip(u, set_cursor)  BY <1>10, <1>13
  <2>2. Len(set_cursor) = 5 - 1  BY DEF set_cursor
  <2>3. 5 \in 1 .. Len(q)  BY <1>5, <1>7
  <2>4. PICK b : b = set_cursor  OBVIOUS
  <2>5. /\ e \in Devices /\ Suffix(e.todo, q, 5) /\ e.cursor_pos = u.cursor_pos /\ e.fb = u.fb
    <3>1. SkipTo(e, u, q, 5)  BY <2>1, <2>2, <2>3, <2>4, <1>5, SkipIs
    <3>. QED  BY <3>1 DEF SkipTo
  <2>6. Ends(e.todo)  BY <2>5, <1>8
  <2>7. ~(t.cursor_pos >= M)
    <3>1. SUFFICES ASSUME Lowering(q) PROVE FALSE  BY <1>9
    <3>2. PICK j \in 1 .. Len(q) :
            /\ q[j][1] \in {"check", "home"}
            /\ \A i \in 1 .. (j - 1) :
                 \/ q[i][1] \in Ports \cup Shifts \cup {"start"}
                 \/ q[i][1] = "load" /\ q[i + 1][1] = "start"
      BY <3>1 DEF Lowering
    <3>3. 1 \in 1 .. (j - 1)  BY <3>2, <1>1, <1>5
    <3>. QED  BY <1>1, <3>2, <3>3 DEF Ports, Shifts
  <2>8. e.cursor_pos < M + TTY_NUM_COLS /\ ~(e.cursor_pos >= M)
    BY <2>5, <2>7, <1>5, <1>9, <1>11
  <2>9. q[5][1] # "load"  BY <1>7 DEF SetsCursor
  <2>10. 5 \in 1 .. Len(t.todo) /\ Suffix(e.todo, t.todo, 5) /\ t.todo[5][1] # "load"
    BY <1>1, <2>3, <2>5, <2>9
  <2>11. e.fb[Size + TTY_NUM_COLS] = Old  BY <2>5, <1>5, <1>9
  <2>12. Writing(e, M)  BY <2>5, <2>6, <2>8, <2>10, <2>11, Frame
  <2>. QED  BY <2>12, <1>1, <1>2, <1>4, <1>5
<1>. QED  BY <1>12, <1>13

\* A sequence given by its elements.
LEMMA Listed ==
  ASSUME NEW n \in Nat, NEW S, NEW f \in [1 .. n -> S]
  PROVE  f \in Seq(S) /\ Len(f) = n /\ DOMAIN f = 1 .. n
OBVIOUS

\* q is a and then b.
Join(q, a, b) ==
  /\ q \in Seq(Ops) /\ Len(a) \in Nat /\ Len(b) \in Nat /\ Len(q) = Len(a) + Len(b)
  /\ \A i \in 1 .. Len(a) : q[i] = a[i]
  /\ \A i \in 1 .. Len(b) : q[Len(a) + i] = b[i]

\* Two programs, one after the other.
LEMMA Joined ==
  ASSUME NEW a \in Seq(Ops), NEW b \in Seq(Ops)
  PROVE  Join(a \o b, a, b)
<1>1. Len(a) \in Nat /\ Len(b) \in Nat /\ a \o b \in Seq(Ops) /\ Len(a \o b) = Len(a) + Len(b)
  OBVIOUS
<1>2. \A i \in 1 .. Len(a) : (a \o b)[i] = a[i]  OBVIOUS
<1>3. ASSUME NEW i \in 1 .. Len(b) PROVE (a \o b)[Len(a) + i] = b[i]  OBVIOUS
<1>. QED  BY <1>1, <1>2, <1>3 DEF Join

\* set_cursor is made of operations.
LEMMA SetCursorIs ==
  /\ set_cursor \in Seq(Ops) /\ Len(set_cursor) = 4
  /\ set_cursor[1] = <<"index", "high">> /\ set_cursor[2] = <<"data", "high">>
  /\ set_cursor[3] = <<"index", "low">> /\ set_cursor[4] = <<"data", "low">>
<1>1. /\ <<"index", "high">> \in Ops /\ <<"data", "high">> \in Ops
      /\ <<"index", "low">> \in Ops /\ <<"data", "low">> \in Ops
  BY DEF Ops, Sides
<1>. QED  BY <1>1 DEF set_cursor

HomeIs(q, i) ==
  /\ q \in Seq(Ops) /\ Len(q) = 5 /\ q[1] = <<"home", i>>
  /\ q[2] = <<"index", "high">> /\ q[3] = <<"data", "high">>
  /\ q[4] = <<"index", "low">> /\ q[5] = <<"data", "low">>

\* The way home.
LEMMA Home ==
  ASSUME NEW i \in 0 .. (TTY_NUM_ROWS - 1)
  PROVE  HomeIs(tty_home(i), i)
<1>1. <<"home", i>> \in Ops  BY DEF Ops
<1>2. PICK h : h = << <<"home", i>> >>  OBVIOUS
<1>3. h \in Seq(Ops) /\ Len(h) = 1 /\ h[1] = <<"home", i>>  BY <1>1, <1>2
<1>4. PICK q : q = h \o set_cursor  OBVIOUS
<1>5. PICK c : c = set_cursor  OBVIOUS
<1>6. c \in Seq(Ops) /\ Len(c) = 4  BY <1>5, SetCursorIs
<1>7. /\ q \in Seq(Ops) /\ Len(q) = 5 /\ q[1] = h[1]
      /\ q[2] = c[1] /\ q[3] = c[2] /\ q[4] = c[3] /\ q[5] = c[4]
  <2>1. Join(q, h, c)  BY <1>3, <1>4, <1>5, <1>6, Joined
  <2>. QED  BY <2>1, <1>3, <1>6 DEF Join
<1>8. tty_home(i) = q  BY <1>2, <1>4 DEF tty_home
<1>. QED  BY <1>3, <1>5, <1>7, <1>8, SetCursorIs DEF HomeIs

\* The rows that scroll.
LEMMA Scrolls ==
  /\ scroll \in Seq(Ops) /\ Len(scroll) = TTY_NUM_ROWS
  /\ \A i \in 1 .. TTY_NUM_ROWS : scroll[i][1] \in Shifts
<1>1. ASSUME NEW i \in 1 .. TTY_NUM_ROWS
      PROVE  (IF i < TTY_NUM_ROWS THEN <<"copy", i>> ELSE <<"blank", i - 1>>) \in Ops
  <2>1. CASE i < TTY_NUM_ROWS
    <3>1. i \in 1 .. (TTY_NUM_ROWS - 1)  BY <1>1, <2>1, Sizes
    <3>. QED  BY <3>1, <2>1 DEF Ops
  <2>2. CASE ~(i < TTY_NUM_ROWS)
    <3>1. i - 1 \in 0 .. (TTY_NUM_ROWS - 1)  BY <1>1, Sizes
    <3>. QED  BY <3>1, <2>2 DEF Ops
  <2>. QED  BY <2>1, <2>2
<1>2. scroll \in [1 .. TTY_NUM_ROWS -> Ops]  BY <1>1 DEF scroll
<1>3. \A i \in 1 .. TTY_NUM_ROWS : scroll[i][1] \in Shifts  BY DEF scroll, Shifts
<1>. QED  BY <1>2, <1>3, Listed, Sizes

CheckIs(q) ==
  /\ q \in Seq(Ops) /\ Len(q) = TTY_NUM_ROWS + 6 /\ q[1] = <<"check", Size>>
  /\ \A i \in 1 .. TTY_NUM_ROWS : q[1 + i][1] \in Shifts
  /\ q[TTY_NUM_ROWS + 2][1] = "home"
  /\ q[TTY_NUM_ROWS + 3] = <<"index", "high">> /\ q[TTY_NUM_ROWS + 4] = <<"data", "high">>
  /\ q[TTY_NUM_ROWS + 5] = <<"index", "low">> /\ q[TTY_NUM_ROWS + 6] = <<"data", "low">>

\* The test and what it guards.
LEMMA CheckShape == CheckIs(tty_check)
<1>1. PICK m : m = TTY_NUM_ROWS  OBVIOUS
<1>2. m \in Nat /\ m - 1 \in 0 .. (TTY_NUM_ROWS - 1)  BY <1>1, Sizes
<1>3. PICK s : s = scroll  OBVIOUS
<1>4. s \in Seq(Ops) /\ Len(s) = m /\ \A i \in 1 .. m : s[i][1] \in Shifts
  BY <1>1, <1>3, Scrolls
<1>5. PICK h : h = tty_home(m - 1)  OBVIOUS
<1>6. HomeIs(h, m - 1)  BY <1>1, <1>2, <1>5, Home
<1>7. PICK c : c = << <<"check", Size>> >>  OBVIOUS
<1>8. <<"check", Size>> \in Ops  BY DEF Ops
<1>9. c \in Seq(Ops) /\ Len(c) = 1 /\ c[1] = <<"check", Size>>  BY <1>7, <1>8
<1>10. PICK d : d = c \o s  OBVIOUS
<1>11. /\ d \in Seq(Ops) /\ Len(d) = m + 1 /\ d[1] = c[1]
       /\ \A i \in 1 .. m : d[1 + i] = s[i]
  <2>1. Join(d, c, s)  BY <1>4, <1>9, <1>10, Joined
  <2>2. d \in Seq(Ops) /\ Len(d) = m + 1 /\ d[1] = c[1]
    BY <2>1, <1>2, <1>4, <1>9 DEF Join
  <2>3. \A i \in 1 .. m : d[1 + i] = s[i]  BY <2>1, <1>4, <1>9 DEF Join
  <2>. QED  BY <2>2, <2>3
<1>12. PICK q : q = d \o h  OBVIOUS
<1>13. h \in Seq(Ops) /\ Len(h) = 5  BY <1>6 DEF HomeIs
<1>14. /\ q \in Seq(Ops) /\ Len(q) = m + 6
       /\ \A i \in 1 .. (m + 1) : q[i] = d[i]
       /\ \A i \in 1 .. 5 : q[m + 1 + i] = h[i]
  <2>1. Join(q, d, h)  BY <1>11, <1>12, <1>13, Joined
  <2>2. q \in Seq(Ops) /\ Len(q) = m + 6  BY <2>1, <1>2, <1>11, <1>13 DEF Join
  <2>3. \A i \in 1 .. (m + 1) : q[i] = d[i]  BY <2>1, <1>11 DEF Join
  <2>4. \A i \in 1 .. 5 : q[m + 1 + i] = h[i]  BY <2>1, <1>11, <1>13 DEF Join
  <2>. QED  BY <2>2, <2>3, <2>4
<1>16. q[m + 2] = h[1] /\ q[m + 3] = h[2] /\ q[m + 4] = h[3] /\ q[m + 5] = h[4] /\ q[m + 6] = h[5]
  <2>1. m + 1 + 1 = m + 2 /\ m + 1 + 2 = m + 3 /\ m + 1 + 3 = m + 4 /\ m + 1 + 4 = m + 5
        /\ m + 1 + 5 = m + 6
    BY <1>2
  <2>2. 1 \in 1 .. 5 /\ 2 \in 1 .. 5 /\ 3 \in 1 .. 5 /\ 4 \in 1 .. 5 /\ 5 \in 1 .. 5  OBVIOUS
  <2>. QED  BY <2>1, <2>2, <1>14
<1>17. \A i \in 1 .. m : q[1 + i][1] \in Shifts
  <2>1. \A i \in 1 .. m : 1 + i \in 1 .. (m + 1)  BY <1>2
  <2>. QED  BY <2>1, <1>4, <1>11, <1>14, SMTT(30)
<1>18. q[1] = <<"check", Size>>
  <2>1. 1 \in 1 .. (m + 1)  BY <1>2
  <2>. QED  BY <2>1, <1>9, <1>11, <1>14
<1>19. tty_check = q  BY <1>1, <1>3, <1>5, <1>7, <1>10, <1>12 DEF tty_check
<1>20. CheckIs(q)  BY <1>1, <1>6, <1>14, <1>16, <1>17, <1>18 DEF CheckIs, HomeIs
<1>. QED  BY <1>19, <1>20

\* The length of what the test guards.
LEMMA CheckLength == Len(Tail(tty_check)) = TTY_NUM_ROWS + 5
<1>1. PICK q : q = tty_check  OBVIOUS
<1>2. q \in Seq(Ops) /\ Len(q) = TTY_NUM_ROWS + 6  BY <1>1, CheckShape DEF CheckIs
<1>3. q # <<>>  BY <1>2, Sizes
<1>4. Suffix(Tail(q), q, 1)  BY <1>2, <1>3, SuffixTail
<1>. QED  BY <1>1, <1>2, <1>4, Sizes DEF Suffix

\* What the test guards ends with set_cursor.
LEMMA GuardedEnds ==
  ASSUME NEW q \in Seq(Ops), InOrder(q), NEW k \in 1 .. Len(q), q[k][1] = "check"
  PROVE  /\ k + TTY_NUM_ROWS + 5 \in 1 .. Len(q)
         /\ q[k + TTY_NUM_ROWS + 5] = <<"data", "low">>
         /\ SetsCursor(q, k + TTY_NUM_ROWS + 1)
<1>1. Len(q) \in Nat /\ k \in Nat /\ TTY_NUM_ROWS \in Nat  BY Sizes
<1>2. /\ k + TTY_NUM_ROWS + 5 <= Len(q) /\ q[k + TTY_NUM_ROWS + 1][1] = "home"
  BY DEF InOrder, Checked
<1>3. PICK j : j = k + TTY_NUM_ROWS + 1  OBVIOUS
<1>4. j \in 1 .. Len(q) /\ j + 4 = k + TTY_NUM_ROWS + 5 /\ j \in Nat  BY <1>1, <1>2, <1>3
<1>5. SetsCursor(q, j)  BY <1>2, <1>3, <1>4 DEF InOrder, Follows, Moves
<1>6. q[j + 4] = <<"data", "low">>  BY <1>5 DEF SetsCursor
<1>7. k + TTY_NUM_ROWS + 5 \in 1 .. Len(q)  BY <1>1, <1>2
<1>. QED  BY <1>3, <1>4, <1>5, <1>6, <1>7

\* The test finds the cursor on the screen, or the way home follows.
LEMMA StepCheck ==
  ASSUME NEW M \in {Size, Size + TTY_NUM_COLS}, NEW t, Writing(t, M), t.todo # <<>>,
         t.todo[1][1] = "check"
  PROVE  Writing(Execute(Rest(t), Head(t.todo)), M)
<1>1. PICK q : q = t.todo  OBVIOUS
<1>2. PICK u : u = Rest(t)  OBVIOUS
<1>3. PICK op : op = q[1]  OBVIOUS
<1>4. PICK e : e = Execute(u, op)  OBVIOUS
<1>5. /\ u \in Devices /\ u.todo = Tail(q) /\ Suffix(Tail(q), q, 1) /\ Head(q) = op
      /\ q \in Seq(Ops) /\ InOrder(q) /\ 1 \in 1 .. Len(q) /\ Len(q) \in Nat
      /\ u.fb = t.fb /\ u.cursor_pos = t.cursor_pos /\ q # <<>> /\ OpKind(op)
  BY <1>1, <1>2, <1>3, RestIs
<1>6. op[2] = Size  BY <1>1, <1>3, <1>5 DEF OpKind
<1>7. e = IF u.cursor_pos >= Size THEN u ELSE Skip(u, Tail(tty_check))
  BY <1>1, <1>3, <1>4, <1>6, Executes
<1>8. /\ t.fb[Size + TTY_NUM_COLS] = Old /\ t.cursor_pos \in Nat
      /\ t.cursor_pos < M + TTY_NUM_COLS
  BY DEF Writing, Devices
<1>9. M \in Nat /\ TTY_NUM_COLS \in Nat /\ Size <= M /\ Size \in Nat /\ TTY_NUM_ROWS \in Nat
  BY Limits, Sizes
<1>10. CASE u.cursor_pos >= Size
  <2>1. e = u  BY <1>7, <1>10
  <2>2. Lowering(e.todo) /\ Suffix(e.todo, q, 1)  BY <2>1, <1>1, <1>5, LoweringAfterCheck
  <2>3. Ends(e.todo)  BY <2>2, LoweringEnds
  <2>4. /\ 1 \in 1 .. Len(t.todo) /\ Suffix(e.todo, t.todo, 1) /\ t.todo[1][1] # "load"
        /\ e \in Devices /\ e.cursor_pos < M + TTY_NUM_COLS /\ e.fb[Size + TTY_NUM_COLS] = Old
    BY <2>1, <2>2, <1>1, <1>5, <1>8
  <2>5. Writing(e, M)  BY <2>2, <2>3, <2>4, Frame
  <2>. QED  BY <2>5, <1>1, <1>2, <1>4, <1>5
<1>11. CASE ~(u.cursor_pos >= Size)
  <2>1. PICK b : b = Tail(tty_check)  OBVIOUS
  <2>2. e = Skip(u, b)  BY <1>7, <1>11, <2>1
  <2>3. PICK n : n = 1 + TTY_NUM_ROWS + 5  OBVIOUS
  <2>4. n \in 1 .. Len(q) /\ q[n] = <<"data", "low">>
    BY <2>3, <1>1, <1>5, GuardedEnds
  <2>5. Len(b) = n - 1  BY <2>1, <2>3, <1>9, CheckLength
  <2>6. e \in Devices /\ Suffix(e.todo, q, n) /\ e.cursor_pos = u.cursor_pos /\ e.fb = u.fb
    <3>1. SkipTo(e, u, q, n)  BY <2>2, <2>4, <2>5, <1>5, SkipIs
    <3>. QED  BY <3>1 DEF SkipTo
  <2>7. ~(e.cursor_pos >= Size) /\ ~(e.cursor_pos >= M) /\ e.cursor_pos < M + TTY_NUM_COLS
    BY <2>6, <1>5, <1>8, <1>9, <1>11
  <2>8. /\ n \in 1 .. Len(t.todo) /\ Suffix(e.todo, t.todo, n) /\ t.todo[n][1] # "load"
        /\ e.fb[Size + TTY_NUM_COLS] = Old
    BY <2>4, <2>6, <1>1, <1>5, <1>8
  <2>9. Writing(e, M)  BY <2>6, <2>7, <2>8, Frame
  <2>. QED  BY <2>9, <1>1, <1>2, <1>4, <1>5
<1>. QED  BY <1>10, <1>11

\* The registers that a call leaves do not matter.
LEMMA ReturnKeeps ==
  ASSUME NEW M, NEW e, Writing(e, M)
  PROVE  Writing(Return(e), M) /\ Return(e).todo = e.todo
<1>1. CASE e.todo # <<>>  BY <1>1 DEF Return
<1>2. CASE e.todo = <<>>
  <2>1. PICK v : v = [e EXCEPT !.r = 0, !.loc = 0]  OBVIOUS
  <2>2. Return(e) = v  BY <1>2, <2>1 DEF Return
  <2>3. e \in Devices  BY DEF Writing
  <2>4. v \in Devices /\ v.todo = e.todo /\ v.fb = e.fb /\ v.cursor_pos = e.cursor_pos
    BY <2>1, <2>3 DEF Devices
  <2>5. Writing(v, M)  BY <2>4, <1>2 DEF Writing, Registers
  <2>. QED  BY <2>2, <2>4, <2>5
<1>. QED  BY <1>1, <1>2

\* An operation of the kernel or of a handler.
LEMMA OperationWrites ==
  ASSUME NEW M \in {Size, Size + TTY_NUM_COLS}, NEW t, Writing(t, M), t.todo # <<>>
  PROVE  Writing(Operation(t), M)
<1>1. OpKind(t.todo[1])  BY RestIs
<1>2. \/ t.todo[1][1] = "load" \/ t.todo[1][1] \in {"cell", "index", "data"}
      \/ t.todo[1][1] \in {"copy", "blank"} \/ t.todo[1][1] \in SureMoves
      \/ t.todo[1][1] = "home" \/ t.todo[1][1] = "back" \/ t.todo[1][1] = "check"
  BY <1>1 DEF OpKind, Users, LowUsers, Ports, Shifts, SureMoves
<1>3. PICK e : e = Execute(Rest(t), Head(t.todo))  OBVIOUS
<1>4. Writing(e, M)
  BY <1>2, <1>3, StepLoad, StepInPlace, StepShift, StepMove, StepHome, StepBack, StepCheck
<1>5. Operation(t) = Return(e)  BY <1>3 DEF Operation, Rest
<1>. QED  BY <1>4, <1>5, ReturnKeeps

-----------------------------------------------------------------------------
(***************************************************************************)
(* One operation of a thread keeps Synced.                                 *)
(***************************************************************************)

\* The cursor and its location in the hardware do not change.
SameCursor(t, e) == e.cursor_pos = t.cursor_pos /\ e.location = t.location

\* What an operation does to the cursor: nothing, ...
Quiet(t, e) ==
  /\ t.todo[1][1] \in Shifts \cup {"load", "cell", "check"}
  /\ Suffix(e.todo, t.todo, 1) /\ SameCursor(t, e)

\* ... it moves it, ...
Moved(t, e) ==
  t.todo[1][1] \in Moves /\ Suffix(e.todo, t.todo, 1) /\ e.loc = e.cursor_pos

\* ... it leaves out a branch, ...
Skipped(t, e) ==
  /\ \/ t.todo[1][1] = "back" /\ Suffix(e.todo, t.todo, 5)
     \/ t.todo[1][1] = "check" /\ Suffix(e.todo, t.todo, TTY_NUM_ROWS + 6)
  /\ SameCursor(t, e)

\* ... or it is a part of set_cursor.
Sent(t, e) ==
  /\ Suffix(e.todo, t.todo, 1)
  /\ e.cursor_pos = t.cursor_pos /\ e.loc = t.loc
  /\ \/ t.todo[1][1] = "index" /\ e.index = t.todo[1][2] /\ e.location = t.location
     \/ /\ t.todo[1][1] = "data" /\ e.index = t.index
        /\ e.location = [t.location EXCEPT ![t.index] =
                           IF t.todo[1][2] = "high" THEN High(t.loc) ELSE Low(t.loc)]

\* Every operation does one of these.
LEMMA Outcomes ==
  ASSUME NEW M, NEW t, Writing(t, M), t.todo # <<>>,
         NEW e, e = Execute(Rest(t), Head(t.todo))
  PROVE  Quiet(t, e) \/ Moved(t, e) \/ Skipped(t, e) \/ Sent(t, e)
<1>1. PICK q : q = t.todo  OBVIOUS
<1>2. PICK u : u = Rest(t)  OBVIOUS
<1>3. PICK op : op = q[1]  OBVIOUS
<1>4. e = Execute(u, op)  BY <1>1, <1>2, <1>3, RestIs
<1>5. /\ u \in Devices /\ u.todo = Tail(q) /\ Suffix(Tail(q), q, 1)
      /\ q \in Seq(Ops) /\ InOrder(q) /\ 1 \in 1 .. Len(q) /\ Len(q) \in Nat /\ q # <<>>
      /\ u.cursor_pos = t.cursor_pos /\ u.location = t.location
      /\ u.index = t.index /\ u.loc = t.loc /\ OpKind(op)
  BY <1>1, <1>2, <1>3, RestIs
<1>6. Suffix(u.todo, t.todo, 1)  BY <1>1, <1>5
<1>7. ASSUME op[1] = "load" \/ op[1] = "cell" \/ op[1] \in Shifts
      PROVE  Quiet(t, e)
  <2>1. e.todo = u.todo /\ e.cursor_pos = u.cursor_pos /\ e.location = u.location
    <3>1. CASE op[1] = "load"
      <4>1. e = [u EXCEPT !.r = u.cursor_pos]  BY <3>1, <1>4, Executes
      <4>. QED  BY <4>1, <1>5 DEF Devices
    <3>2. CASE op[1] = "cell"
      <4>1. e = [u EXCEPT !.fb[CellOf(u.r)] = op[2]]  BY <3>2, <1>4, Executes
      <4>. QED  BY <4>1, <1>5 DEF Devices
    <3>3. CASE op[1] = "copy"
      <4>1. e = [u EXCEPT !.fb = [c \in Cells |-> IF Row(c) = op[2] - 1
                                                  THEN u.fb[c + TTY_NUM_COLS]
                                                  ELSE u.fb[c]]]
        BY <3>3, <1>4, Executes
      <4>. QED  BY <4>1, <1>5 DEF Devices
    <3>4. CASE op[1] = "blank"
      <4>1. e = [u EXCEPT !.fb = [c \in Cells |-> IF Row(c) = op[2] THEN Space ELSE u.fb[c]]]
        BY <3>4, <1>4, Executes
      <4>. QED  BY <4>1, <1>5 DEF Devices
    <3>. QED  BY <1>7, <3>1, <3>2, <3>3, <3>4 DEF Shifts
  <2>. QED  BY <2>1, <1>1, <1>3, <1>5, <1>6, <1>7 DEF Quiet, SameCursor
<1>8. ASSUME NEW l, e = MoveTo(u, l), op[1] \in Moves PROVE Moved(t, e)
  <2>1. e.todo = u.todo /\ e.cursor_pos = l /\ e.loc = l
    BY <1>8, <1>5 DEF MoveTo, Devices
  <2>. QED  BY <2>1, <1>1, <1>3, <1>6, <1>8 DEF Moved
<1>9. CASE op[1] \in SureMoves \cup {"home"}
  <2>1. op[1] \in Moves  BY <1>9 DEF Moves
  <2>2. \/ e = MoveTo(u, u.r + 1) \/ e = MoveTo(u, u.r + TTY_NUM_COLS)
        \/ e = MoveTo(u, u.r - (u.r % TTY_NUM_COLS)) \/ e = MoveTo(u, op[2] * TTY_NUM_COLS)
    BY <1>4, <1>9, Executes DEF SureMoves
  <2>. QED  BY <2>1, <2>2, <1>8
<1>10. CASE op[1] = "back"
  <2>1. CASE u.r # 0
    <3>1. e = MoveTo(u, u.r - 1) /\ op[1] \in Moves  BY <2>1, <1>4, <1>10, Executes DEF Moves
    <3>. QED  BY <3>1, <1>8
  <2>2. CASE u.r = 0
    <3>1. PICK b : b = set_cursor  OBVIOUS
    <3>2. e = Skip(u, b)  BY <2>2, <3>1, <1>4, <1>10, Executes
    <3>3. SetsCursor(q, 1)  BY <1>3, <1>5, <1>10 DEF InOrder, Follows, Moves
    <3>4. 5 \in 1 .. Len(q) /\ Len(b) = 5 - 1
      BY <3>1, <3>3, <1>5 DEF SetsCursor, set_cursor
    <3>5. Suffix(e.todo, q, 5) /\ e.cursor_pos = u.cursor_pos /\ e.location = u.location
      <4>1. SkipTo(e, u, q, 5)  BY <3>2, <3>4, <1>5, SkipIs
      <4>. QED  BY <4>1 DEF SkipTo
    <3>. QED  BY <3>5, <1>1, <1>3, <1>5, <1>10 DEF Skipped, SameCursor
  <2>. QED  BY <2>1, <2>2
<1>11. CASE op[1] = "check"
  <2>1. op[2] = Size  BY <1>5, <1>11 DEF OpKind
  <2>2. e = IF u.cursor_pos >= Size THEN u ELSE Skip(u, Tail(tty_check))
    BY <2>1, <1>4, <1>11, Executes
  <2>3. CASE u.cursor_pos >= Size
    BY <2>2, <2>3, <1>1, <1>3, <1>5, <1>6, <1>11 DEF Quiet, SameCursor
  <2>4. CASE ~(u.cursor_pos >= Size)
    <3>1. PICK b : b = Tail(tty_check)  OBVIOUS
    <3>2. e = Skip(u, b)  BY <2>2, <2>4, <3>1
    <3>3. PICK n : n = TTY_NUM_ROWS + 6  OBVIOUS
    <3>4. n = 1 + TTY_NUM_ROWS + 5  BY <3>3, Sizes
    <3>5. n \in 1 .. Len(q)  BY <3>4, <1>3, <1>5, <1>11, GuardedEnds
    <3>6. Len(b) = n - 1  BY <3>1, <3>3, CheckLength, Sizes
    <3>7. Suffix(e.todo, q, n) /\ e.cursor_pos = u.cursor_pos /\ e.location = u.location
      <4>1. SkipTo(e, u, q, n)  BY <3>2, <3>5, <3>6, <1>5, SkipIs
      <4>. QED  BY <4>1 DEF SkipTo
    <3>. QED  BY <3>3, <3>7, <1>1, <1>3, <1>5, <1>11 DEF Skipped, SameCursor
  <2>. QED  BY <2>3, <2>4
<1>12. CASE op[1] = "index"
  <2>1. e = [u EXCEPT !.index = op[2]]  BY <1>4, <1>12, Executes
  <2>2. /\ e.todo = u.todo /\ e.cursor_pos = u.cursor_pos /\ e.loc = u.loc
        /\ e.index = op[2] /\ e.location = u.location
    BY <2>1, <1>5 DEF Devices
  <2>. QED  BY <2>2, <1>1, <1>3, <1>5, <1>6, <1>12 DEF Sent
<1>13. CASE op[1] = "data"
  <2>1. PICK v : v = IF op[2] = "high" THEN High(u.loc) ELSE Low(u.loc)  OBVIOUS
  <2>2. e = [u EXCEPT !.location[u.index] = v]
    BY <2>1, <1>4, <1>13, Executes DEF High, Low
  <2>3. /\ e.todo = u.todo /\ e.cursor_pos = u.cursor_pos /\ e.loc = u.loc
        /\ e.index = u.index /\ e.location = [u.location EXCEPT ![u.index] = v]
    BY <2>2, <1>5 DEF Devices
  <2>4. e.location = [t.location EXCEPT ![t.index] =
                        IF t.todo[1][2] = "high" THEN High(t.loc) ELSE Low(t.loc)]
    BY <2>1, <2>3, <1>1, <1>3, <1>5
  <2>5. t.todo[1][1] = "data"  BY <1>1, <1>3, <1>13
  <2>. QED  BY <2>3, <2>4, <2>5, <1>5, <1>6, Zenon DEF Sent
<1>14. \/ op[1] = "load" \/ op[1] = "cell" \/ op[1] \in Shifts
       \/ op[1] \in SureMoves \cup {"home"} \/ op[1] = "back" \/ op[1] = "check"
       \/ op[1] = "index" \/ op[1] = "data"
  BY <1>5 DEF OpKind, Users, LowUsers, Ports, SureMoves
<1>. QED  BY <1>7, <1>9, <1>10, <1>11, <1>12, <1>13, <1>14

\* The operations of set_cursor.
LEMMA CursorPorts ==
  ASSUME NEW q, NEW k \in Nat, SetsCursor(q, k)
  PROVE  \A i \in (k + 1) .. (k + 4) : q[i][1] \in Ports
<1>1. SUFFICES ASSUME NEW i \in (k + 1) .. (k + 4) PROVE q[i][1] \in Ports  OBVIOUS
<1>2. i = k + 1 \/ i = k + 2 \/ i = k + 3 \/ i = k + 4  BY <1>1
<1>. QED  BY <1>2 DEF SetsCursor, Ports

\* A move that is still to come is not left out with a branch.
LEMMA MovingLeft ==
  ASSUME NEW M, NEW t, Writing(t, M), t.todo # <<>>, NEW e,
         Quiet(t, e) \/ Skipped(t, e) \/ Sent(t, e), Moving(t.todo)
  PROVE  Moving(e.todo)
<1>1. PICK q : q = t.todo  OBVIOUS
<1>2. PICK s : s = e.todo  OBVIOUS
<1>3. /\ q \in Seq(Ops) /\ InOrder(q) /\ 1 \in 1 .. Len(q) /\ Len(q) \in Nat
  BY <1>1, RestIs
<1>4. PICK j \in 1 .. Len(q) :
        \/ q[j][1] \in SureMoves
        \/ q[j][1] = "home" /\ \A i \in 1 .. (j - 1) : q[i][1] # "check"
  BY <1>1 DEF Moving
<1>5. q[1][1] \notin SureMoves \cup {"home"}
  BY <1>1 DEF Quiet, Skipped, Sent, SureMoves, Shifts
<1>6. j # 1  BY <1>4, <1>5
<1>7. SUFFICES ASSUME NEW n \in 1 .. Len(q), Suffix(s, q, n), j > n
               PROVE  Moving(s)
  <2>1. CASE Quiet(t, e) \/ Sent(t, e)
    <3>1. Suffix(s, q, 1) /\ j > 1  BY <2>1, <1>1, <1>2, <1>4, <1>6 DEF Quiet, Sent
    <3>. QED  BY <3>1, <1>2, <1>3, <1>7
  <2>2. CASE Skipped(t, e) /\ q[1][1] = "back"
    <3>1. Suffix(s, q, 5)  BY <2>2, <1>1, <1>2 DEF Skipped
    <3>2. SetsCursor(q, 1)  BY <2>2, <1>3 DEF InOrder, Follows, Moves
    <3>3. 5 \in 1 .. Len(q) /\ \A i \in 2 .. 5 : q[i][1] \in Ports
      <4>1. 5 \in 1 .. Len(q)  BY <3>2, <1>3 DEF SetsCursor
      <4>2. \A i \in (1 + 1) .. (1 + 4) : q[i][1] \in Ports  BY <3>2, CursorPorts
      <4>. QED  BY <4>1, <4>2
    <3>4. j \notin 2 .. 5  BY <3>3, <1>4 DEF Ports, SureMoves
    <3>5. j > 5  BY <3>4, <1>4, <1>6
    <3>. QED  BY <3>1, <3>3, <3>5, <1>2, <1>7
  <2>3. CASE Skipped(t, e) /\ q[1][1] = "check"
    <3>1. PICK n : n = TTY_NUM_ROWS + 6  OBVIOUS
    <3>2. Suffix(s, q, n)  BY <2>3, <3>1, <1>1, <1>2 DEF Skipped
    <3>3. n = 1 + TTY_NUM_ROWS + 5 /\ TTY_NUM_ROWS \in Nat  BY <3>1, Sizes
    <3>4. n \in 1 .. Len(q) /\ SetsCursor(q, 1 + TTY_NUM_ROWS + 1)
      BY <3>3, <2>3, <1>3, GuardedEnds
    <3>5. 1 + TTY_NUM_ROWS + 1 = TTY_NUM_ROWS + 2  BY <3>3
    <3>6. SetsCursor(q, TTY_NUM_ROWS + 2)  BY <3>4, <3>5
    <3>7. \A i \in (TTY_NUM_ROWS + 3) .. n : q[i][1] \in Ports
      <4>1. PICK k : k = TTY_NUM_ROWS + 2  OBVIOUS
      <4>2. k \in Nat /\ TTY_NUM_ROWS + 3 = k + 1 /\ n = k + 4  BY <4>1, <3>1, <3>3
      <4>. QED  BY <4>1, <4>2, <3>6, CursorPorts
    <3>8. Checked(q, 1)  BY <1>3 DEF InOrder
    <3>9. q[TTY_NUM_ROWS + 2][1] = "home" /\ \A i \in 1 .. TTY_NUM_ROWS : q[1 + i][1] \in Shifts
      BY <3>5, <3>8, <2>3 DEF Checked
    <3>10. \A i \in 2 .. (TTY_NUM_ROWS + 1) : q[i][1] \in Shifts
      <4>1. ASSUME NEW i \in 2 .. (TTY_NUM_ROWS + 1) PROVE q[i][1] \in Shifts
        <5>1. i - 1 \in 1 .. TTY_NUM_ROWS /\ 1 + (i - 1) = i  BY <4>1, <3>3
        <5>. QED  BY <5>1, <3>9
      <4>. QED  BY <4>1
    <3>11. q[j][1] \in SureMoves
      <4>1. 1 \in 1 .. (j - 1)  BY <1>4, <1>6, <1>3
      <4>. QED  BY <4>1, <1>4, <2>3
    <3>12. /\ j \notin 2 .. (TTY_NUM_ROWS + 1) /\ j # TTY_NUM_ROWS + 2
           /\ j \notin (TTY_NUM_ROWS + 3) .. n
      BY <3>7, <3>9, <3>10, <3>11 DEF SureMoves, Shifts, Ports
    <3>13. j > n  BY <3>1, <3>3, <3>12, <1>4, <1>6
    <3>. QED  BY <3>2, <3>4, <3>13, <1>2, <1>7
  <2>. QED  BY <1>1, <2>1, <2>2, <2>3 DEF Skipped
<1>8. n \in 0 .. Len(q) /\ n \in Nat /\ j \in Nat  BY <1>3, <1>4, <1>7
<1>9. PICK h : h = j - n  OBVIOUS
<1>10. h \in 1 .. Len(s) /\ s[h] = q[j]  BY <1>3, <1>4, <1>7, <1>8, <1>9, SuffixAt
<1>11. ASSUME q[j][1] = "home", \A i \in 1 .. (j - 1) : q[i][1] # "check"
       PROVE  \A i \in 1 .. (h - 1) : s[i][1] # "check"
  <2>1. SUFFICES ASSUME NEW i \in 1 .. (h - 1) PROVE s[i][1] # "check"  OBVIOUS
  <2>2. i \in 1 .. Len(s) /\ i + n \in 1 .. (j - 1)  BY <2>1, <1>8, <1>9, <1>10
  <2>3. s[i] = q[i + n]  BY <2>2, <1>7 DEF Suffix
  <2>. QED  BY <2>2, <2>3, <1>11
<1>. QED  BY <1>4, <1>10, <1>11 DEF Moving

\* What follows a position that the hardware shows is not a port's operation.
LEMMA ShownLeft ==
  ASSUME NEW M, NEW t, Writing(t, M), t.todo # <<>>, NEW e,
         Quiet(t, e) \/ Skipped(t, e), Shown(t)
  PROVE  Shown(e)
<1>1. PICK q : q = t.todo  OBVIOUS
<1>2. PICK s : s = e.todo  OBVIOUS
<1>3. /\ q \in Seq(Ops) /\ InOrder(q) /\ 1 \in 1 .. Len(q) /\ Len(q) \in Nat
  BY <1>1, RestIs
<1>4. SUFFICES ASSUME NEW n \in 1 .. Len(q), Suffix(s, q, n),
                      q[n][1] \notin Moves \cup Ports \/ q[n] = <<"data", "low">>
               PROVE  s = <<>> \/ s[1][1] \notin Ports
  <2>1. SameCursor(t, e)  BY DEF Quiet, Skipped
  <2>2. CASE Quiet(t, e)
    <3>1. Suffix(s, q, 1) /\ q[1][1] \notin Moves \cup Ports
      BY <2>2, <1>1, <1>2 DEF Quiet, Moves, SureMoves, Ports, Shifts
    <3>. QED  BY <3>1, <2>1, <1>2, <1>3, <1>4 DEF Shown, SameCursor
  <2>3. CASE Skipped(t, e) /\ q[1][1] = "back"
    <3>1. Suffix(s, q, 5)  BY <2>3, <1>1, <1>2 DEF Skipped
    <3>2. SetsCursor(q, 1)  BY <2>3, <1>3 DEF InOrder, Follows, Moves
    <3>3. 5 \in 1 .. Len(q) /\ q[5] = <<"data", "low">>  BY <3>2, <1>3 DEF SetsCursor
    <3>. QED  BY <3>1, <3>3, <2>1, <1>2, <1>4 DEF Shown, SameCursor
  <2>4. CASE Skipped(t, e) /\ q[1][1] = "check"
    <3>1. PICK n : n = TTY_NUM_ROWS + 6  OBVIOUS
    <3>2. Suffix(s, q, n)  BY <2>4, <3>1, <1>1, <1>2 DEF Skipped
    <3>3. n = 1 + TTY_NUM_ROWS + 5  BY <3>1, Sizes
    <3>4. n \in 1 .. Len(q) /\ q[n] = <<"data", "low">>  BY <3>3, <2>4, <1>3, GuardedEnds
    <3>. QED  BY <3>2, <3>4, <2>1, <1>2, <1>4 DEF Shown, SameCursor
  <2>. QED  BY <1>1, <2>2, <2>3, <2>4 DEF Skipped
<1>5. SUFFICES ASSUME s # <<>> PROVE s[1][1] \notin Ports  OBVIOUS
<1>6. /\ s \in Seq(Ops) /\ Len(s) \in Nat /\ Len(s) = Len(q) - n /\ Len(s) >= 1
  BY <1>4, <1>5 DEF Suffix
<1>7. n < Len(q) /\ 1 \in 1 .. Len(s) /\ 1 + n = n + 1  BY <1>3, <1>4, <1>6
<1>8. s[1] = q[n + 1]  BY <1>4, <1>7 DEF Suffix
<1>9. Follows(q, n)  BY <1>3, <1>4 DEF InOrder
<1>. QED  BY <1>4, <1>7, <1>8, <1>9 DEF Follows

\* A move leaves all of set_cursor to do.
LEMMA MovedShows ==
  ASSUME NEW M, NEW t, Writing(t, M), t.todo # <<>>, NEW e, Moved(t, e)
  PROVE  Showing(e)
<1>1. PICK q : q = t.todo  OBVIOUS
<1>2. PICK s : s = e.todo  OBVIOUS
<1>3. /\ q \in Seq(Ops) /\ InOrder(q) /\ 1 \in 1 .. Len(q) /\ Len(q) \in Nat
  BY <1>1, RestIs
<1>4. SetsCursor(q, 1)  BY <1>1, <1>3 DEF InOrder, Follows, Moved
<1>5. Suffix(s, q, 1)  BY <1>1, <1>2 DEF Moved
<1>6. Len(s) \in Nat /\ Len(s) = Len(q) - 1 /\ \A i \in 1 .. Len(s) : s[i] = q[i + 1]
  BY <1>5 DEF Suffix
<1>7. 4 <= Len(s)  BY <1>3, <1>4, <1>6 DEF SetsCursor
<1>8. s[1] = q[2] /\ s[2] = q[3] /\ s[3] = q[4] /\ s[4] = q[5]  BY <1>6, <1>7
<1>9. SetsCursor(s, 0)  BY <1>4, <1>7, <1>8, SMTT(30) DEF SetsCursor
<1>10. s # <<>>  BY <1>7
<1>. QED  BY <1>2, <1>9, <1>10 DEF Showing, Moved

\* Each part of set_cursor leads to the next one.
LEMMA ShowingLeft ==
  ASSUME NEW M, NEW t, Writing(t, M), t.todo # <<>>, NEW e,
         e = Execute(Rest(t), Head(t.todo)), Showing(t)
  PROVE  Shown(e) \/ Showing(e)
<1>1. PICK q : q = t.todo  OBVIOUS
<1>2. PICK s : s = e.todo  OBVIOUS
<1>3. /\ q \in Seq(Ops) /\ InOrder(q) /\ 1 \in 1 .. Len(q) /\ Len(q) \in Nat
  BY <1>1, RestIs
<1>4. q[1][1] \in Ports  BY <1>1 DEF Showing, SetsCursor, Ports
<1>5. Sent(t, e)
  BY <1>1, <1>4, Outcomes DEF Ports, Quiet, Moved, Skipped, Shifts, Moves, SureMoves
<1>6. /\ Suffix(s, q, 1) /\ e.cursor_pos = t.cursor_pos /\ e.loc = t.loc
      /\ t.loc = t.cursor_pos /\ e.loc = e.cursor_pos
  BY <1>1, <1>2, <1>5 DEF Sent, Showing
<1>7. Len(s) \in Nat /\ Len(s) = Len(q) - 1 /\ \A i \in 1 .. Len(s) : s[i] = q[i + 1]
  BY <1>6 DEF Suffix
<1>8. t.location \in [Sides -> 0 .. (Byte - 1)]  BY DEF Writing, Devices
<1>9. CASE SetsCursor(q, 0)
  <2>1. /\ 4 <= Len(q) /\ q[1] = <<"index", "high">> /\ q[2] = <<"data", "high">>
        /\ q[3] = <<"index", "low">> /\ q[4] = <<"data", "low">>
    BY <1>9 DEF SetsCursor
  <2>2. 3 <= Len(s) /\ s[1] = q[2] /\ s[2] = q[3] /\ s[3] = q[4]  BY <2>1, <1>3, <1>7
  <2>3. e.index = "high"  BY <2>1, <1>1, <1>5 DEF Sent
  <2>4. s # <<>>  BY <2>2
  <2>. QED  BY <2>1, <2>2, <2>3, <2>4, <1>2, <1>6 DEF Showing
<1>10. CASE /\ 3 <= Len(q) /\ q[1] = <<"data", "high">> /\ t.index = "high"
            /\ q[2] = <<"index", "low">> /\ q[3] = <<"data", "low">>
  <2>1. 2 <= Len(s) /\ s[1] = q[2] /\ s[2] = q[3]  BY <1>3, <1>7, <1>10
  <2>2. e.location = [t.location EXCEPT !["high"] = High(t.loc)]
    BY <1>1, <1>5, <1>10 DEF Sent
  <2>3. e.location["high"] = High(e.cursor_pos)  BY <2>2, <1>6, <1>8 DEF Sides
  <2>4. s # <<>>  BY <2>1
  <2>. QED  BY <2>1, <2>3, <2>4, <1>2, <1>6, <1>10 DEF Showing
<1>11. CASE /\ 2 <= Len(q) /\ q[1] = <<"index", "low">> /\ q[2] = <<"data", "low">>
            /\ t.location["high"] = High(t.cursor_pos)
  <2>1. 1 <= Len(s) /\ s[1] = q[2]  BY <1>3, <1>7, <1>11
  <2>2. e.index = "low" /\ e.location = t.location  BY <1>1, <1>5, <1>11 DEF Sent
  <2>3. e.location["high"] = High(e.cursor_pos)  BY <2>2, <1>6, <1>11
  <2>4. s # <<>>  BY <2>1
  <2>. QED  BY <2>1, <2>2, <2>3, <2>4, <1>2, <1>6, <1>11 DEF Showing
<1>12. CASE /\ q[1] = <<"data", "low">> /\ t.index = "low"
            /\ t.location["high"] = High(t.cursor_pos)
  <2>1. e.location = [t.location EXCEPT !["low"] = Low(t.loc)]
    BY <1>1, <1>5, <1>12 DEF Sent
  <2>2. e.location["low"] = Low(e.cursor_pos) /\ e.location["high"] = High(e.cursor_pos)
    BY <2>1, <1>6, <1>8, <1>12 DEF Sides
  <2>3. ASSUME s # <<>> PROVE s[1][1] \notin Ports
    <3>1. s \in Seq(Ops)  BY <1>6 DEF Suffix
    <3>2. Len(s) >= 1  BY <2>3, <3>1
    <3>3. s[1] = q[2] /\ 1 < Len(q)  BY <3>2, <1>3, <1>7
    <3>4. Follows(q, 1)  BY <1>3 DEF InOrder
    <3>. QED  BY <3>3, <3>4, <1>12 DEF Follows
  <2>. QED  BY <2>2, <2>3, <1>2 DEF Shown
<1>. QED  BY <1>1, <1>9, <1>10, <1>11, <1>12 DEF Showing

\* The hardware cursor stays in step with the position.
LEMMA OperationSyncs ==
  ASSUME NEW M \in {Size, Size + TTY_NUM_COLS}, NEW t, Writing(t, M), t.todo # <<>>, Synced(t)
  PROVE  Synced(Operation(t))
<1>1. PICK e : e = Execute(Rest(t), Head(t.todo))  OBVIOUS
<1>2. Quiet(t, e) \/ Moved(t, e) \/ Skipped(t, e) \/ Sent(t, e)  BY <1>1, Outcomes
<1>3. Synced(e)
  <2>1. CASE Moved(t, e)  BY <2>1, MovedShows DEF Synced
  <2>2. CASE Moving(t.todo) /\ ~Moved(t, e)  BY <2>2, <1>2, MovingLeft DEF Synced
  <2>3. CASE Shown(t) /\ ~Moved(t, e)
    <3>1. ~Sent(t, e)  BY <2>3 DEF Shown, Sent, Ports
    <3>. QED  BY <3>1, <2>3, <1>2, ShownLeft DEF Synced
  <2>4. CASE Showing(t)  BY <2>4, <1>1, ShowingLeft DEF Synced
  <2>. QED  BY <2>1, <2>2, <2>3, <2>4 DEF Synced
<1>4. Operation(t) = Return(e)  BY <1>1 DEF Operation, Rest
<1>5. CASE e.todo # <<>>  BY <1>3, <1>4, <1>5 DEF Return
<1>6. CASE e.todo = <<>>
  <2>1. PICK v : v = [e EXCEPT !.r = 0, !.loc = 0]  OBVIOUS
  <2>2. Operation(t) = v  BY <1>4, <1>6, <2>1 DEF Return
  <2>3. ~Moving(e.todo) /\ ~Showing(e)  BY <1>6 DEF Moving, Showing
  <2>4. Shown(e)  BY <2>3, <1>3 DEF Synced
  <2>5. Operation(t) \in Devices  BY OperationWrites DEF Writing
  <2>6. /\ v.todo = e.todo /\ v.location = e.location /\ v.cursor_pos = e.cursor_pos
    BY <2>1
  <2>7. Shown(v)  BY <2>4, <2>6 DEF Shown
  <2>. QED  BY <2>2, <2>7 DEF Synced
<1>. QED  BY <1>5, <1>6

\* Every operation makes the program shorter.
LEMMA OperationShortens ==
  ASSUME NEW M \in {Size, Size + TTY_NUM_COLS}, NEW t, Writing(t, M), t.todo # <<>>
  PROVE  Len(Operation(t).todo) \in Nat /\ Len(Operation(t).todo) < Len(t.todo)
<1>1. PICK e : e = Execute(Rest(t), Head(t.todo))  OBVIOUS
<1>2. Quiet(t, e) \/ Moved(t, e) \/ Skipped(t, e) \/ Sent(t, e)  BY <1>1, Outcomes
<1>3. \/ Suffix(e.todo, t.todo, 1) \/ Suffix(e.todo, t.todo, 5)
      \/ Suffix(e.todo, t.todo, TTY_NUM_ROWS + 6)
  BY <1>2 DEF Quiet, Moved, Skipped, Sent
<1>4. Len(t.todo) \in Nat  BY RestIs
<1>5. Len(e.todo) \in Nat /\ Len(e.todo) < Len(t.todo)
  BY <1>3, <1>4, Sizes DEF Suffix
<1>6. Operation(t) = Return(e)  BY <1>1 DEF Operation, Rest
<1>7. Return(e).todo = e.todo
  <2>1. CASE e.todo # <<>>  BY <2>1 DEF Return
  <2>2. CASE e.todo = <<>>
    <3>1. Return(e) = [e EXCEPT !.r = 0, !.loc = 0]  BY <2>2 DEF Return
    <3>. QED  BY <3>1
  <2>. QED  BY <2>1, <2>2
<1>. QED  BY <1>5, <1>6, <1>7

-----------------------------------------------------------------------------
(***************************************************************************)
(* A handler's whole call.                                                 *)
(***************************************************************************)

\* A nonempty set of natural numbers has a smallest element.
LEMMA Smallest ==
  ASSUME NEW T \in SUBSET Nat, T # {}
  PROVE  \E x \in T : \A y \in T : x <= y
<1>1. IsWellFoundedOn(OpToRel(<, Nat), Nat)
  BY NatLessThanWellFounded
<1>2. PICK x \in T : \A y \in T : ~ (<<y, x>> \in OpToRel(<, Nat))
  BY <1>1, WFMin
<1>3. \A y \in T : ~ (y < x)
  BY <1>2 DEF OpToRel
<1>. QED  BY <1>3

\* The next state of a call, or the same once it has returned.
NextState(u) == IF u.todo = <<>> THEN u ELSE Operation(u)

IsRun(f, t, n) == f = [k \in 0 .. n |-> IF k = 0 THEN t ELSE NextState(f[k - 1])]

RunExists(t, n) == \E f : IsRun(f, t, n)

\* The recursive definition of a run has a solution.
LEMMA RunIsDefined ==
  ASSUME NEW t, NEW n \in Nat
  PROVE  RunExists(t, n)
<1>. DEFINE T == {k \in Nat : ~RunExists(t, k)}
<1>1. SUFFICES ASSUME T # {} PROVE FALSE  OBVIOUS
<1>2. PICK k \in T : \A o \in T : k <= o
  <2>1. T \in SUBSET Nat  OBVIOUS
  <2>. QED  BY <1>1, <2>1, Smallest
<1>3. k \in Nat /\ ~RunExists(t, k) /\ \A o \in Nat : o < k => RunExists(t, o)
  <2>1. k \in Nat /\ ~RunExists(t, k)  BY <1>2
  <2>2. ASSUME NEW o \in Nat, o < k, ~RunExists(t, o) PROVE FALSE
    <3>1. o \in T  BY <2>2
    <3>2. k <= o  BY <3>1, <1>2
    <3>. QED  BY <3>2, <2>1, <2>2
  <2>. QED  BY <2>1, <2>2
<1>. HIDE DEF T
<1>4. CASE k = 0
  <2>1. PICK f : f = [i \in 0 .. 0 |-> t]  OBVIOUS
  <2>2. IsRun(f, t, 0)  BY <2>1 DEF IsRun
  <2>. QED  BY <2>2, <1>3, <1>4 DEF RunExists
<1>5. CASE k > 0
  <2>1. k - 1 \in Nat /\ k - 1 < k  BY <1>3, <1>5
  <2>2. PICK f : IsRun(f, t, k - 1)  BY <2>1, <1>3 DEF RunExists
  <2>3. PICK g : g = [i \in 0 .. k |-> IF i < k THEN f[i] ELSE NextState(f[k - 1])]
    OBVIOUS
  <2>4. \A i \in 0 .. k : g[i] = IF i = 0 THEN t ELSE NextState(g[i - 1])
    <3>1. SUFFICES ASSUME NEW i \in 0 .. k
                   PROVE  g[i] = IF i = 0 THEN t ELSE NextState(g[i - 1])
      OBVIOUS
    <3>2. CASE i < k
      <4>1. i \in 0 .. (k - 1) /\ g[i] = f[i]  BY <3>1, <3>2, <2>3, <1>3
      <4>2. f[i] = IF i = 0 THEN t ELSE NextState(f[i - 1])  BY <4>1, <2>2 DEF IsRun
      <4>3. i # 0 => i - 1 \in 0 .. k /\ i - 1 < k  BY <3>1, <3>2, <1>3
      <4>4. i # 0 => g[i - 1] = f[i - 1]  BY <4>3, <2>3
      <4>. QED  BY <4>1, <4>2, <4>4
    <3>3. CASE i = k
      <4>1. g[k] = NextState(f[k - 1])  BY <2>3, <1>3
      <4>2. g[k - 1] = f[k - 1]  BY <2>1, <2>3, <1>3
      <4>. QED  BY <4>1, <4>2, <3>3, <1>5, <1>3
    <3>. QED  BY <3>1, <3>2, <3>3, <1>3
  <2>5. g = [i \in 0 .. k |-> IF i = 0 THEN t ELSE NextState(g[i - 1])]
    BY <2>3, <2>4
  <2>6. IsRun(g, t, k)  BY <2>5 DEF IsRun
  <2>. QED  BY <2>6, <1>3 DEF RunExists
<1>. QED  BY <1>3, <1>4, <1>5

\* u is a state of the call that t begins, with at most m operations left.
OnTheWay(u, t, M, m) ==
  /\ Writing(u, M) /\ (Synced(t) => Synced(u))
  /\ Len(u.todo) \in Nat /\ Len(u.todo) <= m

\* Every state of a run has fewer operations left than the one before.
LEMMA RunInvariant ==
  ASSUME NEW M \in {Size, Size + TTY_NUM_COLS}, NEW t, Writing(t, M),
         NEW n \in Nat, n = Len(t.todo), NEW f, IsRun(f, t, n)
  PROVE  OnTheWay(f[n], t, M, 0)
<1>. DEFINE T == {k \in Nat : k <= n /\ ~OnTheWay(f[k], t, M, n - k)}
<1>1. SUFFICES ASSUME T # {} PROVE FALSE
  <2>1. n \notin T  BY <1>1
  <2>. QED  BY <2>1
<1>2. PICK k \in T : \A o \in T : k <= o
  <2>1. T \in SUBSET Nat  OBVIOUS
  <2>. QED  BY <1>1, <2>1, Smallest
<1>3. /\ k \in Nat /\ k <= n /\ ~OnTheWay(f[k], t, M, n - k)
      /\ \A o \in Nat : o < k => OnTheWay(f[o], t, M, n - o)
  <2>1. k \in Nat /\ k <= n /\ ~OnTheWay(f[k], t, M, n - k)  BY <1>2
  <2>2. ASSUME NEW o \in Nat, o < k, ~OnTheWay(f[o], t, M, n - o) PROVE FALSE
    <3>1. o \in T  BY <2>1, <2>2
    <3>2. k <= o  BY <3>1, <1>2
    <3>. QED  BY <3>2, <2>1, <2>2
  <2>. QED  BY <2>1, <2>2
<1>. HIDE DEF T
<1>4. k \in 0 .. n  BY <1>3
<1>5. f[k] = IF k = 0 THEN t ELSE NextState(f[k - 1])  BY <1>4 DEF IsRun
<1>6. CASE k = 0
  <2>1. f[k] = t /\ n - k = n  BY <1>5, <1>6
  <2>2. OnTheWay(t, t, M, n)  BY DEF OnTheWay
  <2>. QED  BY <2>1, <2>2, <1>3
<1>7. CASE k # 0
  <2>1. PICK u : u = f[k - 1]  OBVIOUS
  <2>2. k - 1 \in Nat /\ k - 1 < k /\ n - (k - 1) = (n - k) + 1  BY <1>3, <1>7
  <2>3. OnTheWay(u, t, M, (n - k) + 1)  BY <2>1, <2>2, <1>3
  <2>4. f[k] = NextState(u)  BY <2>1, <1>5, <1>7
  <2>5. CASE u.todo = <<>>
    <3>1. f[k] = u  BY <2>4, <2>5 DEF NextState
    <3>2. n - k \in Nat  BY <1>3
    <3>3. Len(u.todo) = 0  BY <2>5
    <3>4. OnTheWay(u, t, M, n - k)  BY <2>3, <3>2, <3>3 DEF OnTheWay
    <3>. QED  BY <3>1, <3>4, <1>3
  <2>6. CASE u.todo # <<>>
    <3>1. PICK v : v = Operation(u)  OBVIOUS
    <3>2. f[k] = v  BY <2>4, <2>6, <3>1 DEF NextState
    <3>3. Writing(u, M) /\ (Synced(t) => Synced(u)) /\ Len(u.todo) \in Nat
          /\ Len(u.todo) <= (n - k) + 1
      BY <2>3 DEF OnTheWay
    <3>4. Writing(v, M)  BY <3>1, <3>3, <2>6, OperationWrites
    <3>5. Synced(t) => Synced(v)  BY <3>1, <3>3, <2>6, OperationSyncs
    <3>6. Len(v.todo) \in Nat /\ Len(v.todo) < Len(u.todo)
      BY <3>1, <3>3, <2>6, OperationShortens
    <3>7. Len(v.todo) <= n - k  BY <3>3, <3>6, <1>3
    <3>8. OnTheWay(v, t, M, n - k)  BY <3>4, <3>5, <3>6, <3>7 DEF OnTheWay
    <3>. QED  BY <3>2, <3>8, <1>3
  <2>. QED  BY <2>5, <2>6
<1>. QED  BY <1>6, <1>7

\* A handler's call returns with the cursor on the screen, and it shows the
\* cursor where it is if it did when it began.
LEMMA RunAllEnds ==
  ASSUME NEW M \in {Size, Size + TTY_NUM_COLS}, NEW t, Writing(t, M)
  PROVE  /\ Writing(RunAll(t), M) /\ RunAll(t).todo = <<>>
         /\ RunAll(t).cursor_pos < Size
         /\ (Synced(t) => Shown(RunAll(t)))
<1>1. t.todo \in Seq(Ops)  BY DEF Writing, Devices
<1>2. PICK n : n = Len(t.todo)  OBVIOUS
<1>3. n \in Nat  BY <1>1, <1>2
<1>4. PICK f : f = CHOOSE g : IsRun(g, t, n)  OBVIOUS
<1>5. IsRun(f, t, n)  BY <1>3, <1>4, RunIsDefined DEF RunExists
<1>6. RunAll(t) = f[n]  BY <1>2, <1>4 DEF RunAll, IsRun, NextState
<1>7. PICK d : d = f[n]  OBVIOUS
<1>8. OnTheWay(d, t, M, 0)  BY <1>2, <1>3, <1>5, <1>7, RunInvariant
<1>9. /\ Writing(d, M) /\ (Synced(t) => Synced(d)) /\ Len(d.todo) \in Nat /\ Len(d.todo) <= 0
  BY <1>8 DEF OnTheWay
<1>10. d.todo \in Seq(Ops) /\ d.cursor_pos \in Nat  BY <1>9 DEF Writing, Devices
<1>11. d.todo = <<>>
  <2>1. Len(d.todo) = 0  BY <1>9
  <2>. QED  BY <2>1, <1>10
<1>12. ~Ends(d.todo) /\ ~Moving(d.todo) /\ ~Showing(d)
  BY <1>11 DEF Ends, Moving, Showing
<1>13. ~(d.cursor_pos >= Size)  BY <1>9, <1>12 DEF Writing
<1>14. d.cursor_pos < Size  BY <1>10, <1>13, Sizes
<1>15. Synced(t) => Shown(d)  BY <1>9, <1>12 DEF Synced
<1>. QED  BY <1>6, <1>7, <1>9, <1>11, <1>14, <1>15

-----------------------------------------------------------------------------
(***************************************************************************)
(* The programs of tty.c.                                                  *)
(***************************************************************************)

\* A program can be run from its first operation on, ...
Orderly(q) ==
  q \in Seq(Ops) /\ q # <<>> /\ InOrder(q) /\ q[1][1] \notin Users \cup Ports

\* ... and leaves the cursor on the screen.
Program(q) == Orderly(q) /\ Ends(q)

\* It moves the cursor, whatever the state.
Sure(q) == \E j \in 1 .. Len(q) : q[j][1] \in SureMoves

\* Behind l, q has what p has behind k.
Agree(p, k, q, l) ==
  \A c \in Nat : k + c <= Len(p) => l + c <= Len(q) /\ q[l + c] = p[k + c]

\* What holds of an operation and those behind it holds when more follow that
\* neither use a register nor go to a port.
LEMMA Continued ==
  ASSUME NEW p \in Seq(Ops), NEW q \in Seq(Ops), NEW k \in 1 .. Len(p), NEW l \in 1 .. Len(q),
         Agree(p, k, q, l), Follows(p, k), Checked(p, k),
         (k = Len(p) /\ l < Len(q)) => q[l + 1][1] \notin Users \cup Ports
  PROVE  Follows(q, l) /\ Checked(q, l)
<1>1. Len(p) \in Nat /\ Len(q) \in Nat /\ k \in Nat /\ l \in Nat /\ k <= Len(p)  OBVIOUS
<1>2. q[l] = p[k]
  <2>1. k + 0 <= Len(p) /\ k + 0 = k /\ l + 0 = l /\ 0 \in Nat  BY <1>1
  <2>2. q[l + 0] = p[k + 0]  BY <2>1 DEF Agree
  <2>. QED  BY <2>1, <2>2
<1>3. k < Len(p) => l < Len(q) /\ q[l + 1] = p[k + 1]
  <2>1. k < Len(p) => k + 1 <= Len(p)  BY <1>1
  <2>2. k < Len(p) => l + 1 <= Len(q) /\ q[l + 1] = p[k + 1]  BY <2>1 DEF Agree
  <2>. QED  BY <2>2, <1>1
<1>4. SetsCursor(p, k) => SetsCursor(q, l) /\ k < Len(p)
  <2>1. SUFFICES ASSUME SetsCursor(p, k) PROVE SetsCursor(q, l) /\ k < Len(p)  OBVIOUS
  <2>2. k + 4 <= Len(p)  BY <2>1 DEF SetsCursor
  <2>3. k + 1 <= Len(p) /\ k + 2 <= Len(p) /\ k + 3 <= Len(p) /\ k < Len(p)  BY <2>2, <1>1
  <2>4. /\ l + 4 <= Len(q) /\ q[l + 1] = p[k + 1] /\ q[l + 2] = p[k + 2]
        /\ q[l + 3] = p[k + 3] /\ q[l + 4] = p[k + 4]
    BY <2>2, <2>3 DEF Agree
  <2>. QED  BY <2>1, <2>3, <2>4 DEF SetsCursor
<1>5. Follows(q, l)
  <2>1. CASE k < Len(p)  BY <2>1, <1>2, <1>3, <1>4, Zenon DEF Follows
  <2>2. CASE ~(k < Len(p))
    <3>1. k = Len(p)  BY <2>2, <1>1
    <3>2. q[l][1] # "load" /\ q[l][1] \notin Moves
      BY <2>2, <1>2, <1>4, Zenon DEF Follows
    <3>. QED  BY <3>1, <3>2, Zenon DEF Follows
  <2>. QED  BY <2>1, <2>2
<1>6. Checked(q, l)
  <2>1. q[l][1] \in {"forward", "start"} => l + 5 <= Len(q) /\ q[l + 5][1] = "check"
    BY <1>2 DEF Checked, Agree
  <2>2. q[l][1] = "down" =>
          l + 6 <= Len(q) /\ q[l + 5][1] = "load" /\ q[l + 6][1] = "start"
    <3>1. SUFFICES ASSUME q[l][1] = "down"
                   PROVE  l + 6 <= Len(q) /\ q[l + 5][1] = "load" /\ q[l + 6][1] = "start"
      OBVIOUS
    <3>2. k + 6 <= Len(p) /\ p[k + 5][1] = "load" /\ p[k + 6][1] = "start"
      BY <3>1, <1>2 DEF Checked
    <3>3. k + 5 <= Len(p)  BY <3>2, <1>1
    <3>4. l + 6 <= Len(q) /\ q[l + 5] = p[k + 5] /\ q[l + 6] = p[k + 6]
      BY <3>2, <3>3 DEF Agree
    <3>. QED  BY <3>2, <3>4
  <2>3. q[l][1] = "back" => l + 7 <= Len(q) /\ q[l + 7][1] = "check"
    BY <1>2 DEF Checked, Agree
  <2>4. q[l][1] = "check" =>
          /\ l + TTY_NUM_ROWS + 5 <= Len(q) /\ q[l + TTY_NUM_ROWS + 1][1] = "home"
          /\ \A i \in 1 .. TTY_NUM_ROWS : q[l + i][1] \in Shifts
    <3>1. SUFFICES ASSUME q[l][1] = "check"
                   PROVE  /\ l + TTY_NUM_ROWS + 5 <= Len(q)
                          /\ q[l + TTY_NUM_ROWS + 1][1] = "home"
                          /\ \A i \in 1 .. TTY_NUM_ROWS : q[l + i][1] \in Shifts
      OBVIOUS
    <3>2. /\ k + TTY_NUM_ROWS + 5 <= Len(p) /\ p[k + TTY_NUM_ROWS + 1][1] = "home"
          /\ \A i \in 1 .. TTY_NUM_ROWS : p[k + i][1] \in Shifts
      BY <3>1, <1>2 DEF Checked
    <3>3. \A c \in Nat : c <= TTY_NUM_ROWS + 5 => l + c <= Len(q) /\ q[l + c] = p[k + c]
      <4>1. \A c \in Nat : c <= TTY_NUM_ROWS + 5 => k + c <= Len(p)  BY <3>2, <1>1, Sizes
      <4>. QED  BY <4>1 DEF Agree
    <3>4. PICK c : c = TTY_NUM_ROWS + 1  OBVIOUS
    <3>5. PICK d : d = TTY_NUM_ROWS + 5  OBVIOUS
    <3>6. /\ c \in Nat /\ c <= TTY_NUM_ROWS + 5 /\ d \in Nat /\ d <= TTY_NUM_ROWS + 5
          /\ k + TTY_NUM_ROWS + 1 = k + c /\ l + TTY_NUM_ROWS + 1 = l + c
          /\ l + TTY_NUM_ROWS + 5 = l + d
      BY <3>4, <3>5, <1>1, Sizes
    <3>7. q[l + c] = p[k + c] /\ l + d <= Len(q)  BY <3>3, <3>6
    <3>8. \A i \in 1 .. TTY_NUM_ROWS : i \in Nat /\ i <= TTY_NUM_ROWS + 5  BY Sizes
    <3>9. \A i \in 1 .. TTY_NUM_ROWS : q[l + i] = p[k + i]  BY <3>3, <3>8
    <3>. QED  BY <3>2, <3>6, <3>7, <3>9
  <2>. QED  BY <2>1, <2>2, <2>3, <2>4, Zenon DEF Checked
<1>. QED  BY <1>5, <1>6

\* A program behind operations that are in order with it.
LEMMA Behind ==
  ASSUME NEW a \in Seq(Ops), NEW b, Orderly(b), NEW q, Join(q, a, b),
         \A k \in 1 .. Len(a) : Follows(q, k) /\ Checked(q, k)
  PROVE  InOrder(q)
<1>1. /\ q \in Seq(Ops) /\ Len(a) \in Nat /\ Len(b) \in Nat /\ Len(q) = Len(a) + Len(b)
      /\ b \in Seq(Ops) /\ InOrder(b) /\ \A i \in 1 .. Len(b) : q[Len(a) + i] = b[i]
  BY DEF Join, Orderly
<1>2. SUFFICES ASSUME NEW l \in 1 .. Len(q), ~(l <= Len(a))
               PROVE  Follows(q, l) /\ Checked(q, l)
  <2>1. ASSUME NEW l \in 1 .. Len(q), l <= Len(a) PROVE Follows(q, l) /\ Checked(q, l)
    <3>1. l \in 1 .. Len(a)  BY <2>1, <1>1
    <3>. QED  BY <3>1
  <2>. QED  BY <2>1, <1>2 DEF InOrder
<1>3. PICK k : k = l - Len(a)  OBVIOUS
<1>4. k \in 1 .. Len(b) /\ k \in Nat /\ l \in Nat /\ l = Len(a) + k  BY <1>1, <1>2, <1>3
<1>5. Agree(b, k, q, l)
  <2>1. SUFFICES ASSUME NEW c \in Nat, k + c <= Len(b)
                 PROVE  l + c <= Len(q) /\ q[l + c] = b[k + c]
    BY DEF Agree
  <2>2. k + c \in 1 .. Len(b) /\ l + c = Len(a) + (k + c) /\ l + c <= Len(q)
    BY <2>1, <1>1, <1>4
  <2>. QED  BY <2>2, <1>1
<1>6. ~(k = Len(b) /\ l < Len(q))  BY <1>1, <1>4
<1>7. Follows(b, k) /\ Checked(b, k)  BY <1>1, <1>4 DEF InOrder
<1>. QED  BY <1>1, <1>2, <1>4, <1>5, <1>6, <1>7, Continued

\* One program after another is a program.
LEMMA OrderlyJoin ==
  ASSUME NEW a, Orderly(a), NEW b, Orderly(b), NEW q, Join(q, a, b)
  PROVE  Orderly(q) /\ q[1] = a[1]
<1>1. /\ q \in Seq(Ops) /\ Len(a) \in Nat /\ Len(b) \in Nat /\ Len(q) = Len(a) + Len(b)
      /\ a \in Seq(Ops) /\ b \in Seq(Ops) /\ InOrder(a) /\ a # <<>> /\ b # <<>>
      /\ \A i \in 1 .. Len(a) : q[i] = a[i]
      /\ \A i \in 1 .. Len(b) : q[Len(a) + i] = b[i]
      /\ b[1][1] \notin Users \cup Ports
  BY DEF Join, Orderly
<1>2. Len(a) >= 1 /\ Len(b) >= 1  BY <1>1
<1>3. q[1] = a[1] /\ q # <<>> /\ 1 \in 1 .. Len(b)  BY <1>1, <1>2
<1>4. ASSUME NEW k \in 1 .. Len(a) PROVE Follows(q, k) /\ Checked(q, k)
  <2>1. k \in 1 .. Len(q) /\ k \in Nat  BY <1>1, <1>4
  <2>2. Agree(a, k, q, k)
    <3>1. SUFFICES ASSUME NEW c \in Nat, k + c <= Len(a)
                   PROVE  k + c <= Len(q) /\ q[k + c] = a[k + c]
      BY DEF Agree
    <3>2. k + c \in 1 .. Len(a) /\ k + c <= Len(q)  BY <3>1, <2>1, <1>1
    <3>. QED  BY <3>2, <1>1
  <2>3. k = Len(a) => q[k + 1] = b[1]  BY <1>1, <1>3
  <2>4. Follows(a, k) /\ Checked(a, k)  BY <1>1, <1>4 DEF InOrder
  <2>. QED  BY <2>1, <2>2, <2>3, <2>4, <1>1, Continued
<1>5. InOrder(q)  BY <1>1, <1>4, Behind
<1>. QED  BY <1>1, <1>3, <1>5 DEF Orderly

\* The test at the end of the second program is at the end of both.
LEMMA EndsJoin ==
  ASSUME NEW a, NEW b, NEW q, Join(q, a, b)
  PROVE  (Ends(b) => Ends(q)) /\ (Sure(a) => Sure(q))
<1>1. /\ Len(a) \in Nat /\ Len(b) \in Nat /\ Len(q) = Len(a) + Len(b)
      /\ \A i \in 1 .. Len(a) : q[i] = a[i]
      /\ \A i \in 1 .. Len(b) : q[Len(a) + i] = b[i]
  BY DEF Join
<1>2. ASSUME Ends(b) PROVE Ends(q)
  <2>1. PICK j \in 1 .. Len(b) : b[j][1] \in {"check", "home"}  BY <1>2 DEF Ends
  <2>2. PICK i : i = Len(a) + j  OBVIOUS
  <2>3. i \in 1 .. Len(q) /\ q[i] = b[j]  BY <2>2, <1>1
  <2>. QED  BY <2>1, <2>3 DEF Ends
<1>3. ASSUME Sure(a) PROVE Sure(q)
  <2>1. PICK j \in 1 .. Len(a) : a[j][1] \in SureMoves  BY <1>3 DEF Sure
  <2>2. j \in 1 .. Len(q) /\ q[j] = a[j]  BY <1>1
  <2>. QED  BY <2>1, <2>2 DEF Sure
<1>. QED  BY <1>2, <1>3

\* The way home is a program.
LEMMA HomeProgram ==
  ASSUME NEW h, NEW i, HomeIs(h, i)
  PROVE  Program(h)
<1>1. /\ h \in Seq(Ops) /\ Len(h) = 5 /\ h[1] = <<"home", i>>
      /\ h[2] = <<"index", "high">> /\ h[3] = <<"data", "high">>
      /\ h[4] = <<"index", "low">> /\ h[5] = <<"data", "low">>
  BY DEF HomeIs
<1>2. SetsCursor(h, 1)  BY <1>1 DEF SetsCursor
<1>3. ASSUME NEW k \in 1 .. Len(h) PROVE Follows(h, k) /\ Checked(h, k)
  <2>1. k = 1 \/ k = 2 \/ k = 3 \/ k = 4 \/ k = 5  BY <1>1, <1>3
  <2>2. Follows(h, k)
    BY <2>1, <1>1, <1>2 DEF Follows, Users, LowUsers, Moves, SureMoves, Ports
  <2>3. Checked(h, k)  BY <2>1, <1>1 DEF Checked
  <2>. QED  BY <2>2, <2>3
<1>4. h # <<>> /\ 1 \in 1 .. Len(h)  BY <1>1
<1>5. Ends(h)  BY <1>1, <1>4 DEF Ends
<1>6. h[1][1] \notin Users \cup Ports  BY <1>1 DEF Users, LowUsers, Ports
<1>. QED  BY <1>1, <1>3, <1>4, <1>5, <1>6 DEF Program, Orderly, InOrder

\* The test, with what it guards, is a program.
LEMMA CheckProgram == Program(tty_check) /\ CheckIs(tty_check)
<1>1. PICK q : q = tty_check  OBVIOUS
<1>2. CheckIs(q)  BY <1>1, CheckShape
<1>3. PICK m : m = TTY_NUM_ROWS  OBVIOUS
<1>4. m \in Nat /\ m >= 2  BY <1>3, Sizes
<1>5. /\ q \in Seq(Ops) /\ Len(q) = m + 6 /\ q[1] = <<"check", Size>>
      /\ \A i \in 1 .. m : q[1 + i][1] \in Shifts
      /\ q[m + 2][1] = "home"
      /\ q[m + 3] = <<"index", "high">> /\ q[m + 4] = <<"data", "high">>
      /\ q[m + 5] = <<"index", "low">> /\ q[m + 6] = <<"data", "low">>
  BY <1>2, <1>3 DEF CheckIs
<1>6. \A i \in 2 .. (m + 1) : q[i][1] \in Shifts
  <2>1. SUFFICES ASSUME NEW i \in 2 .. (m + 1) PROVE q[i][1] \in Shifts  OBVIOUS
  <2>2. i - 1 \in 1 .. m /\ 1 + (i - 1) = i  BY <2>1, <1>4
  <2>. QED  BY <2>2, <1>5
<1>7. ASSUME NEW k \in 1 .. Len(q) PROVE Follows(q, k) /\ Checked(q, k)
  <2>1. \/ k = 1 \/ k \in 2 .. (m + 1) \/ k = m + 2 \/ k = m + 3 \/ k = m + 4
        \/ k = m + 5 \/ k = m + 6
    BY <1>4, <1>5, <1>7
  <2>2. CASE k = 1
    <3>1. 2 \in 2 .. (m + 1) /\ 1 < Len(q) /\ 1 + 1 = 2  BY <1>4, <1>5
    <3>2. q[2][1] \in Shifts  BY <3>1, <1>6
    <3>3. Follows(q, 1)
      BY <3>1, <3>2, <1>5 DEF Follows, Users, LowUsers, Moves, SureMoves, Ports, Shifts
    <3>4. 1 + TTY_NUM_ROWS + 5 = m + 6 /\ 1 + TTY_NUM_ROWS + 1 = m + 2  BY <1>3, <1>4
    <3>5. 1 + TTY_NUM_ROWS + 5 <= Len(q)  BY <3>4, <1>4, <1>5
    <3>6. Checked(q, 1)  BY <3>4, <3>5, <1>3, <1>5 DEF Checked
    <3>. QED  BY <3>3, <3>6, <2>2
  <2>3. CASE k \in 2 .. (m + 1)
    <3>1. q[k][1] \in Shifts  BY <2>3, <1>6
    <3>2. k + 1 \in 2 .. (m + 1) \/ k + 1 = m + 2  BY <2>3, <1>4
    <3>3. q[k + 1][1] \in Shifts \/ q[k + 1][1] = "home"  BY <3>2, <1>5, <1>6
    <3>4. Follows(q, k)
      BY <3>1, <3>3 DEF Follows, Users, LowUsers, Moves, SureMoves, Ports, Shifts
    <3>5. Checked(q, k)  BY <3>1 DEF Checked, Shifts
    <3>. QED  BY <3>4, <3>5
  <2>4. CASE k = m + 2
    <3>1. k + 1 = m + 3 /\ k + 2 = m + 4 /\ k + 3 = m + 5 /\ k + 4 = m + 6 /\ k + 4 <= Len(q)
      BY <2>4, <1>4, <1>5
    <3>2. SetsCursor(q, k)  BY <3>1, <1>5 DEF SetsCursor
    <3>3. q[k][1] = "home"  BY <2>4, <1>5
    <3>4. Follows(q, k)
      BY <3>2, <3>3, <1>5, <3>1 DEF Follows, Users, LowUsers, Moves, SureMoves, Ports
    <3>5. Checked(q, k)  BY <3>3 DEF Checked
    <3>. QED  BY <3>4, <3>5
  <2>5. CASE k = m + 3 \/ k = m + 4 \/ k = m + 5
    <3>1. k + 1 = m + 4 \/ k + 1 = m + 5 \/ k + 1 = m + 6  BY <2>5, <1>4
    <3>2. q[k][1] \in Ports /\ q[k] # <<"data", "low">> /\ q[k + 1][1] \in Ports
      BY <3>1, <2>5, <1>5 DEF Ports
    <3>3. Follows(q, k)  BY <3>2 DEF Follows, Users, LowUsers, Moves, SureMoves, Ports
    <3>4. Checked(q, k)  BY <3>2 DEF Checked, Ports
    <3>. QED  BY <3>3, <3>4
  <2>6. CASE k = m + 6
    <3>1. ~(k < Len(q)) /\ q[k] = <<"data", "low">>  BY <2>6, <1>4, <1>5
    <3>2. Follows(q, k)  BY <3>1 DEF Follows, Moves, SureMoves
    <3>3. Checked(q, k)  BY <3>1 DEF Checked
    <3>. QED  BY <3>2, <3>3
  <2>. QED  BY <2>1, <2>2, <2>3, <2>4, <2>5, <2>6
<1>8. q # <<>> /\ 1 \in 1 .. Len(q)  BY <1>4, <1>5
<1>9. Ends(q)  BY <1>5, <1>8 DEF Ends
<1>10. q[1][1] \notin Users \cup Ports  BY <1>5 DEF Users, LowUsers, Ports
<1>11. Program(q)  BY <1>5, <1>7, <1>8, <1>9, <1>10 DEF Program, Orderly, InOrder
<1>. QED  BY <1>1, <1>2, <1>11

\* tty_clear is a program, and it moves the cursor whatever the state.
LEMMA ClearProgram == Program(tty_clear) /\ Moving(tty_clear)
<1>1. PICK a : a = [i \in 1 .. TTY_NUM_ROWS |-> <<"blank", i - 1>>]  OBVIOUS
<1>2. PICK h : h = tty_home(0)  OBVIOUS
<1>3. 0 \in 0 .. (TTY_NUM_ROWS - 1)  BY Sizes
<1>4. HomeIs(h, 0)  BY <1>2, <1>3, Home
<1>5. Program(h)  BY <1>4, HomeProgram
<1>6. PICK n : n = TTY_NUM_ROWS  OBVIOUS
<1>7. n \in Nat /\ n >= 2  BY <1>6, Sizes
<1>8. a \in [1 .. n -> Ops]
  <2>1. ASSUME NEW i \in 1 .. n PROVE <<"blank", i - 1>> \in Ops
    <3>1. i - 1 \in 0 .. (TTY_NUM_ROWS - 1)  BY <2>1, <1>6, <1>7
    <3>. QED  BY <3>1 DEF Ops
  <2>. QED  BY <2>1, <1>1, <1>6
<1>9. a \in Seq(Ops) /\ Len(a) = n  BY <1>7, <1>8, Listed
<1>10. \A i \in 1 .. n : a[i][1] = "blank"  BY <1>1, <1>6
<1>11. Orderly(a)
  <2>1. ASSUME NEW k \in 1 .. Len(a) PROVE Follows(a, k) /\ Checked(a, k)
    <3>1. a[k][1] = "blank"  BY <2>1, <1>9, <1>10
    <3>2. k < Len(a) => k + 1 \in 1 .. n  BY <2>1, <1>7, <1>9
    <3>3. k < Len(a) => a[k + 1][1] = "blank"  BY <3>2, <1>10
    <3>4. Follows(a, k)
      BY <3>1, <3>3 DEF Follows, Users, LowUsers, Moves, SureMoves, Ports
    <3>5. Checked(a, k)  BY <3>1 DEF Checked
    <3>. QED  BY <3>4, <3>5
  <2>2. a # <<>> /\ 1 \in 1 .. n  BY <1>7, <1>9
  <2>3. a[1][1] \notin Users \cup Ports  BY <2>2, <1>10 DEF Users, LowUsers, Ports
  <2>. QED  BY <2>1, <2>2, <2>3, <1>9 DEF Orderly, InOrder
<1>12. PICK q : q = a \o h  OBVIOUS
<1>13. h \in Seq(Ops) /\ Len(h) = 5 /\ h[1][1] = "home" /\ Orderly(h) /\ Ends(h)
  BY <1>4, <1>5 DEF HomeIs, Program
<1>14. Join(q, a, h)  BY <1>9, <1>12, <1>13, Joined
<1>15. Orderly(q) /\ Ends(q)  BY <1>11, <1>13, <1>14, OrderlyJoin, EndsJoin
<1>16. Moving(q)
  <2>1. PICK j : j = n + 1  OBVIOUS
  <2>2. /\ j \in 1 .. Len(q) /\ q[j] = h[1] /\ \A i \in 1 .. n : q[i] = a[i]
    BY <2>1, <1>7, <1>9, <1>13, <1>14 DEF Join
  <2>3. \A i \in 1 .. (j - 1) : i \in 1 .. n  BY <2>1, <1>7
  <2>4. \A i \in 1 .. (j - 1) : q[i][1] # "check"  BY <2>2, <2>3, <1>10
  <2>. QED  BY <2>2, <2>4, <1>13 DEF Moving
<1>17. tty_clear = q  BY <1>1, <1>2, <1>12 DEF tty_clear
<1>. QED  BY <1>15, <1>16, <1>17 DEF Program

MoveIs(m, how) ==
  /\ m \in Seq(Ops) /\ Len(m) = 6 /\ m[1] = <<"load">> /\ m[2] = <<how>>
  /\ m[3] = <<"index", "high">> /\ m[4] = <<"data", "high">>
  /\ m[5] = <<"index", "low">> /\ m[6] = <<"data", "low">>

\* A call of move_cursor.
LEMMA MoveShape ==
  ASSUME NEW how \in {"forward", "down", "start", "back"}
  PROVE  MoveIs(move_cursor(how), how)
<1>1. PICK a : a = << <<"load">>, <<how>> >>  OBVIOUS
<1>2. <<"load">> \in Ops /\ <<how>> \in Ops  BY DEF Ops
<1>3. a \in Seq(Ops) /\ Len(a) = 2 /\ a[1] = <<"load">> /\ a[2] = <<how>>  BY <1>1, <1>2
<1>4. PICK c : c = set_cursor  OBVIOUS
<1>5. /\ c \in Seq(Ops) /\ Len(c) = 4
      /\ c[1] = <<"index", "high">> /\ c[2] = <<"data", "high">>
      /\ c[3] = <<"index", "low">> /\ c[4] = <<"data", "low">>
  BY <1>4, SetCursorIs
<1>6. PICK m : m = a \o c  OBVIOUS
<1>7. Join(m, a, c)  BY <1>3, <1>5, <1>6, Joined
<1>8. /\ m \in Seq(Ops) /\ Len(m) = 6 /\ m[1] = a[1] /\ m[2] = a[2]
      /\ m[3] = c[1] /\ m[4] = c[2] /\ m[5] = c[3] /\ m[6] = c[4]
  BY <1>3, <1>5, <1>7 DEF Join
<1>9. move_cursor(how) = m  BY <1>1, <1>4, <1>6 DEF move_cursor
<1>10. MoveIs(m, how)  BY <1>3, <1>5, <1>8 DEF MoveIs
<1>. QED  BY <1>9, <1>10

WriteIs(w) ==
  w \in Seq(Ops) /\ Len(w) = 2 /\ w[1] = <<"load">> /\ w[2][1] = "cell"

\* A call of write_cell.
LEMMA WriteShape ==
  ASSUME NEW b \in Glyphs
  PROVE  WriteIs(write_cell(b))
<1>1. <<"load">> \in Ops /\ <<"cell", b>> \in Ops  BY DEF Ops
<1>. QED  BY <1>1 DEF WriteIs, write_cell

\* From position k on, q has a.
Placed(q, k, a) == k + Len(a) <= Len(q) /\ \A i \in 1 .. Len(a) : q[k + i] = a[i]

\* There, q has a call of move_cursor, a call of write_cell, the test.
MoveAt(q, k, how) ==
  q[k + 1][1] = "load" /\ q[k + 2][1] = how /\ SetsCursor(q, k + 2)
CellAt(q, k) == k + 2 <= Len(q) /\ q[k + 1][1] = "load" /\ q[k + 2][1] = "cell"
CheckAt(q, k) == k + 1 <= Len(q) /\ q[k + 1][1] = "check"

Ordered(q, k, n) == \A i \in 1 .. n : Follows(q, k + i) /\ Checked(q, k + i)

\* Where the parts of a join are.
LEMMA JoinPlaced ==
  ASSUME NEW a, NEW b, NEW q, Join(q, a, b)
  PROVE  Placed(q, 0, a) /\ Placed(q, Len(a), b)
<1>1. /\ Len(a) \in Nat /\ Len(b) \in Nat /\ Len(q) = Len(a) + Len(b)
      /\ \A i \in 1 .. Len(a) : q[i] = a[i]
      /\ \A i \in 1 .. Len(b) : q[Len(a) + i] = b[i]
  BY DEF Join
<1>2. \A i \in 1 .. Len(a) : 0 + i = i  BY <1>1
<1>. QED  BY <1>1, <1>2 DEF Placed

\* A part of a part.
LEMMA PlacedTwice ==
  ASSUME NEW a \in Seq(Ops), NEW b \in Seq(Ops), NEW q \in Seq(Ops), NEW k \in Nat,
         Placed(q, 0, a), Placed(a, k, b)
  PROVE  Placed(q, k, b)
<1>1. Len(a) \in Nat /\ Len(b) \in Nat /\ Len(q) \in Nat  OBVIOUS
<1>2. /\ 0 + Len(a) <= Len(q) /\ k + Len(b) <= Len(a)
      /\ \A i \in 1 .. Len(a) : q[0 + i] = a[i] /\ 0 + i = i
      /\ \A i \in 1 .. Len(b) : a[k + i] = b[i] /\ k + i \in 1 .. Len(a)
  BY <1>1 DEF Placed
<1>3. \A i \in 1 .. Len(b) : q[k + i] = b[i]  BY <1>2
<1>4. k + Len(b) <= Len(q)  BY <1>1, <1>2
<1>. QED  BY <1>3, <1>4 DEF Placed

\* A call of move_cursor in its place.
LEMMA MovePlaced ==
  ASSUME NEW q, NEW k \in Nat, NEW m, NEW how, MoveIs(m, how), Placed(q, k, m)
  PROVE  MoveAt(q, k, how)
<1>1. /\ Len(m) = 6 /\ m[1] = <<"load">> /\ m[2] = <<how>>
      /\ m[3] = <<"index", "high">> /\ m[4] = <<"data", "high">>
      /\ m[5] = <<"index", "low">> /\ m[6] = <<"data", "low">>
  BY DEF MoveIs
<1>2. /\ q[k + 1] = m[1] /\ q[k + 2] = m[2] /\ q[k + 3] = m[3] /\ q[k + 4] = m[4]
      /\ q[k + 5] = m[5] /\ q[k + 6] = m[6] /\ k + 6 <= Len(q)
  BY <1>1, SMTT(30) DEF Placed
<1>3. PICK l : l = k + 2  OBVIOUS
<1>4. l + 1 = k + 3 /\ l + 2 = k + 4 /\ l + 3 = k + 5 /\ l + 4 = k + 6  BY <1>3
<1>5. SetsCursor(q, l)  BY <1>1, <1>2, <1>4 DEF SetsCursor
<1>. QED  BY <1>1, <1>2, <1>3, <1>5 DEF MoveAt

\* A call of write_cell and the test in their places.
LEMMA OthersPlaced ==
  ASSUME NEW q, NEW k \in Nat, NEW a, Placed(q, k, a)
  PROVE  (WriteIs(a) => CellAt(q, k)) /\ (CheckIs(a) => CheckAt(q, k))
<1>1. ASSUME WriteIs(a) PROVE CellAt(q, k)
  BY <1>1 DEF Placed, WriteIs, CellAt
<1>2. ASSUME CheckIs(a) PROVE CheckAt(q, k)
  <2>1. a \in Seq(Ops) /\ Len(a) = TTY_NUM_ROWS + 6 /\ a[1] = <<"check", Size>>
    BY <1>2 DEF CheckIs
  <2>2. Len(a) \in Nat /\ Len(a) >= 1 /\ 1 \in 1 .. Len(a)  BY <2>1, Sizes
  <2>3. q[k + 1] = a[1] /\ k + Len(a) <= Len(q)  BY <2>2 DEF Placed
  <2>4. k + 1 <= k + Len(a)  BY <2>2
  <2>. QED  BY <2>1, <2>2, <2>3, <2>4 DEF CheckAt
<1>. QED  BY <1>1, <1>2

\* The operations of write_cell are in order.
LEMMA CellOrder ==
  ASSUME NEW q \in Seq(Ops), NEW k \in Nat, CellAt(q, k),
         k + 2 < Len(q) => q[k + 3][1] \notin Users \cup Ports
  PROVE  Ordered(q, k, 2)
<1>1. Len(q) \in Nat /\ k + 2 <= Len(q) /\ k + 1 < Len(q) /\ (k + 1) + 1 = k + 2
      /\ (k + 2) + 1 = k + 3
  BY DEF CellAt
<1>2. q[k + 1][1] = "load" /\ q[k + 2][1] = "cell"  BY DEF CellAt
<1>3. Follows(q, k + 1) /\ Checked(q, k + 1)
  BY <1>1, <1>2 DEF Follows, Checked, Users, LowUsers, Moves, SureMoves, Ports
<1>4. Follows(q, k + 2)  BY <1>1, <1>2 DEF Follows, Moves, SureMoves
<1>5. Checked(q, k + 2)  BY <1>2 DEF Checked
<1>6. \A i \in 1 .. 2 : i = 1 \/ i = 2  OBVIOUS
<1>. QED  BY <1>3, <1>4, <1>5, <1>6 DEF Ordered

\* The operations of move_cursor are in order when the test follows.
LEMMA MoveOrder ==
  ASSUME NEW q \in Seq(Ops), NEW k \in Nat, NEW how \in SureMoves \cup {"back"},
         MoveAt(q, k, how), Checked(q, k + 2),
         k + 6 < Len(q) => q[k + 7][1] \notin Users \cup Ports
  PROVE  Ordered(q, k, 6)
<1>1. PICK l : l = k + 2  OBVIOUS
<1>2. SetsCursor(q, l)  BY <1>1 DEF MoveAt
<1>3. /\ l + 4 <= Len(q)
      /\ q[l + 1] = <<"index", "high">> /\ q[l + 2] = <<"data", "high">>
      /\ q[l + 3] = <<"index", "low">> /\ q[l + 4] = <<"data", "low">>
  BY <1>2 DEF SetsCursor
<1>4. /\ Len(q) \in Nat /\ k + 1 < Len(q) /\ (k + 1) + 1 = k + 2 /\ (k + 2) + 1 = k + 3
      /\ (k + 3) + 1 = k + 4 /\ (k + 4) + 1 = k + 5 /\ (k + 5) + 1 = k + 6
      /\ (k + 6) + 1 = k + 7
      /\ l + 1 = k + 3 /\ l + 2 = k + 4 /\ l + 3 = k + 5 /\ l + 4 = k + 6
  BY <1>1, <1>3
<1>5. /\ q[k + 3] = <<"index", "high">> /\ q[k + 4] = <<"data", "high">>
      /\ q[k + 5] = <<"index", "low">> /\ q[k + 6] = <<"data", "low">>
      /\ q[k + 1][1] = "load" /\ q[k + 2][1] = how
  BY <1>3, <1>4 DEF MoveAt
<1>6. Follows(q, k + 1)
  BY <1>4, <1>5 DEF Follows, Users, LowUsers, Moves, SureMoves, Ports
<1>7. Follows(q, k + 2)
  <2>1. q[(k + 2) + 1][1] \notin Users  BY <1>4, <1>5 DEF Users, LowUsers
  <2>2. q[k + 2][1] \in Moves /\ q[k + 2][1] # "load" /\ q[k + 2] # <<"data", "low">>
    BY <1>5 DEF Moves, SureMoves
  <2>. QED  BY <2>1, <2>2, <1>1, <1>2 DEF Follows
<1>8. Follows(q, k + 3)
  BY <1>4, <1>5 DEF Follows, Users, LowUsers, Moves, SureMoves, Ports
<1>9. Follows(q, k + 4)
  BY <1>4, <1>5 DEF Follows, Users, LowUsers, Moves, SureMoves, Ports
<1>10. Follows(q, k + 5)
  BY <1>4, <1>5 DEF Follows, Users, LowUsers, Moves, SureMoves, Ports
<1>11. Follows(q, k + 6)
  <2>1. q[k + 6][1] # "load" /\ q[k + 6][1] \notin Moves  BY <1>5 DEF Moves, SureMoves
  <2>2. k + 6 < Len(q) => q[(k + 6) + 1][1] \notin Users \cup Ports  BY <1>4
  <2>. QED  BY <2>1, <2>2, Zenon DEF Follows
<1>12. /\ Checked(q, k + 1) /\ Checked(q, k + 3) /\ Checked(q, k + 4) /\ Checked(q, k + 5)
       /\ Checked(q, k + 6)
  BY <1>5 DEF Checked
<1>13. \A i \in 1 .. 6 : i = 1 \/ i = 2 \/ i = 3 \/ i = 4 \/ i = 5 \/ i = 6  OBVIOUS
<1>. QED  BY <1>6, <1>7, <1>8, <1>9, <1>10, <1>11, <1>12, <1>13 DEF Ordered

\* A part in order and the next one.
LEMMA OrderedOn ==
  ASSUME NEW q, NEW k \in Nat, NEW n \in Nat, Ordered(q, 0, k), Ordered(q, k, n)
  PROVE  Ordered(q, 0, k + n)
<1>1. SUFFICES ASSUME NEW i \in 1 .. (k + n) PROVE Follows(q, 0 + i) /\ Checked(q, 0 + i)
  BY DEF Ordered
<1>2. CASE i <= k
  <2>1. i \in 1 .. k  BY <1>1, <1>2
  <2>. QED  BY <2>1 DEF Ordered
<1>3. CASE ~(i <= k)
  <2>1. PICK j : j = i - k  OBVIOUS
  <2>2. j \in 1 .. n /\ k + j = 0 + i  BY <2>1, <1>1, <1>3
  <2>3. Follows(q, k + j) /\ Checked(q, k + j)  BY <2>2 DEF Ordered
  <2>. QED  BY <2>2, <2>3
<1>. QED  BY <1>2, <1>3

\* Operations before the test are a program when they are in order with it.
LEMMA BeforeCheck ==
  ASSUME NEW a \in Seq(Ops), a # <<>>, NEW q, Join(q, a, tty_check), Ordered(q, 0, Len(a)),
         a[1][1] = "load"
  PROVE  Program(q)
<1>1. PICK c : c = tty_check  OBVIOUS
<1>2. Program(c)  BY <1>1, CheckProgram
<1>3. Orderly(c) /\ Ends(c) /\ Join(q, a, c)  BY <1>1, <1>2 DEF Program
<1>4. \A k \in 1 .. Len(a) : Follows(q, k) /\ Checked(q, k)
  <2>1. SUFFICES ASSUME NEW k \in 1 .. Len(a) PROVE Follows(q, k) /\ Checked(q, k)  OBVIOUS
  <2>2. Follows(q, 0 + k) /\ Checked(q, 0 + k)  BY DEF Ordered
  <2>3. 0 + k = k  OBVIOUS
  <2>. QED  BY <2>2, <2>3
<1>5. InOrder(q)  BY <1>3, <1>4, Behind
<1>6. Ends(q)  BY <1>3, EndsJoin
<1>7. Len(a) \in Nat /\ Len(a) >= 1  OBVIOUS
<1>8. q \in Seq(Ops) /\ q[1] = a[1] /\ Len(q) >= 1
  BY <1>3, <1>7 DEF Join
<1>9. q # <<>>  BY <1>8
<1>10. q[1][1] \notin Users \cup Ports  BY <1>8 DEF Users, LowUsers, Ports
<1>. QED  BY <1>5, <1>6, <1>8, <1>9, <1>10 DEF Program, Orderly

\* Two calls and the test are where they are expected.
Parts(q, a, w, m) ==
  /\ a \in Seq(Ops) /\ a # <<>> /\ Len(a) = Len(w) + Len(m) /\ a[1] = w[1]
  /\ q \in Seq(Ops) /\ Join(q, a, tty_check)
  /\ Placed(q, 0, w) /\ Placed(q, Len(w), m) /\ CheckAt(q, Len(a))

\* Two calls before the test.
LEMMA TwoCalls ==
  ASSUME NEW w \in Seq(Ops), w # <<>>, NEW m \in Seq(Ops)
  PROVE  Parts((w \o m) \o tty_check, w \o m, w, m)
<1>1. PICK a : a = w \o m  OBVIOUS
<1>2. PICK c : c = tty_check  OBVIOUS
<1>3. PICK q : q = a \o c  OBVIOUS
<1>4. CheckIs(c)  BY <1>2, CheckProgram
<1>5. c \in Seq(Ops)  BY <1>4 DEF CheckIs
<1>6. Join(a, w, m)  BY <1>1, Joined
<1>7. a \in Seq(Ops) /\ Len(a) = Len(w) + Len(m) /\ Len(w) \in Nat /\ Len(m) \in Nat
  BY <1>6 DEF Join
<1>8. Len(w) >= 1  OBVIOUS
<1>9. a # <<>> /\ a[1] = w[1]  BY <1>6, <1>7, <1>8 DEF Join
<1>10. Join(q, a, c)  BY <1>3, <1>5, <1>7, Joined
<1>11. q \in Seq(Ops)  BY <1>10 DEF Join
<1>12. Placed(q, 0, a) /\ Placed(q, Len(a), c)  BY <1>10, JoinPlaced
<1>13. Placed(a, 0, w) /\ Placed(a, Len(w), m)  BY <1>6, JoinPlaced
<1>14. Placed(q, 0, w)
  <2>1. 0 \in Nat  OBVIOUS
  <2>. QED  BY <2>1, <1>7, <1>11, <1>12, <1>13, PlacedTwice
<1>15. Placed(q, Len(w), m)
  BY <1>7, <1>11, <1>12, <1>13, PlacedTwice
<1>16. Len(a) \in Nat  BY <1>7
<1>17. CheckAt(q, Len(a))  BY <1>4, <1>12, <1>16, OthersPlaced
<1>18. Parts(q, a, w, m)
  BY <1>2, <1>7, <1>9, <1>10, <1>11, <1>14, <1>15, <1>17 DEF Parts
<1>. QED  BY <1>1, <1>2, <1>3, <1>18

\* A character: the cell, the move forward, the test.
LEMMA TextProgram ==
  ASSUME NEW b \in Glyphs
  PROVE  Program(tty_write_text(b)) /\ Sure(tty_write_text(b))
<1>1. PICK w : w = write_cell(b)  OBVIOUS
<1>2. PICK m : m = move_cursor("forward")  OBVIOUS
<1>3. WriteIs(w) /\ MoveIs(m, "forward")  BY <1>1, <1>2, WriteShape, MoveShape
<1>4. /\ w \in Seq(Ops) /\ w # <<>> /\ Len(w) = 2 /\ w[1][1] = "load"
      /\ m \in Seq(Ops) /\ Len(m) = 6
  BY <1>3 DEF WriteIs, MoveIs
<1>5. PICK a : a = w \o m  OBVIOUS
<1>6. PICK q : q = a \o tty_check  OBVIOUS
<1>7. tty_write_text(b) = q  BY <1>1, <1>2, <1>5, <1>6 DEF tty_write_text
<1>8. Parts(q, a, w, m)  BY <1>4, <1>5, <1>6, TwoCalls
<1>9. /\ a \in Seq(Ops) /\ a # <<>> /\ Len(a) = 8 /\ a[1] = w[1]
      /\ q \in Seq(Ops) /\ Join(q, a, tty_check)
      /\ Placed(q, 0, w) /\ Placed(q, 2, m) /\ CheckAt(q, 8)
  BY <1>4, <1>8 DEF Parts
<1>10. CellAt(q, 0) /\ MoveAt(q, 2, "forward")
  <2>1. 0 \in Nat /\ 2 \in Nat  OBVIOUS
  <2>. QED  BY <2>1, <1>3, <1>9, MovePlaced, OthersPlaced
<1>11. /\ q[3][1] = "load" /\ q[4][1] = "forward" /\ q[9][1] = "check" /\ Len(q) >= 9
       /\ Len(q) \in Nat
  BY <1>9, <1>10 DEF MoveAt, CheckAt
<1>12. Ordered(q, 0, 2)
  <2>1. q[0 + 3][1] \notin Users \cup Ports  BY <1>11 DEF Users, LowUsers, Ports
  <2>. QED  BY <2>1, <1>9, <1>10, CellOrder
<1>13. Ordered(q, 2, 6)
  <2>1. q[2 + 7][1] \notin Users \cup Ports  BY <1>11 DEF Users, LowUsers, Ports
  <2>2. Checked(q, 2 + 2)  BY <1>11 DEF Checked
  <2>3. "forward" \in SureMoves \cup {"back"}  BY DEF SureMoves
  <2>. QED  BY <2>1, <2>2, <2>3, <1>9, <1>10, MoveOrder
<1>14. Ordered(q, 0, 2 + 6)  BY <1>12, <1>13, OrderedOn
<1>15. Program(q)
  <2>1. Ordered(q, 0, Len(a)) /\ a[1][1] = "load"  BY <1>4, <1>9, <1>14
  <2>. QED  BY <2>1, <1>9, BeforeCheck
<1>16. Sure(q)
  <2>1. 4 \in 1 .. Len(q)  BY <1>11
  <2>. QED  BY <2>1, <1>11 DEF Sure, SureMoves
<1>. QED  BY <1>7, <1>15, <1>16

\* A new line: down, to the start, the test.
LEMMA NewlineProgram ==
  ASSUME NEW p, p = move_cursor("down") \o move_cursor("start") \o tty_check
  PROVE  Program(p) /\ Sure(p)
<1>1. PICK w : w = move_cursor("down")  OBVIOUS
<1>2. PICK m : m = move_cursor("start")  OBVIOUS
<1>3. MoveIs(w, "down") /\ MoveIs(m, "start")  BY <1>1, <1>2, MoveShape
<1>4. /\ w \in Seq(Ops) /\ w # <<>> /\ Len(w) = 6 /\ w[1][1] = "load"
      /\ m \in Seq(Ops) /\ Len(m) = 6
  BY <1>3 DEF MoveIs
<1>5. PICK a : a = w \o m  OBVIOUS
<1>6. PICK q : q = a \o tty_check  OBVIOUS
<1>7. p = q  BY <1>1, <1>2, <1>5, <1>6
<1>8. Parts(q, a, w, m)  BY <1>4, <1>5, <1>6, TwoCalls
<1>9. SUFFICES Program(q) /\ Sure(q)  BY <1>7
<1>10. /\ a \in Seq(Ops) /\ a # <<>> /\ Len(a) = 12 /\ a[1] = w[1]
       /\ q \in Seq(Ops) /\ Join(q, a, tty_check)
       /\ Placed(q, 0, w) /\ Placed(q, 6, m) /\ CheckAt(q, 12)
  BY <1>4, <1>8 DEF Parts
<1>11. MoveAt(q, 0, "down") /\ MoveAt(q, 6, "start")
  <2>1. 0 \in Nat /\ 6 \in Nat  OBVIOUS
  <2>. QED  BY <2>1, <1>3, <1>10, MovePlaced
<1>12. q[2][1] = "down" /\ q[7][1] = "load" /\ q[8][1] = "start"  BY <1>11 DEF MoveAt
<1>13. q[13][1] = "check" /\ Len(q) >= 13 /\ Len(q) \in Nat  BY <1>10 DEF CheckAt
<1>14. Ordered(q, 0, 6)
  <2>1. q[0 + 7][1] \notin Users \cup Ports  BY <1>12 DEF Users, LowUsers, Ports
  <2>2. Checked(q, 0 + 2)  BY <1>12, <1>13 DEF Checked
  <2>3. "down" \in SureMoves \cup {"back"}  BY DEF SureMoves
  <2>. QED  BY <2>1, <2>2, <2>3, <1>10, <1>11, MoveOrder
<1>15. Ordered(q, 6, 6)
  <2>1. q[6 + 7][1] \notin Users \cup Ports  BY <1>13 DEF Users, LowUsers, Ports
  <2>2. Checked(q, 6 + 2)  BY <1>12, <1>13 DEF Checked
  <2>3. "start" \in SureMoves \cup {"back"}  BY DEF SureMoves
  <2>. QED  BY <2>1, <2>2, <2>3, <1>10, <1>11, MoveOrder
<1>16. Ordered(q, 0, 6 + 6)  BY <1>14, <1>15, OrderedOn
<1>17. Program(q)
  <2>1. Ordered(q, 0, Len(a)) /\ a[1][1] = "load"  BY <1>4, <1>10, <1>16
  <2>. QED  BY <2>1, <1>10, BeforeCheck
<1>18. Sure(q)
  <2>1. 2 \in 1 .. Len(q)  BY <1>13
  <2>. QED  BY <2>1, <1>12 DEF Sure, SureMoves
<1>. QED  BY <1>17, <1>18

\* Backspace: back, the cell, the test.
LEMMA BackspaceProgram ==
  ASSUME NEW p, p = move_cursor("back") \o write_cell(Space) \o tty_check
  PROVE  Program(p)
<1>1. PICK w : w = move_cursor("back")  OBVIOUS
<1>2. PICK m : m = write_cell(Space)  OBVIOUS
<1>3. MoveIs(w, "back") /\ WriteIs(m)
  <2>1. Space \in Glyphs  BY DEF Glyphs, Space, Newline, Tab, Backspace
  <2>2. WriteIs(m)  BY <2>1, <1>2, WriteShape
  <2>. QED  BY <2>2, <1>1, MoveShape
<1>4. /\ w \in Seq(Ops) /\ w # <<>> /\ Len(w) = 6 /\ w[1][1] = "load"
      /\ m \in Seq(Ops) /\ Len(m) = 2
  BY <1>3 DEF MoveIs, WriteIs
<1>5. PICK a : a = w \o m  OBVIOUS
<1>6. PICK q : q = a \o tty_check  OBVIOUS
<1>7. p = q  BY <1>1, <1>2, <1>5, <1>6
<1>8. Parts(q, a, w, m)  BY <1>4, <1>5, <1>6, TwoCalls
<1>9. SUFFICES Program(q)  BY <1>7
<1>10. /\ a \in Seq(Ops) /\ a # <<>> /\ Len(a) = 8 /\ a[1] = w[1]
       /\ q \in Seq(Ops) /\ Join(q, a, tty_check)
       /\ Placed(q, 0, w) /\ Placed(q, 6, m) /\ CheckAt(q, 8)
  BY <1>4, <1>8 DEF Parts
<1>11. MoveAt(q, 0, "back") /\ CellAt(q, 6)
  <2>1. 0 \in Nat /\ 6 \in Nat  OBVIOUS
  <2>. QED  BY <2>1, <1>3, <1>10, MovePlaced, OthersPlaced
<1>12. q[2][1] = "back" /\ q[7][1] = "load"  BY <1>11 DEF MoveAt, CellAt
<1>13. q[9][1] = "check" /\ Len(q) >= 9 /\ Len(q) \in Nat  BY <1>10 DEF CheckAt
<1>14. Ordered(q, 0, 6)
  <2>1. q[0 + 7][1] \notin Users \cup Ports  BY <1>12 DEF Users, LowUsers, Ports
  <2>2. Checked(q, 0 + 2)  BY <1>12, <1>13 DEF Checked
  <2>3. "back" \in SureMoves \cup {"back"}  OBVIOUS
  <2>. QED  BY <2>1, <2>2, <2>3, <1>10, <1>11, MoveOrder
<1>15. Ordered(q, 6, 2)
  <2>1. q[6 + 3][1] \notin Users \cup Ports  BY <1>13 DEF Users, LowUsers, Ports
  <2>. QED  BY <2>1, <1>10, <1>11, CellOrder
<1>16. Ordered(q, 0, 6 + 2)  BY <1>14, <1>15, OrderedOn
<1>17. Ordered(q, 0, Len(a)) /\ a[1][1] = "load"  BY <1>4, <1>10, <1>16
<1>. QED  BY <1>17, <1>10, BeforeCheck

IsFlat(f, s, n) == f = [i \in 1 .. n |-> IF i = 1 THEN s[i] ELSE f[i - 1] \o s[i]]

FlatExists(s, n) == \E f : IsFlat(f, s, n)

\* The recursive definition of FlattenSeq has a solution.
LEMMA FlatIsDefined ==
  ASSUME NEW s, NEW n \in Nat
  PROVE  FlatExists(s, n)
<1>. DEFINE T == {k \in Nat : ~FlatExists(s, k)}
<1>1. SUFFICES ASSUME T # {} PROVE FALSE  OBVIOUS
<1>2. PICK k \in T : \A o \in T : k <= o
  <2>1. T \in SUBSET Nat  OBVIOUS
  <2>. QED  BY <1>1, <2>1, Smallest
<1>3. k \in Nat /\ ~FlatExists(s, k) /\ \A o \in Nat : o < k => FlatExists(s, o)
  <2>1. k \in Nat /\ ~FlatExists(s, k)  BY <1>2
  <2>2. ASSUME NEW o \in Nat, o < k, ~FlatExists(s, o) PROVE FALSE
    <3>1. o \in T  BY <2>2
    <3>2. k <= o  BY <3>1, <1>2
    <3>. QED  BY <3>2, <2>1, <2>2
  <2>. QED  BY <2>1, <2>2
<1>. HIDE DEF T
<1>4. CASE k = 0
  <2>1. PICK f : f = [i \in 1 .. 0 |-> s]  OBVIOUS
  <2>2. IsFlat(f, s, 0)  BY <2>1 DEF IsFlat
  <2>. QED  BY <2>2, <1>3, <1>4 DEF FlatExists
<1>5. CASE k > 0
  <2>1. k - 1 \in Nat /\ k - 1 < k  BY <1>3, <1>5
  <2>2. PICK f : IsFlat(f, s, k - 1)  BY <2>1, <1>3 DEF FlatExists
  <2>3. PICK l : l = IF k = 1 THEN s[k] ELSE f[k - 1] \o s[k]  OBVIOUS
  <2>4. PICK g : g = [i \in 1 .. k |-> IF i < k THEN f[i] ELSE l]  OBVIOUS
  <2>5. ASSUME NEW i \in 1 .. k
        PROVE  g[i] = IF i = 1 THEN s[i] ELSE g[i - 1] \o s[i]
    <3>1. i # 1 => i - 1 \in 1 .. k /\ i - 1 < k  BY <2>5, <1>3
    <3>2. i # 1 => g[i - 1] = f[i - 1]  BY <3>1, <2>4
    <3>3. CASE i < k
      <4>1. i \in 1 .. (k - 1) /\ g[i] = f[i]  BY <2>5, <3>3, <2>4, <1>3
      <4>2. f[i] = IF i = 1 THEN s[i] ELSE f[i - 1] \o s[i]  BY <4>1, <2>2 DEF IsFlat
      <4>. QED  BY <4>1, <4>2, <3>2
    <3>4. CASE i = k
      <4>1. g[i] = l  BY <3>4, <2>4, <2>5, <1>3
      <4>. QED  BY <4>1, <3>2, <3>4, <2>3
    <3>. QED  BY <2>5, <3>3, <3>4, <1>3
  <2>6. g = [i \in 1 .. k |-> IF i = 1 THEN s[i] ELSE g[i - 1] \o s[i]]
    BY <2>4, <2>5
  <2>7. IsFlat(g, s, k)  BY <2>6 DEF IsFlat
  <2>. QED  BY <2>7, <1>3 DEF FlatExists
<1>. QED  BY <1>3, <1>4, <1>5

FlatGood(p, s) == Program(p) /\ (Sure(s[1]) => Sure(p))

\* Programs one after the other are a program.
LEMMA FlatProgram ==
  ASSUME NEW s, NEW n \in Nat \ {0}, Len(s) = n, \A i \in 1 .. n : Program(s[i])
  PROVE  FlatGood(FlattenSeq(s), s)
<1>1. PICK f : f = CHOOSE g : IsFlat(g, s, n)  OBVIOUS
<1>2. IsFlat(f, s, n)  BY <1>1, FlatIsDefined DEF FlatExists
<1>3. FlattenSeq(s) = f[n]  BY <1>1 DEF FlattenSeq, IsFlat
<1>. DEFINE T == {k \in Nat : k >= 1 /\ k <= n /\ ~FlatGood(f[k], s)}
<1>4. SUFFICES ASSUME T # {} PROVE FALSE
  <2>1. n \notin T  BY <1>4
  <2>2. FlatGood(f[n], s)  BY <2>1
  <2>. QED  BY <2>2, <1>3
<1>5. PICK k \in T : \A o \in T : k <= o
  <2>1. T \in SUBSET Nat  OBVIOUS
  <2>. QED  BY <1>4, <2>1, Smallest
<1>6. /\ k \in Nat /\ k >= 1 /\ k <= n /\ ~FlatGood(f[k], s)
      /\ \A o \in Nat : (o >= 1 /\ o < k) => FlatGood(f[o], s)
  <2>1. k \in Nat /\ k >= 1 /\ k <= n /\ ~FlatGood(f[k], s)  BY <1>5
  <2>2. ASSUME NEW o \in Nat, o >= 1, o < k, ~FlatGood(f[o], s) PROVE FALSE
    <3>1. o \in T  BY <2>1, <2>2
    <3>2. k <= o  BY <3>1, <1>5
    <3>. QED  BY <3>2, <2>1, <2>2
  <2>. QED  BY <2>1, <2>2
<1>. HIDE DEF T
<1>7. k \in 1 .. n  BY <1>6
<1>8. f[k] = IF k = 1 THEN s[k] ELSE f[k - 1] \o s[k]  BY <1>2, <1>7 DEF IsFlat
<1>9. CASE k = 1
  <2>1. FlatGood(s[1], s)  BY <1>7, <1>9 DEF FlatGood
  <2>. QED  BY <2>1, <1>6, <1>8, <1>9
<1>10. CASE k # 1
  <2>1. PICK a : a = f[k - 1]  OBVIOUS
  <2>2. PICK b : b = s[k]  OBVIOUS
  <2>3. PICK q : q = a \o b  OBVIOUS
  <2>4. k - 1 \in Nat /\ k - 1 >= 1 /\ k - 1 < k  BY <1>6, <1>10
  <2>5. FlatGood(a, s)  BY <2>1, <2>4, <1>6
  <2>6. Orderly(a) /\ Orderly(b) /\ Ends(b)  BY <2>2, <2>5, <1>7 DEF FlatGood, Program
  <2>7. a \in Seq(Ops) /\ b \in Seq(Ops)  BY <2>6 DEF Orderly
  <2>8. Join(q, a, b)  BY <2>3, <2>7, Joined
  <2>9. Orderly(q) /\ Ends(q) /\ (Sure(a) => Sure(q))  BY <2>6, <2>8, OrderlyJoin, EndsJoin
  <2>10. FlatGood(q, s)  BY <2>5, <2>9 DEF FlatGood, Program
  <2>11. f[k] = q  BY <2>1, <2>2, <2>3, <1>8, <1>10
  <2>. QED  BY <2>10, <2>11, <1>6
<1>. QED  BY <1>9, <1>10

-----------------------------------------------------------------------------
(***************************************************************************)
(* Bytes, strings and numbers.                                             *)
(***************************************************************************)
Bytes == Glyphs \cup {Newline, Tab, Backspace}

\* What tty_write_byte does.
LEMMA ByteIs ==
  ASSUME NEW b
  PROVE  /\ b = Newline => tty_write_byte(b) =
              move_cursor("down") \o move_cursor("start") \o tty_check
         /\ b = Backspace => tty_write_byte(b) =
              move_cursor("back") \o write_cell(Space) \o tty_check
         /\ b = Tab => tty_write_byte(b) =
              FlattenSeq([i \in 1 .. 4 |-> tty_write_text(Space)]) \o tty_check
         /\ b \notin {Newline, Backspace, Tab} => tty_write_byte(b) = tty_write_text(b)
<1>1. Newline # Backspace /\ Newline # Tab /\ Tab # Backspace
  BY DEF Newline, Tab, Backspace
<1>. QED  BY <1>1 DEF tty_write_byte

\* A byte is a program, and all but backspace move the cursor in any case.
LEMMA ByteProgram ==
  ASSUME NEW b \in Bytes
  PROVE  Program(tty_write_byte(b)) /\ (b # Backspace => Sure(tty_write_byte(b)))
<1>1. CASE b = Newline  BY <1>1, ByteIs, NewlineProgram
<1>2. CASE b = Backspace  BY <1>2, ByteIs, BackspaceProgram
<1>3. CASE b \notin {Newline, Backspace, Tab}
  <2>1. b \in Glyphs  BY <1>3 DEF Bytes
  <2>. QED  BY <2>1, <1>3, ByteIs, TextProgram
<1>4. CASE b = Tab
  <2>1. PICK s : s = [i \in 1 .. 4 |-> tty_write_text(Space)]  OBVIOUS
  <2>2. Space \in Glyphs  BY DEF Glyphs, Space, Newline, Tab, Backspace
  <2>3. Program(tty_write_text(Space)) /\ Sure(tty_write_text(Space))  BY <2>2, TextProgram
  <2>4. \A i \in 1 .. 4 : s[i] = tty_write_text(Space)  BY <2>1
  <2>5. Len(s) = 4  BY <2>1
  <2>6. \A i \in 1 .. 4 : Program(s[i])  BY <2>3, <2>4
  <2>7. PICK a : a = FlattenSeq(s)  OBVIOUS
  <2>8. FlatGood(a, s)
    <3>1. 4 \in Nat \ {0}  OBVIOUS
    <3>. QED  BY <3>1, <2>5, <2>6, <2>7, FlatProgram
  <2>9. Sure(s[1])  BY <2>3, <2>4
  <2>10. Orderly(a) /\ Sure(a)  BY <2>8, <2>9 DEF FlatGood, Program
  <2>11. PICK c : c = tty_check  OBVIOUS
  <2>12. Orderly(c) /\ Ends(c)  BY <2>11, CheckProgram DEF Program
  <2>13. a \in Seq(Ops) /\ c \in Seq(Ops)  BY <2>10, <2>12 DEF Orderly
  <2>14. PICK q : q = a \o c  OBVIOUS
  <2>15. Join(q, a, c)  BY <2>13, <2>14, Joined
  <2>16. Orderly(q) /\ Ends(q) /\ Sure(q)  BY <2>10, <2>12, <2>15, OrderlyJoin, EndsJoin
  <2>17. tty_write_byte(b) = q  BY <1>4, <2>1, <2>7, <2>11, <2>14, ByteIs
  <2>. QED  BY <2>16, <2>17 DEF Program
<1>. QED  BY <1>1, <1>2, <1>3, <1>4

\* So is a string that is not empty.
LEMMA StringProgram ==
  ASSUME NEW s \in Seq(Bytes), s # <<>>
  PROVE  /\ Program(tty_write_string(s))
         /\ s[1] # Backspace => Sure(tty_write_string(s))
<1>1. PICK n : n = Len(s)  OBVIOUS
<1>2. n \in Nat \ {0} /\ DOMAIN s = 1 .. n /\ 1 \in 1 .. n  BY <1>1
<1>3. PICK p : p = [i \in DOMAIN s |-> tty_write_byte(s[i])]  OBVIOUS
<1>4. \A i \in 1 .. n : s[i] \in Bytes /\ p[i] = tty_write_byte(s[i])  BY <1>1, <1>2, <1>3
<1>5. Len(p) = n  BY <1>2, <1>3
<1>6. \A i \in 1 .. n : Program(p[i])  BY <1>4, ByteProgram
<1>7. FlatGood(FlattenSeq(p), p)  BY <1>2, <1>5, <1>6, FlatProgram
<1>8. s[1] # Backspace => Sure(p[1])
  <2>1. s[1] \in Bytes /\ p[1] = tty_write_byte(s[1])  BY <1>2, <1>4
  <2>. QED  BY <2>1, ByteProgram
<1>9. tty_write_string(s) = FlattenSeq(p)  BY <1>3 DEF tty_write_string
<1>. QED  BY <1>7, <1>8, <1>9 DEF FlatGood

\* An empty string is nothing to do.
LEMMA EmptyString == tty_write_string(<<>>) = <<>>
<1>1. PICK e : e = [i \in DOMAIN <<>> |-> tty_write_byte(<<>>[i])]  OBVIOUS
<1>2. e = <<>> /\ Len(e) = 0  BY <1>1
<1>3. FlattenSeq(e) = e  BY <1>2 DEF FlattenSeq
<1>. QED  BY <1>1, <1>2, <1>3 DEF tty_write_string

\* What begins with a string that is not empty.
LEMMA Prefixed ==
  ASSUME NEW S, NEW a \in Seq(S), a # <<>>, NEW d \in Seq(S)
  PROVE  a \o d \in Seq(S) /\ a \o d # <<>> /\ (a \o d)[1] = a[1]
<1>1. Len(a) \in Nat /\ Len(a) >= 1 /\ Len(d) \in Nat  OBVIOUS
<1>2. a \o d \in Seq(S) /\ Len(a \o d) = Len(a) + Len(d)  OBVIOUS
<1>3. Len(a \o d) >= 1  BY <1>1, <1>2
<1>4. a \o d # <<>>  BY <1>3
<1>5. 1 \in 1 .. Len(a)  BY <1>1
<1>6. (a \o d)[1] = a[1]  BY <1>5
<1>. QED  BY <1>2, <1>4, <1>6

\* The digits are bytes, and none of them is a backspace.
LEMMA Digits ==
  /\ \A d \in 0 .. 15 : chars[1 + d] \in Bytes /\ chars[1 + d] # Backspace
  /\ "0" \in Bytes /\ "x" \in Bytes /\ "0" # Backspace
<1>1. DOMAIN chars = 1 .. 16  BY DEF chars
<1>2. \A i \in 1 .. 16 : chars[i] \in Range(chars)  BY <1>1 DEF Range
<1>3. \A i \in 1 .. 16 : chars[i] \in {"0", "1", "2", "3", "4", "5", "6", "7", "8", "9",
                                       "A", "B", "C", "D", "E", "F"}
  BY DEF chars
<1>4. \A i \in 1 .. 16 : chars[i] \notin {Newline, Tab, Backspace}
  BY <1>3 DEF Newline, Tab, Backspace
<1>5. \A i \in 1 .. 16 : chars[i] \in Bytes /\ chars[i] # Backspace
  BY <1>2, <1>4 DEF Bytes, Glyphs
<1>6. \A d \in 0 .. 15 : 1 + d \in 1 .. 16  OBVIOUS
<1>7. chars[1] = "0"  BY DEF chars
<1>8. "0" \in Bytes /\ "0" # Backspace
  <2>1. 1 \in 1 .. 16  OBVIOUS
  <2>. QED  BY <2>1, <1>5, <1>7
<1>9. "x" \in Bytes  BY DEF Bytes, Glyphs, Newline, Tab, Backspace
<1>. QED  BY <1>5, <1>6, <1>8, <1>9

\* A number in hexadecimal is a program that moves the cursor.
LEMMA HexProgram ==
  ASSUME NEW n \in Numbers
  PROVE  Program(tty_write_hex(n)) /\ Sure(tty_write_hex(n))
<1>1. PICK h : h = Base.hex  OBVIOUS
<1>2. PICK w : w = HexWidth  OBVIOUS
<1>3. h \in 2 .. 16 /\ w \in Nat \ {0}  BY <1>1, <1>2, NumbersAssumption
<1>4. \A k \in 0 .. w : h ^ k \in Nat \ {0}  BY <1>1, <1>2, PowersAssumption
<1>5. n \in Nat
  <2>1. PICK l : l = h ^ w  OBVIOUS
  <2>2. l \in Nat \ {0}  BY <2>1, <1>3, <1>4
  <2>3. n \in 0 .. (l - 1)  BY <2>1, <1>1, <1>2, NumbersAssumption
  <2>. QED  BY <2>2, <2>3
<1>6. PICK d : d = [i \in 1 .. w |-> chars[1 + ((n \div (h ^ (w - i))) % h)]]  OBVIOUS
<1>7. ASSUME NEW i \in 1 .. w PROVE d[i] \in Bytes
  <2>1. PICK l : l = h ^ (w - i)  OBVIOUS
  <2>2. w - i \in 0 .. w  BY <1>3, <1>7
  <2>3. l \in Nat \ {0}  BY <2>1, <2>2, <1>4
  <2>4. PICK x : x = n \div l  OBVIOUS
  <2>5. x \in Int  BY <2>3, <2>4, <1>5
  <2>6. x % h \in 0 .. 15  BY <2>5, <1>3
  <2>7. d[i] = chars[1 + (x % h)]  BY <1>6, <1>7, <2>1, <2>4
  <2>. QED  BY <2>6, <2>7, Digits
<1>8. d \in [1 .. w -> Bytes]  BY <1>6, <1>7
<1>9. d \in Seq(Bytes)  BY <1>3, <1>8, Listed
<1>10. PICK a : a = <<"0", "x">>  OBVIOUS
<1>11. a \in Seq(Bytes) /\ Len(a) = 2 /\ a[1] = "0"  BY <1>10, Digits
<1>12. PICK s : s = a \o d  OBVIOUS
<1>13. s \in Seq(Bytes) /\ s # <<>> /\ s[1] = a[1]
  <2>1. a # <<>>  BY <1>11
  <2>. QED  BY <2>1, <1>9, <1>11, <1>12, Prefixed
<1>14. tty_write_hex(n) = tty_write_string(s)
  BY <1>1, <1>2, <1>6, <1>10, <1>12 DEF tty_write_hex
<1>15. s[1] # Backspace  BY <1>11, <1>13, Digits
<1>. QED  BY <1>13, <1>14, <1>15, StringProgram

\* The digits of m, given those of the smaller numbers.
NextDigits(f, m) ==
  IF m = 0 THEN <<>> ELSE <<chars[1 + (m % Base.int)]>> \o f[m \div Base.int]

IsDigits(f, n) == f = [m \in 0 .. n |-> NextDigits(f, m)]

DigitsExist(n) == \E f : IsDigits(f, n)

\* The quotient is smaller.
LEMMA Smaller ==
  ASSUME NEW m \in Nat, m # 0
  PROVE  /\ m \div Base.int \in Nat /\ m \div Base.int < m
         /\ m % Base.int \in 0 .. 15
<1>1. PICK b : b = Base.int  OBVIOUS
<1>2. b \in 2 .. 16  BY <1>1, NumbersAssumption
<1>3. PICK x : x = m \div b  OBVIOUS
<1>4. x \in Int /\ m = (b * x) + (m % b) /\ m % b \in 0 .. (b - 1)  BY <1>2, <1>3
<1>5. m % b \in 0 .. 15  BY <1>2, <1>4
<1>6. x >= 0
  <2>1. SUFFICES ASSUME x < 0 PROVE FALSE  BY <1>4
  <2>2. b * x <= -b  BY <2>1, <1>2, <1>4
  <2>. QED  BY <2>2, <1>2, <1>4
<1>7. x < m
  <2>1. b * x >= 2 * x  BY <1>2, <1>4, <1>6
  <2>2. CASE x = 0  BY <2>2
  <2>3. CASE x > 0  BY <2>1, <2>3, <1>2, <1>4, <1>5
  <2>. QED  BY <2>2, <2>3, <1>4, <1>6
<1>. QED  BY <1>1, <1>3, <1>4, <1>5, <1>6, <1>7

\* The loop that fills reversed[] is defined.
LEMMA DigitsAreDefined ==
  ASSUME NEW n \in Nat
  PROVE  DigitsExist(n)
<1>. DEFINE T == {k \in Nat : ~DigitsExist(k)}
<1>1. SUFFICES ASSUME T # {} PROVE FALSE  OBVIOUS
<1>2. PICK k \in T : \A o \in T : k <= o
  <2>1. T \in SUBSET Nat  OBVIOUS
  <2>. QED  BY <1>1, <2>1, Smallest
<1>3. k \in Nat /\ ~DigitsExist(k) /\ \A o \in Nat : o < k => DigitsExist(o)
  <2>1. k \in Nat /\ ~DigitsExist(k)  BY <1>2
  <2>2. ASSUME NEW o \in Nat, o < k, ~DigitsExist(o) PROVE FALSE
    <3>1. o \in T  BY <2>2
    <3>2. k <= o  BY <3>1, <1>2
    <3>. QED  BY <3>2, <2>1, <2>2
  <2>. QED  BY <2>1, <2>2
<1>. HIDE DEF T
<1>4. CASE k = 0
  <2>1. PICK f : f = [m \in 0 .. 0 |-> <<>>]  OBVIOUS
  <2>2. \A m \in 0 .. 0 : NextDigits(f, m) = <<>>  BY DEF NextDigits
  <2>3. IsDigits(f, 0)  BY <2>1, <2>2 DEF IsDigits
  <2>. QED  BY <2>3, <1>3, <1>4 DEF DigitsExist
<1>5. CASE k > 0
  <2>1. k - 1 \in Nat /\ k - 1 < k  BY <1>3, <1>5
  <2>2. PICK f : IsDigits(f, k - 1)  BY <2>1, <1>3 DEF DigitsExist
  <2>3. PICK l : l = NextDigits(f, k)  OBVIOUS
  <2>4. PICK g : g = [m \in 0 .. k |-> IF m < k THEN f[m] ELSE l]  OBVIOUS
  <2>5. ASSUME NEW m \in 0 .. k PROVE g[m] = NextDigits(g, m)
    <3>1. NextDigits(g, m) = NextDigits(f, m)
      <4>1. CASE m = 0  BY <4>1 DEF NextDigits
      <4>2. CASE m # 0
        <5>1. m \in Nat /\ m <= k  BY <2>5, <1>3
        <5>2. m \div Base.int \in Nat /\ m \div Base.int < m  BY <5>1, <4>2, Smaller
        <5>3. PICK x : x = m \div Base.int  OBVIOUS
        <5>4. x \in 0 .. k /\ x < k  BY <5>1, <5>2, <5>3, <1>3
        <5>5. g[x] = f[x]  BY <5>4, <2>4
        <5>. QED  BY <4>2, <5>3, <5>5 DEF NextDigits
      <4>. QED  BY <4>1, <4>2
    <3>2. CASE m < k
      <4>1. m \in 0 .. (k - 1) /\ g[m] = f[m]  BY <2>4, <2>5, <3>2, <1>3
      <4>2. f[m] = NextDigits(f, m)  BY <4>1, <2>2 DEF IsDigits
      <4>. QED  BY <4>1, <4>2, <3>1
    <3>3. CASE m = k
      <4>1. g[m] = l  BY <3>3, <2>4, <2>5, <1>3
      <4>. QED  BY <4>1, <3>1, <3>3, <2>3
    <3>. QED  BY <2>5, <3>2, <3>3, <1>3
  <2>6. g = [m \in 0 .. k |-> NextDigits(g, m)]  BY <2>4, <2>5
  <2>7. IsDigits(g, k)  BY <2>6 DEF IsDigits
  <2>. QED  BY <2>7, <1>3 DEF DigitsExist
<1>. QED  BY <1>3, <1>4, <1>5

Printable == {b \in Bytes : b # Backspace}

Numeric(s, m) == s \in Seq(Printable) /\ (m # 0 => s # <<>>)

\* reversed[] holds digits, and one at least.
LEMMA ReversedDigits ==
  ASSUME NEW n \in Nat
  PROVE  Numeric(reversed(n), n)
<1>1. PICK f : f = CHOOSE g : IsDigits(g, n)  OBVIOUS
<1>2. IsDigits(f, n)  BY <1>1, DigitsAreDefined DEF DigitsExist
<1>3. reversed(n) = f[n]  BY <1>1 DEF reversed, IsDigits, NextDigits
<1>. DEFINE T == {k \in Nat : k <= n /\ ~Numeric(f[k], k)}
<1>4. SUFFICES ASSUME T # {} PROVE FALSE
  <2>1. n \notin T  BY <1>4
  <2>2. Numeric(f[n], n)  BY <2>1
  <2>. QED  BY <2>2, <1>3
<1>5. PICK k \in T : \A o \in T : k <= o
  <2>1. T \in SUBSET Nat  OBVIOUS
  <2>. QED  BY <1>4, <2>1, Smallest
<1>6. /\ k \in Nat /\ k <= n /\ ~Numeric(f[k], k)
      /\ \A o \in Nat : o < k => Numeric(f[o], o)
  <2>1. k \in Nat /\ k <= n /\ ~Numeric(f[k], k)  BY <1>5
  <2>2. ASSUME NEW o \in Nat, o < k, ~Numeric(f[o], o) PROVE FALSE
    <3>1. o \in T  BY <2>1, <2>2
    <3>2. k <= o  BY <3>1, <1>5
    <3>. QED  BY <3>2, <2>1, <2>2
  <2>. QED  BY <2>1, <2>2
<1>. HIDE DEF T
<1>7. k \in 0 .. n  BY <1>6
<1>8. f[k] = NextDigits(f, k)  BY <1>2, <1>7 DEF IsDigits
<1>9. CASE k = 0
  <2>1. f[k] = <<>>  BY <1>8, <1>9 DEF NextDigits
  <2>2. Numeric(<<>>, k)  BY <1>9 DEF Numeric
  <2>. QED  BY <2>1, <2>2, <1>6
<1>10. CASE k # 0
  <2>1. PICK x : x = k \div Base.int  OBVIOUS
  <2>2. PICK d : d = chars[1 + (k % Base.int)]  OBVIOUS
  <2>3. x \in Nat /\ x < k /\ k % Base.int \in 0 .. 15  BY <2>1, <1>6, <1>10, Smaller
  <2>4. d \in Printable  BY <2>2, <2>3, Digits DEF Printable
  <2>5. PICK r : r = f[x]  OBVIOUS
  <2>6. r \in Seq(Printable)  BY <2>3, <2>5, <1>6 DEF Numeric
  <2>7. f[k] = <<d>> \o r  BY <2>1, <2>2, <2>5, <1>8, <1>10 DEF NextDigits
  <2>8. <<d>> \in Seq(Printable) /\ Len(<<d>>) = 1  BY <2>4
  <2>9. PICK a : a = <<d>>  OBVIOUS
  <2>10. a \in Seq(Printable) /\ a # <<>>  BY <2>8, <2>9
  <2>11. a \o r \in Seq(Printable) /\ a \o r # <<>>  BY <2>6, <2>10, Prefixed
  <2>12. Numeric(a \o r, k)  BY <2>11 DEF Numeric
  <2>. QED  BY <2>7, <2>9, <2>12, <1>6
<1>. QED  BY <1>9, <1>10

\* A number in decimal is a program that moves the cursor.
LEMMA IntProgram ==
  ASSUME NEW n \in Numbers
  PROVE  Program(tty_write_int(n)) /\ Sure(tty_write_int(n))
<1>1. n \in Nat
  <2>1. PICK l : l = Base.hex ^ HexWidth  OBVIOUS
  <2>2. HexWidth \in 0 .. HexWidth  BY NumbersAssumption
  <2>3. l \in Nat \ {0}  BY <2>1, <2>2, PowersAssumption
  <2>4. n \in 0 .. (l - 1)  BY <2>1, NumbersAssumption
  <2>. QED  BY <2>3, <2>4
<1>2. CASE n = 0
  <2>1. tty_write_int(n) = tty_write_byte("0")  BY <1>2 DEF tty_write_int
  <2>2. "0" \in Bytes /\ "0" # Backspace  BY Digits
  <2>. QED  BY <2>1, <2>2, ByteProgram
<1>3. CASE n # 0
  <2>1. PICK r : r = reversed(n)  OBVIOUS
  <2>2. r \in Seq(Printable) /\ r # <<>>  BY <2>1, <1>1, <1>3, ReversedDigits DEF Numeric
  <2>3. PICK k : k = Len(r)  OBVIOUS
  <2>4. k \in Nat /\ k >= 1  BY <2>2, <2>3
  <2>5. PICK s : s = [i \in 1 .. k |-> r[(k - i) + 1]]  OBVIOUS
  <2>6. Reverse(r) = s  BY <2>3, <2>5 DEF Reverse
  <2>7. ASSUME NEW i \in 1 .. k PROVE s[i] \in Printable
    <3>1. (k - i) + 1 \in 1 .. k  BY <2>4, <2>7
    <3>2. PICK j : j = (k - i) + 1  OBVIOUS
    <3>3. r[j] \in Printable  BY <3>1, <3>2, <2>2, <2>3
    <3>. QED  BY <3>2, <3>3, <2>5, <2>7
  <2>8. s \in [1 .. k -> Printable]  BY <2>5, <2>7
  <2>9. s \in Seq(Printable) /\ Len(s) = k  BY <2>4, <2>8, Listed
  <2>10. \A i \in 1 .. k : s[i] \in Bytes  BY <2>7 DEF Printable
  <2>11. s \in [1 .. k -> Bytes]  BY <2>5, <2>10
  <2>12. s \in Seq(Bytes)  BY <2>4, <2>11, Listed
  <2>13. 1 \in 1 .. k  BY <2>4
  <2>14. s[1] # Backspace  BY <2>7, <2>13 DEF Printable
  <2>15. s # <<>>  BY <2>4, <2>9
  <2>16. tty_write_int(n) = tty_write_string(s)  BY <1>3, <2>1, <2>6 DEF tty_write_int
  <2>. QED  BY <2>12, <2>14, <2>15, <2>16, StringProgram
<1>. QED  BY <1>2, <1>3

-----------------------------------------------------------------------------
(***************************************************************************)
(* The invariant is inductive.                                             *)
(***************************************************************************)

\* A call begins with a program and with the cursor within the limit.
LEMMA Begins ==
  ASSUME NEW M \in {Size, Size + TTY_NUM_COLS}, NEW t \in Devices, t.cursor_pos < M,
         t.fb[Size + TTY_NUM_COLS] = Old, NEW q, Program(q),
         NEW u, u = [t EXCEPT !.todo = q]
  PROVE  /\ Writing(u, M)
         /\ Sure(q) \/ Moving(q) \/ Shown(t) => Synced(u)
<1>1. /\ q \in Seq(Ops) /\ q # <<>> /\ InOrder(q) /\ q[1][1] \notin Users \cup Ports /\ Ends(q)
  BY DEF Program, Orderly
<1>2. /\ u \in Devices /\ u.todo = q /\ u.cursor_pos = t.cursor_pos /\ u.fb = t.fb
      /\ u.location = t.location
  BY <1>1 DEF Devices
<1>3. t.cursor_pos \in Nat  BY DEF Devices
<1>4. u.cursor_pos < M + TTY_NUM_COLS /\ ~(u.cursor_pos >= M)
  BY <1>2, <1>3, Limits, Sizes
<1>5. Registers(u, M)  BY <1>1, <1>2 DEF Registers, Users
<1>6. Writing(u, M)  BY <1>1, <1>2, <1>4, <1>5 DEF Writing
<1>7. ASSUME Sure(q) PROVE Synced(u)  BY <1>7, <1>2 DEF Sure, Moving, Synced
<1>8. ASSUME Moving(q) PROVE Synced(u)  BY <1>8, <1>2 DEF Synced
<1>9. ASSUME Shown(t) PROVE Synced(u)  BY <1>9, <1>1, <1>2 DEF Shown, Synced
<1>. QED  BY <1>6, <1>7, <1>8, <1>9

\* Between two calls of the kernel the cursor is on the screen, and the
\* hardware shows it or the bytes of two locations were mixed.
LEMMA IdleFacts ==
  ASSUME Writing(tty, Size), Idle
  PROVE  /\ tty \in Devices /\ tty.cursor_pos < Size /\ tty.fb[Size + TTY_NUM_COLS] = Old
         /\ (Synced(tty) => Shown(tty))
<1>1. tty \in Devices /\ tty.fb[Size + TTY_NUM_COLS] = Old /\ tty.todo = <<>>
  BY DEF Writing, Idle
<1>2. ~Ends(tty.todo) /\ ~Moving(tty.todo) /\ ~Showing(tty)
  BY <1>1 DEF Ends, Moving, Showing
<1>3. ~(tty.cursor_pos >= Size)  BY <1>2 DEF Writing
<1>4. tty.cursor_pos \in Nat  BY <1>1 DEF Devices
<1>5. tty.cursor_pos < Size  BY <1>3, <1>4, Sizes
<1>. QED  BY <1>1, <1>2, <1>5 DEF Synced

\* The Boolean value of a membership that does not hold.
LEMMA NotIn ==
  ASSUME NEW A, NEW x, x \notin A
  PROVE  (x \in A) = FALSE
OBVIOUS

\* The kernel starts with the hardware cursor at 0 and nothing written.
LEMMA InitInv == Init => Inv
<1>1. SUFFICES ASSUME Init PROVE Inv  OBVIOUS
<1>2. Old \in Glyphs  BY DEF Glyphs, Old, Newline, Tab, Backspace
<1>3. tty = [fb |-> [c \in Cells |-> Old], cursor_pos |-> 0,
             index |-> "high", location |-> [b \in {"high", "low"} |-> 0],
             todo |-> <<>>, r |-> 0, loc |-> 0]
  BY <1>1 DEF Init
<1>4. /\ tty.fb = [c \in Cells |-> Old] /\ tty.cursor_pos = 0 /\ tty.todo = <<>>
      /\ tty.location = [b \in {"high", "low"} |-> 0]
  BY <1>3
<1>5. tty \in Devices
  <2>1. [c \in Cells |-> Old] \in [Cells -> Glyphs]  BY <1>2
  <2>2. 0 \in 0 .. (Byte - 1)  BY Sizes
  <2>3. [b \in {"high", "low"} |-> 0] \in [Sides -> 0 .. (Byte - 1)]  BY <2>2 DEF Sides
  <2>4. <<>> \in Seq(Ops) /\ "high" \in Sides  BY DEF Sides
  <2>. QED  BY <1>3, <2>1, <2>3, <2>4 DEF Devices
<1>6. Writing(tty, Size)
  <2>1. InOrder(tty.todo)  BY <1>4 DEF InOrder
  <2>2. tty.cursor_pos < Size + TTY_NUM_COLS /\ ~(tty.cursor_pos >= Size)  BY <1>4, Sizes
  <2>3. Registers(tty, Size)  BY <1>4 DEF Registers
  <2>4. tty.fb[Size + TTY_NUM_COLS] = Old  BY <1>4, Sizes
  <2>. QED  BY <2>1, <2>2, <2>3, <2>4, <1>5 DEF Writing
<1>7. Synced(tty)
  <2>1. High(0) = 0 /\ Low(0) = 0  BY Sizes DEF High, Low
  <2>2. tty.location["high"] = 0 /\ tty.location["low"] = 0  BY <1>4
  <2>. QED  BY <2>1, <2>2, <1>4 DEF Synced, Shown
<1>8. Flags /\ Waiting
  <2>1. /\ stage = Booting /\ IF_flag = FALSE /\ buffer = Empty
        /\ irq = FALSE /\ torn = FALSE /\ dirty = FALSE /\ early = FALSE
    BY <1>1 DEF Init
  <2>2. stage \in Booting .. Started /\ stage \notin {Enabled, Cleared, Keyboard}
    BY <2>1 DEF Booting, Announced, Enabled, Cleared, Keyboard, Started
  <2>3. (stage \in {Enabled, Cleared, Keyboard}) = FALSE  BY <2>2, NotIn
  <2>4. IF_flag = (stage \in {Enabled, Cleared, Keyboard})  BY <2>1, <2>3, Zenon
  <2>5. Flags  BY <2>1, <2>2, <2>4, Zenon DEF Flags
  <2>6. Waiting  BY <2>1, Zenon DEF Waiting
  <2>. QED  BY <2>5, <2>6
<1>. QED  BY <1>6, <1>7, <1>8 DEF Inv

\* Steps that leave the screen alone.
LEMMA StageSteps ==
  ASSUME Inv,
         enable_interrupts \/ keyboard_init \/ run_process_in_user_mode
  PROVE  Inv'
<1>1. tty' = tty /\ dirty' = dirty
  BY DEF enable_interrupts, keyboard_init, run_process_in_user_mode
<1>2. Flags' /\ Waiting'
  <2>1. CASE enable_interrupts
    <3>1. /\ stage = Announced /\ stage' = Enabled /\ IF_flag' = TRUE
          /\ UNCHANGED <<buffer, irq, torn, dirty, early>>
      BY <2>1 DEF enable_interrupts
    <3>2. stage' \in Booting .. Started /\ stage' \in {Enabled, Cleared, Keyboard}
      BY <3>1 DEF Booting, Announced, Enabled, Cleared, Keyboard, Started
    <3>3. stage < Keyboard  BY <3>1 DEF Announced, Keyboard
    <3>4. Flags'  BY <3>1, <3>2, Zenon DEF Inv, Flags
    <3>5. Waiting'  BY <3>1, <3>3, Zenon DEF Inv, Waiting
    <3>. QED  BY <3>4, <3>5
  <2>2. CASE keyboard_init
    BY <2>2 DEF Inv, keyboard_init, Flags, Waiting, Booting, Announced, Enabled, Cleared, Keyboard, Started
  <2>3. CASE run_process_in_user_mode
    <3>1. /\ stage = Keyboard /\ stage' = Started /\ IF_flag' = FALSE
          /\ UNCHANGED <<buffer, irq, torn, dirty, early>>
      BY <2>3 DEF run_process_in_user_mode
    <3>2. stage' \in Booting .. Started /\ stage' \notin {Enabled, Cleared, Keyboard}
      BY <3>1 DEF Booting, Announced, Enabled, Cleared, Keyboard, Started
    <3>3. ~(stage' < Keyboard)  BY <3>1 DEF Started, Keyboard
    <3>4. (stage' \in {Enabled, Cleared, Keyboard}) = FALSE  BY <3>2, NotIn
    <3>5. (IF_flag = (stage \in {Enabled, Cleared, Keyboard}))'  BY <3>1, <3>4, Zenon
    <3>6. Flags'  BY <3>1, <3>2, <3>5, Zenon DEF Inv, Flags
    <3>7. Waiting'  BY <3>1, <3>3, Zenon DEF Inv, Waiting
    <3>. QED  BY <3>6, <3>7
  <2>. QED  BY <2>1, <2>2, <2>3
<1>3. Writing(tty', Size) /\ (~dirty' => Synced(tty'))  BY <1>1 DEF Inv
<1>. QED  BY <1>2, <1>3 DEF Inv

\* The keyboard's step.
LEMMA SendStep ==
  ASSUME Inv, SendScancode
  PROVE  Inv'
<1>1. tty' = tty /\ dirty' = dirty  BY DEF SendScancode
<1>2. Flags' /\ Waiting'
  BY DEF Inv, SendScancode, Flags, Waiting, Booting, Announced, Enabled, Cleared, Keyboard, Started, Press, Release, Empty
<1>3. Writing(tty', Size) /\ (~dirty' => Synced(tty'))  BY <1>1 DEF Inv
<1>. QED  BY <1>2, <1>3 DEF Inv

\* A call that kernel_main begins.
LEMMA CallSteps ==
  ASSUME Inv, Idle, NEW q, Program(q), tty' = [tty EXCEPT !.todo = q],
         UNCHANGED <<IF_flag, buffer, irq, early, torn>>,
         dirty' \in BOOLEAN,
         ~dirty' => (Sure(q) \/ Moving(q) \/ ~dirty),
         \/ stage' = stage \/ (stage = Enabled /\ stage' = Cleared)
         \/ (stage = Booting /\ stage' = Announced)
  PROVE  Inv'
<1>1. Flags' /\ Waiting'
  BY DEF Inv, Flags, Waiting, Booting, Announced, Enabled, Cleared, Keyboard, Started
<1>2. /\ tty \in Devices /\ tty.cursor_pos < Size /\ tty.fb[Size + TTY_NUM_COLS] = Old
      /\ (Synced(tty) => Shown(tty))
  BY IdleFacts DEF Inv
<1>3. PICK u : u = tty'  OBVIOUS
<1>4. u = [tty EXCEPT !.todo = q]  BY <1>3
<1>5. Writing(u, Size) /\ (Sure(q) \/ Moving(q) \/ Shown(tty) => Synced(u))
  <2>1. Size \in {Size, Size + TTY_NUM_COLS}  OBVIOUS
  <2>. QED  BY <2>1, <1>2, <1>4, Begins
<1>6. ~dirty' => Synced(u)  BY <1>2, <1>5 DEF Inv
<1>. QED  BY <1>1, <1>3, <1>5, <1>6 DEF Inv

\* interrupts_init prints its line.
LEMMA AnnounceStep ==
  ASSUME Inv, interrupts_init
  PROVE  Inv'
<1>1. /\ Idle /\ tty' = [tty EXCEPT !.todo = tty_write_string(Announcement)]
      /\ UNCHANGED <<IF_flag, buffer, irq, early, torn, dirty>>
      /\ stage = Booting /\ stage' = Announced
  BY DEF interrupts_init
<1>2. Announcement \in Seq(Bytes)
  <2>1. Text \cup {"\n"} \subseteq Bytes  BY DEF Bytes, Glyphs, Newline
  <2>2. PICK n : n = Len(Announcement)  OBVIOUS
  <2>3. n \in Nat /\ Announcement \in [1 .. n -> Text \cup {"\n"}]
    BY <2>2, AnnouncementAssumption
  <2>4. Announcement \in [1 .. n -> Bytes]  BY <2>1, <2>3
  <2>. QED  BY <2>3, <2>4, Listed
<1>3. PICK q : q = tty_write_string(Announcement)  OBVIOUS
<1>4. Program(q)  BY <1>2, <1>3, AnnouncementAssumption, StringProgram
<1>5. dirty' \in BOOLEAN  BY <1>1 DEF Inv, Flags
<1>. QED  BY <1>1, <1>3, <1>4, <1>5, CallSteps

\* tty_clear is called.
LEMMA ClearStep ==
  ASSUME Inv, ClearScreen
  PROVE  Inv'
<1>1. Idle /\ tty' = [tty EXCEPT !.todo = tty_clear] /\ dirty' = FALSE
  BY DEF ClearScreen
<1>2. UNCHANGED <<IF_flag, buffer, irq, early, torn>> /\ stage = Enabled /\ stage' = Cleared
  BY DEF ClearScreen
<1>3. PICK q : q = tty_clear  OBVIOUS
<1>4. Program(q) /\ Moving(q)  BY <1>3, ClearProgram
<1>5. tty' = [tty EXCEPT !.todo = q]  BY <1>1, <1>3
<1>6. dirty' \in BOOLEAN  BY <1>1
<1>. QED  BY <1>1, <1>2, <1>4, <1>5, <1>6, CallSteps

\* A byte is written.
LEMMA ByteStep ==
  ASSUME Inv, PrintByte
  PROVE  Inv'
<1>1. Idle /\ UNCHANGED <<stage, IF_flag, buffer, irq, early, torn>>
  BY DEF PrintByte
<1>2. PICK b \in Text \cup {Newline, Tab, Backspace} :
        tty' = [tty EXCEPT !.todo = tty_write_byte(b)] /\ dirty' = (dirty /\ b = Backspace)
  BY DEF PrintByte
<1>3. b \in Bytes  BY <1>2 DEF Bytes, Glyphs
<1>4. PICK q : q = tty_write_byte(b)  OBVIOUS
<1>5. Program(q) /\ (b # Backspace => Sure(q))  BY <1>3, <1>4, ByteProgram
<1>6. tty' = [tty EXCEPT !.todo = q]  BY <1>2, <1>4
<1>7. dirty' \in BOOLEAN  BY <1>2, Zenon
<1>8. ~dirty' => (b # Backspace \/ ~dirty)  BY <1>2, Zenon
<1>. QED  BY <1>1, <1>5, <1>6, <1>7, <1>8, CallSteps

\* A number is written.
LEMMA NumberStep ==
  ASSUME Inv, PrintNumber
  PROVE  Inv'
<1>1. /\ Idle /\ UNCHANGED <<stage, IF_flag, buffer, irq, early, torn>>
      /\ dirty' = FALSE
  BY DEF PrintNumber
<1>2. PICK n \in Numbers, how \in {"hex", "int"} :
        tty' = [tty EXCEPT !.todo = IF how = "hex" THEN tty_write_hex(n) ELSE tty_write_int(n)]
  BY DEF PrintNumber
<1>3. PICK q : q = IF how = "hex" THEN tty_write_hex(n) ELSE tty_write_int(n)  OBVIOUS
<1>4. Program(q) /\ Sure(q)
  <2>1. CASE how = "hex"  BY <2>1, <1>3, HexProgram
  <2>2. CASE how # "hex"  BY <2>2, <1>3, IntProgram
  <2>. QED  BY <2>1, <2>2
<1>5. tty' = [tty EXCEPT !.todo = q]  BY <1>2, <1>3
<1>6. dirty' \in BOOLEAN  BY <1>1
<1>. QED  BY <1>1, <1>4, <1>5, <1>6, CallSteps

\* One operation of the call that is under way.
LEMMA KernelSteps ==
  ASSUME Inv, KernelStep
  PROVE  Inv'
<1>1. /\ tty.todo # <<>> /\ tty' = Operation(tty)
      /\ UNCHANGED <<stage, IF_flag, buffer, irq, torn, dirty, early>>
  BY DEF KernelStep, Idle
<1>2. Flags' /\ Waiting'  BY <1>1 DEF Inv, Flags, Waiting
<1>3. Writing(tty, Size) /\ (~dirty => Synced(tty))  BY DEF Inv
<1>4. Size \in {Size, Size + TTY_NUM_COLS}  OBVIOUS
<1>5. Writing(Operation(tty), Size)  BY <1>1, <1>3, <1>4, OperationWrites
<1>6. ~dirty => Synced(Operation(tty))  BY <1>1, <1>3, <1>4, OperationSyncs
<1>. QED  BY <1>1, <1>2, <1>5, <1>6 DEF Inv

\* A handler's call, and the thread that goes on after it.
Called(t, q) == [t EXCEPT !.todo = q]
Resumed(d, t) == [d EXCEPT !.todo = t.todo, !.r = t.r, !.loc = t.loc]

\* An interrupted thread resumes with its own registers, and the cursor where
\* the handler left it: on the screen.
LEMMA Resumes ==
  ASSUME NEW t, Writing(t, Size), NEW d \in Devices, d.cursor_pos < Size,
         d.fb[Size + TTY_NUM_COLS] = Old,
         NEW u, u = Resumed(d, t)
  PROVE  /\ Writing(u, Size) /\ u.todo = t.todo /\ u.location = d.location
         /\ u.cursor_pos = d.cursor_pos
<1>1. t \in Devices /\ InOrder(t.todo) /\ Registers(t, Size)  BY DEF Writing
<1>2. t.todo \in Seq(Ops) /\ t.r \in Nat /\ t.loc \in Nat  BY <1>1 DEF Devices
<1>3. /\ u \in Devices /\ u.todo = t.todo /\ u.r = t.r /\ u.location = d.location
      /\ u.cursor_pos = d.cursor_pos /\ u.fb = d.fb
  BY <1>2 DEF Devices, Resumed
<1>4. d.cursor_pos \in Nat  BY DEF Devices
<1>5. u.cursor_pos < Size + TTY_NUM_COLS /\ ~(u.cursor_pos >= Size)  BY <1>3, <1>4, Sizes
<1>6. Registers(u, Size)  BY <1>1, <1>3 DEF Registers
<1>7. Writing(u, Size)  BY <1>1, <1>3, <1>5, <1>6 DEF Writing
<1>. QED  BY <1>3, <1>7

\* A handler that prints nothing leaves the device as it was.
LEMMA NothingToRun ==
  ASSUME NEW t, t.todo = <<>>
  PROVE  RunAll(t) = t
<1>1. PICK n : n = Len(t.todo)  OBVIOUS
<1>2. n = 0  BY <1>1
<1>3. PICK f : f = CHOOSE g : IsRun(g, t, n)  OBVIOUS
<1>4. IsRun(f, t, n)  BY <1>2, <1>3, RunIsDefined DEF RunExists
<1>5. RunAll(t) = f[n]  BY <1>1, <1>3 DEF RunAll, IsRun, NextState
<1>. QED  BY <1>2, <1>4, <1>5 DEF IsRun, NextState

\* The strings that a handler prints are made of bytes.
LEMMA StringBytes ==
  ASSUME NEW s \in Strings
  PROVE  s \in Seq(Bytes)
<1>1. PICK R : R = Range(s)  OBVIOUS
<1>2. s \in Seq(R)  BY <1>1, StringsAssumption
<1>3. R \subseteq UNION {Range(x) : x \in Strings}  BY <1>1
<1>4. R \subseteq Bytes  BY <1>3 DEF Bytes, Glyphs
<1>5. PICK n : n = Len(s)  OBVIOUS
<1>6. n \in Nat /\ s \in [1 .. n -> R]  BY <1>2, <1>5
<1>7. s \in [1 .. n -> Bytes]  BY <1>4, <1>6
<1>. QED  BY <1>6, <1>7, Listed

\* A handler that prints a string leaves the interrupted thread in order, and
\* the hardware cursor right if it was right.
LEMMA EchoWrites ==
  ASSUME NEW t, Writing(t, Size), NEW s \in Seq(Bytes), s # <<>>,
         NEW d, d = RunAll(Called(t, tty_write_string(s))),
         NEW u, u = Resumed(d, t)
  PROVE  /\ Writing(u, Size)
         /\ (t.todo = <<>> /\ Synced(t)) => Synced(u)
<1>1. PICK M : M = Size + TTY_NUM_COLS  OBVIOUS
<1>2. M \in {Size, Size + TTY_NUM_COLS}  BY <1>1
<1>3. PICK q : q = tty_write_string(s)  OBVIOUS
<1>4. Program(q)  BY <1>3, StringProgram
<1>5. PICK v : v = [t EXCEPT !.todo = q]  OBVIOUS
<1>6. t \in Devices /\ t.cursor_pos < M /\ t.fb[Size + TTY_NUM_COLS] = Old
  BY <1>1 DEF Writing
<1>7. Writing(v, M) /\ (Shown(t) => Synced(v))  BY <1>2, <1>4, <1>5, <1>6, Begins
<1>8. d = RunAll(v)  BY <1>3, <1>5 DEF Called
<1>9. Writing(d, M) /\ d.todo = <<>> /\ d.cursor_pos < Size /\ (Synced(v) => Shown(d))
  BY <1>2, <1>7, <1>8, RunAllEnds
<1>10. d \in Devices /\ d.fb[Size + TTY_NUM_COLS] = Old  BY <1>9 DEF Writing
<1>11. /\ Writing(u, Size) /\ u.todo = t.todo /\ u.location = d.location
       /\ u.cursor_pos = d.cursor_pos
  BY <1>9, <1>10, Resumes
<1>12. ASSUME t.todo = <<>>, Synced(t) PROVE Synced(u)
  <2>1. ~Moving(t.todo) /\ ~Showing(t)  BY <1>12 DEF Moving, Showing
  <2>2. Shown(t)  BY <1>12, <2>1 DEF Synced
  <2>3. Shown(d)  BY <2>2, <1>7, <1>9
  <2>4. Shown(u)  BY <2>3, <1>11, <1>12 DEF Shown
  <2>. QED  BY <2>4 DEF Synced
<1>. QED  BY <1>11, <1>12

\* A handler that prints the empty string changes nothing.
LEMMA EchoNothing ==
  ASSUME NEW t \in Devices,
         NEW d, d = RunAll(Called(t, tty_write_string(<<>>))),
         NEW u, u = Resumed(d, t)
  PROVE  u = t
<1>1. PICK v : v = [t EXCEPT !.todo = <<>>]  OBVIOUS
<1>2. d = RunAll(v)  BY <1>1, EmptyString DEF Called
<1>3. v.todo = <<>>  BY <1>1 DEF Devices
<1>4. d = v  BY <1>2, <1>3, NothingToRun
<1>. QED  BY <1>1, <1>4 DEF Devices, Resumed

\* What keyboard_callback does to the screen.
LEMMA EchoStep ==
  ASSUME Inv, NEW s \in Strings, Echo(s)
  PROVE  /\ Writing(tty', Size) /\ (~dirty' => Synced(tty'))
         /\ torn' \in BOOLEAN /\ dirty' \in BOOLEAN
<1>1. PICK d : d = RunAll(Called(tty, tty_write_string(s)))  OBVIOUS
<1>2. PICK u : u = Resumed(d, tty)  OBVIOUS
<1>3. /\ tty' = u
      /\ torn' = (torn \/ (~Idle /\ s # <<>>))
      /\ dirty' = (dirty \/ (~Idle /\ s # <<>>))
  BY <1>1, <1>2 DEF Echo, Called, Resumed
<1>4. Writing(tty, Size) /\ (~dirty => Synced(tty)) /\ tty \in Devices
  BY DEF Inv, Writing
<1>5. torn' \in BOOLEAN /\ dirty' \in BOOLEAN  BY <1>3, Zenon
<1>6. ~dirty' => ~dirty /\ (Idle \/ s = <<>>)  BY <1>3, Zenon
<1>7. CASE s = <<>>
  <2>1. d = RunAll(Called(tty, tty_write_string(<<>>)))  BY <1>1, <1>7
  <2>2. u = tty  BY <2>1, <1>2, <1>4, EchoNothing
  <2>. QED  BY <2>2, <1>3, <1>4, <1>5, <1>6
<1>8. CASE s # <<>>
  <2>1. s \in Seq(Bytes)  BY StringBytes
  <2>2. Writing(u, Size) /\ (tty.todo = <<>> /\ Synced(tty) => Synced(u))
    BY <2>1, <1>1, <1>2, <1>4, <1>8, EchoWrites
  <2>3. ~dirty' => Synced(u)  BY <2>2, <1>4, <1>6, <1>8 DEF Idle
  <2>. QED  BY <2>2, <2>3, <1>3, <1>5
<1>. QED  BY <1>7, <1>8

\* The interrupt.
LEMMA InterruptStep ==
  ASSUME Inv, irq_handler
  PROVE  Inv'
<1>1. irq' = FALSE /\ UNCHANGED <<stage, IF_flag, early>>  BY DEF irq_handler
<1>2. CASE stage < Keyboard /\ UNCHANGED <<tty, torn, dirty, buffer>>
  <2>1. Flags'  BY <1>1, <1>2 DEF Inv, Flags
  <2>2. Waiting'  BY <1>1, <1>2 DEF Inv, Waiting
  <2>. QED  BY <2>1, <2>2, <1>2 DEF Inv
<1>3. CASE keyboard_callback
  <2>1. buffer' = Empty  BY <1>3 DEF keyboard_callback
  <2>2. /\ Writing(tty', Size) /\ (~dirty' => Synced(tty'))
        /\ torn' \in BOOLEAN /\ dirty' \in BOOLEAN
    <3>1. CASE UNCHANGED <<tty, torn, dirty>>  BY <3>1 DEF Inv, Flags
    <3>2. CASE \E s \in Strings : Echo(s)  BY <3>2, EchoStep
    <3>. QED  BY <1>3, <3>1, <3>2 DEF keyboard_callback
  <2>3. Flags'  BY <1>1, <2>1, <2>2 DEF Inv, Flags
  <2>4. Waiting'  BY <2>1 DEF Waiting
  <2>. QED  BY <2>2, <2>3, <2>4 DEF Inv
<1>. QED  BY <1>2, <1>3 DEF irq_handler

-----------------------------------------------------------------------------
(***************************************************************************)
(* The theorems.                                                           *)
(***************************************************************************)

\* The invariant holds whenever the interrupt comes: every operation of tty.c,
\* every call of kernel_main and every run of keyboard_callback keeps it.
THEOREM ConsoleInv == Spec => []Inv
<1>1. Inv /\ [Next]_vars => Inv'
  <2>1. SUFFICES ASSUME Inv, [Next]_vars PROVE Inv'  OBVIOUS
  <2>2. CASE enable_interrupts \/ keyboard_init \/ run_process_in_user_mode
    BY <2>1, <2>2, StageSteps
  <2>10. CASE interrupts_init  BY <2>1, <2>10, AnnounceStep
  <2>3. CASE ClearScreen  BY <2>1, <2>3, ClearStep
  <2>4. CASE PrintByte  BY <2>1, <2>4, ByteStep
  <2>5. CASE PrintNumber  BY <2>1, <2>5, NumberStep
  <2>6. CASE KernelStep  BY <2>1, <2>6, KernelSteps
  <2>7. CASE SendScancode  BY <2>1, <2>7, SendStep
  <2>8. CASE irq_handler  BY <2>1, <2>8, InterruptStep
  <2>9. CASE UNCHANGED vars
    <3>1. UNCHANGED <<tty, stage, IF_flag, buffer, irq, torn, dirty, early>>
      BY <2>9 DEF vars
    <3>2. Flags' /\ Waiting'  BY <2>1, <3>1 DEF Inv, Flags, Waiting
    <3>3. Writing(tty', Size) /\ (~dirty' => Synced(tty'))  BY <2>1, <3>1 DEF Inv
    <3>. QED  BY <3>2, <3>3 DEF Inv
  <2>. QED  BY <2>1, <2>2, <2>3, <2>4, <2>5, <2>6, <2>7, <2>8, <2>9, <2>10
    DEF Next
<1>. QED  BY <1>1, InitInv, PTL DEF Spec

\* The location of the cursor fits the two bytes that set_cursor sends.
LEMMA TwoBytes ==
  ASSUME NEW c \in Nat, c < Byte * Byte
  PROVE  (High(c) * Byte) + Low(c) = c
<1>1. Byte \in Nat /\ Byte >= 2  BY Sizes
<1>2. PICK h : h = c \div Byte  OBVIOUS
<1>3. PICK l : l = c % Byte  OBVIOUS
<1>4. h \in Nat /\ l \in Nat /\ l < Byte /\ c = (Byte * h) + l  BY <1>1, <1>2, <1>3
<1>5. h < Byte
  <2>1. SUFFICES ASSUME h >= Byte PROVE FALSE  BY <1>1, <1>4
  <2>2. Byte * h >= Byte * Byte
    <3>1. PICK e : e = h - Byte  OBVIOUS
    <3>2. e \in Nat /\ h = Byte + e  BY <2>1, <1>1, <1>4, <3>1
    <3>3. Byte * h = (Byte * Byte) + (Byte * e)  BY <3>2, <1>1
    <3>4. Byte * e \in Nat /\ Byte * Byte \in Nat  BY <3>2, <1>1
    <3>. QED  BY <3>3, <3>4
  <2>3. Byte * h \in Nat /\ Byte * Byte \in Nat  BY <1>1, <1>4
  <2>. QED  BY <2>2, <2>3, <1>4
<1>6. h % Byte = h  BY <1>1, <1>4, <1>5
<1>7. High(c) = h /\ Low(c) = l  BY <1>2, <1>3, <1>6 DEF High, Low
<1>8. h * Byte = Byte * h  BY <1>1, <1>4
<1>. QED  BY <1>4, <1>7, <1>8

\* cursor_pos, which indexes the frame buffer, is never more than one row below
\* the screen; the ports and the flags keep their types.
THEOREM TypeCorrect == Spec => []TypeOK
<1>1. Inv => TypeOK
  <2>1. SUFFICES ASSUME Inv PROVE TypeOK  OBVIOUS
  <2>2. tty \in Devices /\ tty.cursor_pos < Size + TTY_NUM_COLS
    BY <2>1 DEF Inv, Writing
  <2>3. /\ tty.fb \in [Cells -> Glyphs] /\ tty.cursor_pos \in Nat
        /\ tty.index \in {"high", "low"}
        /\ tty.location \in [{"high", "low"} -> 0 .. (Byte - 1)]
    BY <2>2 DEF Devices, Sides
  <2>4. Range(tty.fb) \subseteq Glyphs  BY <2>3 DEF Range
  <2>5. tty.cursor_pos \in 0 .. (Size + TTY_NUM_COLS - 1)  BY <2>2, <2>3, Sizes
  <2>6. Flags  BY <2>1 DEF Inv
  <2>7. {irq, torn, dirty, early} \subseteq BOOLEAN  BY <2>6, Zenon DEF Flags
  <2>8. /\ stage \in Booting .. Started
        /\ IF_flag = (stage \in {Enabled, Cleared, Keyboard})
        /\ buffer \in {Empty, Press, Release}
    BY <2>6, Zenon DEF Flags
  <2>. QED  BY <2>3, <2>4, <2>5, <2>7, <2>8, Zenon DEF TypeOK, Glyphs
<1>. QED  BY <1>1, ConsoleInv, PTL

\* A key that comes in the middle of tty_write_byte can make the handler write
\* into the row below the screen (fb + 2 * cursor_pos is not checked), never
\* beyond it.
THEOREM NeverFarWrite == Spec => []NoFarWrite
<1>1. Inv => NoFarWrite  BY DEF Inv, Writing, NoFarWrite
<1>. QED  BY <1>1, ConsoleInv, PTL

\* Between two calls the cursor is on the screen, however many keys came in the
\* middle of the earlier ones.
THEOREM CursorAlwaysOnScreen == Spec => []CursorOnScreen
<1>1. Inv => CursorOnScreen
  <2>1. ASSUME Inv, Idle PROVE tty.cursor_pos < Size  BY <2>1, IdleFacts DEF Inv
  <2>. QED  BY <2>1 DEF CursorOnScreen
<1>. QED  BY <1>1, ConsoleInv, PTL

\* The bytes that set_cursor has sent to the two registers are those of
\* cursor_pos between two calls, unless a key has mixed them since the last
\* byte that moves the cursor.
THEOREM HardwareCursorIsRight == Spec => []HardwareCursorRecovers
<1>1. Inv => HardwareCursorRecovers
  <2>1. SUFFICES ASSUME Inv, Idle, ~dirty
                 PROVE  tty.location.high * Byte + tty.location.low = tty.cursor_pos
    BY DEF HardwareCursorRecovers
  <2>2. tty \in Devices /\ tty.cursor_pos < Size /\ Shown(tty)
    BY <2>1, IdleFacts DEF Inv
  <2>3. PICK c : c = tty.cursor_pos  OBVIOUS
  <2>4. c \in Nat /\ c < Size  BY <2>2, <2>3 DEF Devices
  <2>5. c < Byte * Byte
    <3>1. Byte * Byte \in Nat  BY Sizes
    <3>. QED  BY <3>1, <2>4, Sizes
  <2>6. (High(c) * Byte) + Low(c) = c  BY <2>4, <2>5, TwoBytes
  <2>7. tty.location.high = High(c) /\ tty.location.low = Low(c)
    BY <2>2, <2>3 DEF Shown
  <2>. QED  BY <2>3, <2>6, <2>7
<1>. QED  BY <1>1, ConsoleInv, PTL

\* A scancode stays in the controller's buffer with no interrupt to come only
\* if a key was used before keyboard_init: keyboard_callback reads the buffer
\* whatever the scancode, and no other interrupt is lost.
THEOREM KeyboardDeadOnlyIfEarly == Spec => []DeadOnlyIfEarly
<1>1. Inv => DeadOnlyIfEarly  BY DEF Inv, Waiting, DeadOnlyIfEarly
<1>. QED  BY <1>1, ConsoleInv, PTL

=============================================================================
