------------------------------ MODULE Console ------------------------------
(***************************************************************************)
(* The screen (kernel/arch/i386/tty.c) as the kernel's own thread and the  *)
(* keyboard interrupt share it: kernel_main prints byte by byte with       *)
(* interrupts enabled, and irq_handler may run keyboard_callback, which    *)
(* prints as well, between any two instructions of a tty_write_byte.       *)
(* The gates are interrupt gates: a handler is never interrupted itself.   *)
(*                                                                         *)
(* A call of tty.c is a program, a sequence of operations each of which is *)
(* one access to cursor_pos, to the frame buffer or to a port.  The kernel *)
(* thread executes one operation a step, a handler all of its own at once. *)
(***************************************************************************)
EXTENDS Integers, Sequences, SequencesExt, FiniteSets

CONSTANTS
  TTY_NUM_ROWS, TTY_NUM_COLS,
  Byte,      \* values of a byte of the cursor's location: 256 in the code
  Text,      \* bound: the printable characters that kernel_main writes
  Numbers,   \* bound: the numbers that kernel_main prints
  Base,      \* the bases of tty_write_int (10) and tty_write_hex (16)
  HexWidth,  \* the digits that tty_write_hex writes (8)
  Reversed,  \* elements of reversed[] (10)
  Strings,   \* the strings found where keyboard_callback makes printk look
  Announcement,  \* the line that interrupts_init prints
  MaxBytes,  \* bound: bytes that kernel_main writes
  MaxKeys    \* bound: scancodes that the keyboard sends

ASSUME ConsoleAssumption ==
  /\ TTY_NUM_ROWS \in Nat \ {0, 1} /\ TTY_NUM_COLS \in Nat \ {0}
  /\ Byte \in Nat \ {0, 1}
  /\ TTY_NUM_ROWS * TTY_NUM_COLS <= Byte * Byte
  /\ MaxBytes \in Nat /\ MaxKeys \in Nat

\* The first digit goes to reversed[1]: a number with as many digits as
\* reversed[] has elements would overwrite the stack.  Callers print sizes,
\* counts and pids.
ASSUME NumbersAssumption ==
  /\ Base \in [int : 2 .. 16, hex : 2 .. 16]
  /\ {HexWidth, Reversed} \subseteq Nat \ {0}
  /\ \A n \in Numbers : n \in 0 .. (Base.hex ^ HexWidth - 1)
                       /\ n < Base.int ^ (Reversed - 1)

\* A fact of arithmetic that the provers, which do not interpret ^, need.
ASSUME PowersAssumption == \A k \in 0 .. HexWidth : Base.hex ^ k \in Nat \ {0}

ASSUME StringsAssumption == \A s \in Strings : s \in Seq(Range(s))

ASSUME AnnouncementAssumption ==
  Announcement \in Seq(Text \cup {"\n"}) \ {<<>>}

Newline == "\n"
Tab == "\t"
Backspace == "bs"
Space == " "
Old == "old"     \* what the frame buffer holds when the kernel starts

Size == TTY_NUM_ROWS * TTY_NUM_COLS

\* The screen, the row below it and one cell more: video memory goes on.
Cells == 0 .. (Size + TTY_NUM_COLS)

VARIABLES
  tty,       \* the device, cursor_pos and the registers of the running code
  stage,     \* how far kernel_main is
  IF_flag,   \* the CPU accepts interrupts
  buffer,    \* the keyboard controller's output buffer, port 0x60
  irq,       \* IRQ1 is raised and not yet taken
  written, keys,                  \* what the bounds count
  log, torn, dirty, early   \* histories, see the properties

vars == <<tty, stage, IF_flag, buffer, irq, written, keys,
          log, torn, dirty, early>>

\* The stages of kernel_main: the interrupt descriptors are loaded,
\* interrupts_init prints its line, interrupts are enabled, the screen is
\* cleared, the keyboard has its handler, a process has been started with
\* interrupts off.
Booting == 1
Announced == 2
Enabled == 3
Cleared == 4
Keyboard == 5
Started == 6

Empty == "empty"
Press == "press"
Release == "release"

Init ==
  /\ tty = [fb |-> [c \in Cells |-> Old], cursor_pos |-> 0,
            index |-> "high", location |-> [b \in {"high", "low"} |-> 0],
            todo |-> <<>>, r |-> 0, loc |-> 0]
  /\ stage = Booting
  /\ IF_flag = FALSE
  /\ buffer = Empty /\ irq = FALSE
  /\ written = 0 /\ keys = 0
  /\ log = <<>> /\ torn = FALSE /\ dirty = FALSE /\ early = FALSE

-----------------------------------------------------------------------------
(* The programs.                                                           *)

\* Mutant: the high byte is never sent.
set_cursor_LowOnly == << <<"index", "low">>, <<"data", "low">> >>

set_cursor ==
  << <<"index", "high">>, <<"data", "high">>,
     <<"index", "low">>, <<"data", "low">> >>

move_cursor(how) == << <<"load">>, <<how>> >> \o set_cursor

write_cell(b) == << <<"load">>, <<"cell", b>> >>

tty_home(row) == << <<"home", row>> >> \o set_cursor

\* The rows move up one after the other, then the last one is blanked.
scroll ==
  [i \in 1 .. TTY_NUM_ROWS |->
     IF i < TTY_NUM_ROWS THEN <<"copy", i>> ELSE <<"blank", i - 1>>]

\* Mutants: the cursor leaves the screen by one cell before it scrolls; it goes
\* to the row below the last one.
tty_check_Late == << <<"check", Size + 1>> >> \o scroll \o tty_home(TTY_NUM_ROWS - 1)
tty_check_BelowScreen == << <<"check", Size>> >> \o scroll \o tty_home(TTY_NUM_ROWS)

\* The test at the end of tty_write_byte and what it guards.
tty_check == << <<"check", Size>> >> \o scroll \o tty_home(TTY_NUM_ROWS - 1)

tty_write_text(b) ==
  write_cell(b) \o move_cursor("forward") \o tty_check

\* Mutant: a new line keeps the column.
tty_write_byte_NoStart(b) ==
  CASE b = Newline -> move_cursor("down") \o tty_check
    [] b = Backspace -> move_cursor("back") \o write_cell(Space) \o tty_check
    [] b = Tab -> FlattenSeq([i \in 1 .. 4 |-> tty_write_text(Space)])
                  \o tty_check
    [] b \notin {Newline, Backspace, Tab} -> tty_write_text(b)

tty_write_byte(b) ==
  CASE b = Newline -> move_cursor("down") \o move_cursor("start") \o tty_check
    [] b = Backspace -> move_cursor("back") \o write_cell(Space) \o tty_check
    [] b = Tab -> FlattenSeq([i \in 1 .. 4 |-> tty_write_text(Space)])
                  \o tty_check
    [] b \notin {Newline, Backspace, Tab} -> tty_write_text(b)

tty_write_string(s) == FlattenSeq([i \in DOMAIN s |-> tty_write_byte(s[i])])

chars == <<"0", "1", "2", "3", "4", "5", "6", "7", "8", "9",
           "A", "B", "C", "D", "E", "F">>

tty_write_hex(n) ==
  tty_write_string(<<"0", "x">> \o
    [i \in 1 .. HexWidth |->
       chars[1 + ((n \div (Base.hex ^ (HexWidth - i))) % Base.hex)]])

\* The loop that fills reversed[].
reversed(n) ==
  LET digits[m \in 0 .. n] ==
        IF m = 0 THEN <<>>
        ELSE <<chars[1 + (m % Base.int)]>> \o digits[m \div Base.int]
  IN  digits[n]

tty_write_int(n) ==
  IF n = 0 THEN tty_write_byte("0") ELSE tty_write_string(Reverse(reversed(n)))

tty_clear ==
  [i \in 1 .. TTY_NUM_ROWS |-> <<"blank", i - 1>>] \o tty_home(0)

-----------------------------------------------------------------------------
(* One operation.                                                          *)

Row(c) == c \div TTY_NUM_COLS

MoveTo(t, loc) == [t EXCEPT !.cursor_pos = loc, !.loc = loc]

\* A branch that is not taken.
Skip(t, branch) == [t EXCEPT !.todo = SubSeq(@, Len(branch) + 1, Len(@))]

\* A write behind the cells that are modelled counts as one to the last.
CellOf(c) == IF c \in Cells THEN c ELSE Size + TTY_NUM_COLS

\* t.todo is what is left to do after the operation.
Execute(t, op) ==
  CASE op[1] = "load" -> [t EXCEPT !.r = t.cursor_pos]
    [] op[1] = "cell" -> [t EXCEPT !.fb[CellOf(t.r)] = op[2]]
    [] op[1] = "forward" -> MoveTo(t, t.r + 1)
    [] op[1] = "down" -> MoveTo(t, t.r + TTY_NUM_COLS)
    [] op[1] = "start" -> MoveTo(t, t.r - (t.r % TTY_NUM_COLS))
    [] op[1] = "back" ->
         IF t.r # 0 THEN MoveTo(t, t.r - 1) ELSE Skip(t, set_cursor)
    [] op[1] = "home" -> MoveTo(t, op[2] * TTY_NUM_COLS)
    [] op[1] = "index" -> [t EXCEPT !.index = op[2]]
    [] op[1] = "data" ->
         [t EXCEPT !.location[t.index] =
            IF op[2] = "high" THEN (t.loc \div Byte) % Byte ELSE t.loc % Byte]
    [] op[1] = "check" ->
         IF t.cursor_pos >= op[2] THEN t ELSE Skip(t, Tail(tty_check))
    [] op[1] = "copy" ->
         [t EXCEPT !.fb = [c \in Cells |-> IF Row(c) = op[2] - 1
                                           THEN t.fb[c + TTY_NUM_COLS]
                                           ELSE t.fb[c]]]
    [] op[1] = "blank" ->
         [t EXCEPT !.fb = [c \in Cells |-> IF Row(c) = op[2]
                                           THEN Space ELSE t.fb[c]]]

\* The registers are dead when the call returns.
Return(t) == IF t.todo = <<>> THEN [t EXCEPT !.r = 0, !.loc = 0] ELSE t

Operation(t) == Return(Execute([t EXCEPT !.todo = Tail(@)], Head(t.todo)))

\* Every operation makes todo shorter.
RunAll(t) ==
  LET run[k \in 0 .. Len(t.todo)] ==
        IF k = 0 THEN t
        ELSE LET u == run[k - 1]
             IN  IF u.todo = <<>> THEN u ELSE Operation(u)
  IN  run[Len(t.todo)]

-----------------------------------------------------------------------------
(* kernel_main.  Each of its calls begins when the one before has returned. *)

Idle == tty.todo = <<>>

\* The end of interrupts_init, with interrupts still off.
interrupts_init ==
  /\ Idle /\ stage = Booting
  /\ stage' = Announced
  /\ tty' = [tty EXCEPT !.todo = tty_write_string(Announcement)]
  /\ UNCHANGED <<IF_flag, buffer, irq, written, keys, log, torn, dirty, early>>

enable_interrupts ==
  /\ Idle /\ stage = Announced
  /\ stage' = Enabled /\ IF_flag' = TRUE
  /\ UNCHANGED <<tty, buffer, irq, written, keys, log, torn, dirty, early>>

ClearScreen ==
  /\ Idle /\ stage = Enabled
  /\ stage' = Cleared
  /\ tty' = [tty EXCEPT !.todo = tty_clear]
  /\ log' = <<>> /\ dirty' = FALSE
  /\ UNCHANGED <<IF_flag, buffer, irq, written, keys, torn, early>>

keyboard_init ==
  /\ Idle /\ stage = Cleared
  /\ stage' = Keyboard
  /\ UNCHANGED <<tty, IF_flag, buffer, irq, written, keys,
                 log, torn, dirty, early>>

\* Its cli stays in force: the call returns without an iret.
run_process_in_user_mode ==
  /\ Idle /\ stage = Keyboard
  /\ stage' = Started /\ IF_flag' = FALSE
  /\ UNCHANGED <<tty, buffer, irq, written, keys, log, torn, dirty, early>>

\* printk comes to one of its bytes.  In stage Started these are the bytes of
\* interrupt_handler's report: the first write after the switch faults (see
\* Interrupts).
PrintByte ==
  /\ Idle /\ stage >= Cleared
  /\ written < MaxBytes
  /\ \E b \in Text \cup {Newline, Tab, Backspace} :
       /\ tty' = [tty EXCEPT !.todo = tty_write_byte(b)]
       /\ log' = IF torn THEN log ELSE Append(log, b)
       /\ dirty' = (dirty /\ b = Backspace)
  /\ written' = written + 1
  /\ UNCHANGED <<stage, IF_flag, buffer, irq, keys, torn, early>>

\* The numerals of number n in base b with k digits.
Numeral(b, k, n) ==
  CHOOSE s \in [1 .. k -> 0 .. (b - 1)] :
    n = FoldLeft(LAMBDA v, d : b * v + d, 0, s)

\* What a reader expects for %X and %u: all digits, or no leading zero.
Expected(how, n) ==
  LET b      == Base[how]
      width  == CHOOSE k \in 1 .. (n + 1) :
                  n < b ^ k /\ (k = 1 \/ n >= b ^ (k - 1))
      digits == Numeral(b, IF how = "hex" THEN HexWidth ELSE width, n)
  IN  (IF how = "hex" THEN <<"0", "x">> ELSE <<>>)
        \o [i \in DOMAIN digits |-> chars[1 + digits[i]]]

\* printk comes to %X or %u.
PrintNumber ==
  /\ Idle /\ stage >= Cleared
  /\ \E n \in Numbers, how \in {"hex", "int"} :
       LET shown == Expected(how, n)
       IN  /\ written + Len(shown) <= MaxBytes
           /\ written' = written + Len(shown)
           /\ tty' = [tty EXCEPT !.todo = IF how = "hex" THEN tty_write_hex(n)
                                                        ELSE tty_write_int(n)]
           /\ log' = IF torn THEN log ELSE log \o shown
  /\ dirty' = FALSE
  /\ UNCHANGED <<stage, IF_flag, buffer, irq, keys, torn, early>>

KernelStep ==
  /\ ~Idle
  /\ tty' = Operation(tty)
  /\ UNCHANGED <<stage, IF_flag, buffer, irq, written, keys,
                 log, torn, dirty, early>>

-----------------------------------------------------------------------------
(* The keyboard and its interrupt.                                         *)

\* The controller passes on a scancode when its buffer has room, and raises
\* IRQ1.
SendScancode ==
  /\ keys < MaxKeys
  /\ buffer = Empty
  /\ \E k \in {Press, Release} : buffer' = k
  /\ irq' = TRUE
  /\ keys' = keys + 1
  /\ early' = (early \/ stage < Keyboard)
  /\ UNCHANGED <<tty, stage, IF_flag, written, log, torn, dirty>>

\* What keyboard_callback prints.  It passes a character to printk as the
\* address of a string, so the string is whatever memory holds there.
Echo(s) ==
  /\ LET done == RunAll([tty EXCEPT !.todo = tty_write_string(s)])
     IN  tty' = [done EXCEPT !.todo = tty.todo, !.r = tty.r, !.loc = tty.loc]
  /\ torn' = (torn \/ (~Idle /\ s # <<>>))
  /\ dirty' = (dirty \/ (~Idle /\ s # <<>>))
  /\ log' = IF torn' THEN <<>> ELSE log \o s

\* Mutant: the scancode is read only when it is a press.
keyboard_callback_ReadsPresses ==
  \/ /\ buffer = Release
     /\ UNCHANGED <<tty, log, torn, dirty, buffer>>
  \/ /\ buffer = Press
     /\ buffer' = Empty
     /\ \E s \in Strings : Echo(s)

keyboard_callback ==
  /\ buffer' = Empty
  /\ \/ /\ buffer = Release
        /\ UNCHANGED <<tty, log, torn, dirty>>
     \/ /\ buffer = Press
        /\ \E s \in Strings : Echo(s)

\* From the gate to the iret: the end of interrupt is signalled first, then
\* the handler runs if there is one.
irq_handler ==
  /\ IF_flag /\ irq
  /\ irq' = FALSE
  /\ \/ /\ stage < Keyboard
        /\ UNCHANGED <<tty, log, torn, dirty, buffer>>
     \/ /\ stage >= Keyboard
        /\ keyboard_callback
  /\ UNCHANGED <<stage, IF_flag, written, keys, early>>

Next ==
  \/ interrupts_init \/ enable_interrupts \/ ClearScreen \/ keyboard_init
  \/ run_process_in_user_mode \/ PrintByte \/ PrintNumber \/ KernelStep
  \/ SendScancode \/ irq_handler

Spec == Init /\ [][Next]_vars

-----------------------------------------------------------------------------
(* A reference terminal: an endless sheet of rows of which the screen shows *)
(* TTY_NUM_ROWS, from row top on.                                          *)

Blank == [sheet |-> [c \in {} |-> Space], pos |-> 0, top |-> 0]

At(sheet, c) == IF c \in DOMAIN sheet THEN sheet[c] ELSE Space

Put(sheet, c, b) == [x \in DOMAIN sheet \cup {c} |-> IF x = c THEN b ELSE sheet[x]]

\* The window follows the cursor down.
Follow(s) ==
  IF Row(s.pos) < s.top + TTY_NUM_ROWS THEN s
  ELSE [s EXCEPT !.top = Row(s.pos) - TTY_NUM_ROWS + 1]

Character(s, b) ==
  Follow([s EXCEPT !.sheet = Put(@, s.pos, b), !.pos = @ + 1])

RenderByte(s, b) ==
  CASE b = Newline -> Follow([s EXCEPT !.pos = (Row(@) + 1) * TTY_NUM_COLS])
    [] b = Backspace ->
         LET c == IF s.pos > s.top * TTY_NUM_COLS THEN s.pos - 1 ELSE s.pos
         IN  [s EXCEPT !.sheet = Put(@, c, Space), !.pos = c]
    [] b = Tab -> FoldLeft(Character, s, <<Space, Space, Space, Space>>)
    [] OTHER -> Character(s, b)

Render(bytes) == FoldLeft(RenderByte, Blank, bytes)

-----------------------------------------------------------------------------
(* Properties.                                                             *)

\* Variables keep their types.  In particular the cursor is never more than
\* one row below the screen, whenever the interrupt comes (cursor_pos of
\* tty.c, a uint16_t that indexes the frame buffer).
TypeOK ==
  /\ Range(tty.fb) \subseteq
       (Text \cup Range(chars) \cup (UNION {Range(s) : s \in Strings})
          \cup {"x", Space, Old})
         \ {Newline, Tab, Backspace}
  /\ tty.cursor_pos \in 0 .. (Size + TTY_NUM_COLS - 1)
  /\ tty.index \in {"high", "low"}
  /\ tty.location \in [{"high", "low"} -> 0 .. (Byte - 1)]
  /\ stage \in Booting .. Started
  /\ IF_flag = (stage \in {Enabled, Cleared, Keyboard})
  /\ buffer \in {Empty, Press, Release}
  /\ {irq, torn, dirty, early} \subseteq BOOLEAN

\* A key that arrives in the middle of tty_write_byte can make the handler
\* write below the screen, but never beyond the row that follows it
\* (tty_write_byte's unchecked fb + 2 * cursor_pos).
NoFarWrite == tty.fb[Size + TTY_NUM_COLS] = Old

\* Between two bytes the cursor is on the screen, whatever interrupts came in
\* the middle of the earlier ones (the check at the end of tty_write_byte reads
\* cursor_pos again, and the handler leaves it on the screen).
CursorOnScreen == Idle => tty.cursor_pos < Size

\* As long as no key has interrupted a tty_write_byte, the screen and the
\* cursor show what a terminal shows for the bytes and numerals printed by
\* kernel_main and by the handler since tty_clear, in order.
ScreenShowsOutput ==
  (Idle /\ stage >= Cleared /\ ~torn) =>
    LET s == Render(log)
    IN  /\ tty.cursor_pos = s.pos - s.top * TTY_NUM_COLS
        /\ \A c \in 0 .. (Size - 1) :
             tty.fb[c] = At(s.sheet, s.top * TTY_NUM_COLS + c)

\* An interrupt inside set_cursor mixes the bytes of two locations, but the
\* next byte that is written undisturbed puts the hardware cursor right
\* (backspace excepted: at location 0 it does not call set_cursor).
HardwareCursorRecovers ==
  (Idle /\ ~dirty) =>
    tty.location.high * Byte + tty.location.low = tty.cursor_pos

\* The keyboard is dead, its buffer full and no interrupt to come, only if a
\* key was pressed or released before keyboard_init: irq_handler acknowledges
\* that interrupt and reads nothing.
DeadOnlyIfEarly == (buffer # Empty /\ ~irq) => early

=============================================================================
