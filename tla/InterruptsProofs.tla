-------------------------- MODULE InterruptsProofs --------------------------
(***************************************************************************)
(* Proofs about interrupts and exceptions: the frames on the stack, the    *)
(* return from a handler, and the lines in service.                        *)
(***************************************************************************)
EXTENDS Interrupts, TLAPS

\* Places in the C code.
Labels == {"gdt_init", "clear_idt", "init_isr", "init_irq", "idt_flush",
           "enable_interrupts", "check_magic", "scheduler_schedule",
           "printk_finished", "loop", "interrupt_handler", "irq_handler",
           "irq_handler_master", "irq_callback", "return", "abort", "hang", "reset"}

\* What the stack and the registers hold.
Words ==
  ({"stub", "interrupt_number", "error_code"} \X Nat)
    \cup ({"eflags"} \X BOOLEAN)
    \cup ({"eip"} \X Labels)
    \cup ({"cs"} \X {"boot", "0x08"})
    \cup ({"ds"} \X {"boot", "0x10", "0x18"})
    \cup ({"regs"} \X {"kernel_main", "handler"})

CpuStates == [eip : Words, cs : Words, eflags : Words, ds : Words, regs : Words]

Interrupted == [cpu : CpuStates, vector : Nat, code : Seq(Words)]

Chip == [irr : SUBSET (0 .. 7), isr : SUBSET (0 .. 7), imr : SUBSET (0 .. 7),
         icw : 0 .. 4, base : Nat]

Types ==
  /\ cpu \in CpuStates
  /\ stack \in Seq(Words)
  /\ saved \in Seq(Interrupted)
  /\ pic \in [{"master", "slave"} -> Chip]

\* The word that the frame of an interrupt shows as its error code.
CodeOf(s) == IF s.code = <<>> THEN Word("error_code", 0) ELSE s.code[1]

\* A registers_t whose first word is the one behind word i of the stack.
FrameAt(w, i, s) ==
  /\ w[i + 1] = s.cpu.ds
  /\ w[i + 2] = s.cpu.regs
  /\ w[i + 3] = Word("interrupt_number", s.vector)
  /\ w[i + 4] = CodeOf(s)
  /\ w[i + 5] = s.cpu.eip
  /\ w[i + 6] = s.cpu.cs
  /\ w[i + 7] = s.cpu.eflags

InStub == cpu.eip[1] = "stub"

\* Outside the stubs the stack is made of whole frames.
Frames ==
  ~ InStub =>
    /\ Len(stack) = 7 * Len(saved)
    /\ \A d \in 1 .. Len(saved) : FrameAt(stack, 7 * (d - 1), saved[d])

\* At a stub the topmost frame has only what the CPU pushed, and the registers
\* that the stub will push are still those of the interrupted code.
HalfFrame ==
  InStub =>
    /\ Len(saved) > 0
    /\ LET s == saved[1]
           k == Len(s.code)
       IN  /\ cpu.eip = Word("stub", s.vector)
           /\ cpu.ds = s.cpu.ds /\ cpu.regs = s.cpu.regs
           /\ k = IF PushesDummy(s.vector) THEN 0 ELSE 1
           /\ Len(stack) = k + 3 + 7 * (Len(saved) - 1)
           /\ k = 1 => stack[1] = s.code[1]
           /\ stack[k + 1] = s.cpu.eip
           /\ stack[k + 2] = s.cpu.cs
           /\ stack[k + 3] = s.cpu.eflags
           /\ \A d \in 2 .. Len(saved) :
                FrameAt(stack, k + 3 + 7 * (d - 2), saved[d])

\* The places of a handler where an exception may occur.
HandlerCode == {Code("interrupt_handler"), Code("irq_handler"),
                Code("irq_handler_master"), Code("irq_callback")}
MainCode == {Code(Calls[i]) : i \in DOMAIN Calls}
StopCode == {Code("abort"), Code("hang"), Code("reset")}

\* The places between the CPU's entry for a vector and its iret.
HandlerPlaces(v) ==
  {Word("stub", v), Code("return"), Code("reset")} \cup
    IF v < 32 THEN {Code("interrupt_handler"), Code("abort")}
    ELSE {Code("irq_handler"), Code("irq_handler_master"), Code("irq_callback")}

\* How interrupts nest: all but the outermost are exceptions, which came while
\* a handler was executed with interrupts disabled; the outermost one
\* interrupted kernel_main.
Nesting ==
  /\ saved = <<>> => cpu.eip \in MainCode \cup {Code("hang"), Code("reset")}
  /\ saved # <<>> =>
       /\ cpu.eip \in HandlerPlaces(saved[1].vector)
       /\ cpu.eflags = Flags(FALSE)
  /\ \A d \in 1 .. Len(saved) :
       IF d = Len(saved) THEN saved[d].cpu.eip \in MainCode
       ELSE /\ saved[d].vector < 32
            /\ saved[d].cpu.eip \in
                 HandlerCode \cap HandlerPlaces(saved[d + 1].vector)
            /\ saved[d].cpu.eflags = Flags(FALSE)

\* What the CPU held in kernel_main.
MainCpu == IF saved = <<>> THEN cpu ELSE saved[Len(saved)].cpu

\* kernel_main has programmed the controllers before it enables interrupts.
BeforeRemap == {Code("gdt_init"), Code("clear_idt"), Code("init_isr"),
                Code("init_irq")}

Remapped ==
  /\ MainCpu.eip \in MainCode \ BeforeRemap =>
       pic["master"].base = 32 /\ pic["slave"].base = 40
  /\ MainCpu.eflags = Flags(TRUE) => MainCpu.eip \in MainCode \ BeforeRemap

\* At most one line is in service.
AtMostOne(S) == \A k, l \in S : k = l

\* The code that handles the outermost interrupt.
Outermost == IF Len(saved) = 1 THEN cpu.eip ELSE saved[Len(saved) - 1].cpu.eip

\* The lines in service, by how far the handler of the outermost interrupt is.
InService ==
  IF saved = <<>> \/ saved[Len(saved)].vector < 32 THEN
    pic["master"].isr = {} /\ pic["slave"].isr = {}
  ELSE
    LET v == saved[Len(saved)].vector
    IN  /\ Outermost \in {Word("stub", v), Code("irq_handler")} =>
             IF v < 40 THEN AtMostOne(pic["master"].isr) /\ pic["slave"].isr = {}
             ELSE pic["master"].isr = {2} /\ AtMostOne(pic["slave"].isr)
        /\ Outermost = Code("irq_handler_master") =>
             AtMostOne(pic["master"].isr) /\ pic["slave"].isr = {}
        /\ Outermost \in {Code("irq_callback"), Code("return")} =>
             pic["master"].isr = {} /\ pic["slave"].isr = {}

Acknowledged == InService \/ cpu.eip \in StopCode

Inv == Types /\ Frames /\ HalfFrame /\ Nesting /\ Remapped /\ Acknowledged
-----------------------------------------------------------------------------
(* Words and places.                                                       *)

\* The places of kernel_main, spelled out.
LEMMA MainCodeIs ==
  MainCode = {Code("gdt_init"), Code("clear_idt"), Code("init_isr"),
              Code("init_irq"), Code("idt_flush"), Code("enable_interrupts"),
              Code("check_magic"), Code("scheduler_schedule"),
              Code("printk_finished"), Code("loop")}
<1>1. DOMAIN Calls = 1 .. 10
  BY DEF Calls
<1>2. DOMAIN Calls = {1, 2, 3, 4, 5, 6, 7, 8, 9, 10}
  BY <1>1
<1>3. /\ Calls[1] = "gdt_init" /\ Calls[2] = "clear_idt"
      /\ Calls[3] = "init_isr" /\ Calls[4] = "init_irq"
      /\ Calls[5] = "idt_flush" /\ Calls[6] = "enable_interrupts"
      /\ Calls[7] = "check_magic" /\ Calls[8] = "scheduler_schedule"
      /\ Calls[9] = "printk_finished" /\ Calls[10] = "loop"
  BY DEF Calls
<1>4. MainCode = {Code(Calls[i]) : i \in {1, 2, 3, 4, 5, 6, 7, 8, 9, 10}}
  BY <1>2 DEF MainCode
<1> HIDE DEF Calls
<1> QED
  BY <1>3, <1>4

\* Where each call of kernel_main returns to.
LEMMA AfterIs ==
  /\ After("gdt_init") = Code("clear_idt")
  /\ After("clear_idt") = Code("init_isr")
  /\ After("init_isr") = Code("init_irq")
  /\ After("init_irq") = Code("idt_flush")
  /\ After("idt_flush") = Code("enable_interrupts")
  /\ After("enable_interrupts") = Code("check_magic")
  /\ After("check_magic") = Code("scheduler_schedule")
  /\ After("scheduler_schedule") = Code("printk_finished")
  /\ After("printk_finished") = Code("loop")
BY DEF After, Calls

\* A place in the code is a word, and so is a stub.
LEMMA PlaceWords ==
  /\ \A label \in Labels : Code(label) \in Words
  /\ \A v \in Nat : Word("stub", v) \in Words
  /\ Flags(TRUE) \in Words /\ Flags(FALSE) \in Words
  /\ \A v \in Nat : Word("interrupt_number", v) \in Words
  /\ \A v \in Nat : Word("error_code", v) \in Words
  /\ Word("cs", "boot") \in Words /\ Word("cs", "0x08") \in Words
  /\ Word("ds", "boot") \in Words /\ Word("ds", "0x10") \in Words
  /\ Word("ds", "0x18") \in Words
  /\ Word("regs", "kernel_main") \in Words /\ Word("regs", "handler") \in Words
<1>1. /\ \A label \in Labels : Code(label) \in Words
      /\ \A v \in Nat : Word("stub", v) \in Words
      /\ \A v \in Nat : Word("interrupt_number", v) \in Words
      /\ \A v \in Nat : Word("error_code", v) \in Words
  BY DEF Words, Code, Word
<1>2. Flags(TRUE) \in Words /\ Flags(FALSE) \in Words
  BY DEF Words, Flags, Word
<1>3. /\ Word("cs", "boot") \in Words /\ Word("cs", "0x08") \in Words
      /\ Word("ds", "boot") \in Words /\ Word("ds", "0x10") \in Words
      /\ Word("ds", "0x18") \in Words
      /\ Word("regs", "kernel_main") \in Words /\ Word("regs", "handler") \in Words
  BY DEF Words, Word
<1> QED
  BY <1>1, <1>2, <1>3

\* kernel_main is not a place of a handler, and stops are neither.
LEMMA PlacesApart ==
  ASSUME NEW v \in Nat
  PROVE  /\ MainCode \cap HandlerPlaces(v) = {}
         /\ MainCode \cap StopCode = {}
         /\ MainCode \cap HandlerCode = {}
         /\ HandlerCode \cap StopCode = {}
         /\ Code("hang") \notin HandlerPlaces(v)
BY MainCodeIs DEF HandlerPlaces, StopCode, HandlerCode, Code, Word

\* A sequence without elements is the empty one.
LEMMA NonEmpty ==
  ASSUME NEW S, NEW s \in Seq(S)
  PROVE  Len(s) \in Nat /\ (s # <<>> <=> Len(s) > 0)
OBVIOUS

\* Where the CPU executes kernel_main no interrupt is under way.
LEMMA MainHasNoFrames ==
  ASSUME Inv, cpu.eip \in MainCode
  PROVE  saved = <<>> /\ ~ InStub
<1>1. saved # <<>> => saved[1].vector \in Nat
  <2>1. saved \in Seq(Interrupted)
    BY DEF Inv, Types
  <2>2. saved # <<>> => saved[1] \in Interrupted
    BY <2>1, NonEmpty
  <2> QED
    BY <2>2 DEF Interrupted
<1>2. saved = <<>>
  BY <1>1, PlacesApart DEF Inv, Nesting
<1> QED
  BY <1>2, MainCodeIs DEF InStub, Code, Word

\* The guard of exceptions and registrations, as a set of places.
LEMMA InKernelMainIs == InKernelMain <=> cpu.eip \in MainCode
BY Zenon DEF InKernelMain, MainCode, At

\* Joined sequences, by index.
LEMMA ConcatIndex ==
  ASSUME NEW S, NEW a \in Seq(S), NEW b \in Seq(S)
  PROVE  /\ a \o b \in Seq(S)
         /\ Len(a \o b) = Len(a) + Len(b)
         /\ \A i \in 1 .. Len(a) : (a \o b)[i] = a[i]
         /\ \A i \in 1 .. Len(b) : (a \o b)[Len(a) + i] = b[i]
OBVIOUS

\* Three words between two sequences: what the CPU pushes.
LEMMA ThreeBehind ==
  ASSUME NEW S, NEW a \in Seq(S), NEW b \in Seq(S),
         NEW x \in S, NEW y \in S, NEW z \in S,
         NEW t, t = a \o <<x, y, z>> \o b
  PROVE  /\ t \in Seq(S)
         /\ Len(t) = Len(a) + 3 + Len(b)
         /\ \A i \in 1 .. Len(a) : t[i] = a[i]
         /\ t[Len(a) + 1] = x /\ t[Len(a) + 2] = y /\ t[Len(a) + 3] = z
         /\ \A i \in 1 .. Len(b) : t[Len(a) + 3 + i] = b[i]
<1>1. t \in Seq(S) /\ Len(t) = Len(a) + 3 + Len(b)
  OBVIOUS
<1>2. \A i \in 1 .. Len(a) : t[i] = a[i]
  OBVIOUS
<1>3. t[Len(a) + 1] = x
  OBVIOUS
<1>4. t[Len(a) + 2] = y
  OBVIOUS
<1>5. t[Len(a) + 3] = z
  OBVIOUS
<1>6. \A i \in 1 .. Len(b) : t[Len(a) + 3 + i] = b[i]
  OBVIOUS
<1> QED
  BY <1>1, <1>2, <1>3, <1>4, <1>5, <1>6

\* The other way round: what the stubs push.
LEMMA ThreeBefore ==
  ASSUME NEW S, NEW a \in Seq(S), NEW b \in Seq(S),
         NEW x \in S, NEW y \in S, NEW z \in S,
         NEW t, t = <<x, y, z>> \o a \o b
  PROVE  /\ t \in Seq(S)
         /\ Len(t) = 3 + Len(a) + Len(b)
         /\ t[1] = x /\ t[2] = y /\ t[3] = z
         /\ \A i \in 1 .. Len(a) : t[3 + i] = a[i]
         /\ \A i \in 1 .. Len(b) : t[3 + Len(a) + i] = b[i]
<1>1. t \in Seq(S) /\ Len(t) = 3 + Len(a) + Len(b)
  OBVIOUS
<1>2. t[1] = x /\ t[2] = y /\ t[3] = z
  OBVIOUS
<1>3. \A i \in 1 .. Len(a) : t[3 + i] = a[i]
  OBVIOUS
<1>4. \A i \in 1 .. Len(b) : t[3 + Len(a) + i] = b[i]
  OBVIOUS
<1> QED
  BY <1>1, <1>2, <1>3, <1>4

-----------------------------------------------------------------------------
(* The interrupt controllers.                                              *)

\* An acknowledgement empties a set of at most one line in service.
LEMMA EOIEffect ==
  ASSUME NEW p \in [{"master", "slave"} -> Chip],
         NEW chip \in {"master", "slave"}
  PROVE  /\ EOI(p, chip) \in [{"master", "slave"} -> Chip]
         /\ \A c \in {"master", "slave"} :
              /\ EOI(p, chip)[c].base = p[c].base
              /\ c # chip => EOI(p, chip)[c] = p[c]
         /\ AtMostOne(p[chip].isr) => EOI(p, chip)[chip].isr = {}
<1> DEFINE w == Write(chip, "command", "0x20")
           q == [p[chip] EXCEPT !.isr = @ \ {l \in @ : \A k \in @ : l <= k}]
<1>1. Written(p[chip], w) = q
  BY Zenon DEF Written, Write
<1>2. EOI(p, chip) = [p EXCEPT ![chip] = q]
  BY <1>1, Zenon DEF EOI, outb, Write
<1>3. q \in Chip /\ q.base = p[chip].base
  BY DEF Chip
<1>4. ASSUME AtMostOne(p[chip].isr)
      PROVE  q.isr = {}
  <2>1. p[chip].isr \subseteq 0 .. 7
    BY DEF Chip
  <2>2. \A l \in p[chip].isr :
          l \in {m \in p[chip].isr : \A k \in p[chip].isr : m <= k}
    BY <2>1, <1>4 DEF AtMostOne
  <2>3. q.isr = p[chip].isr \ {m \in p[chip].isr : \A k \in p[chip].isr : m <= k}
    BY DEF Chip
  <2> QED
    BY <2>2, <2>3, Zenon
<1> QED
  BY <1>2, <1>3, <1>4

\* A controller that is being initialised, or just has been.
Fresh(c, icw, base) ==
  c \in Chip /\ c.isr = {} /\ c.icw = icw /\ c.base = base

\* A byte for a controller's data port, by the state of the initialisation.
LEMMA DataByte ==
  ASSUME NEW c, NEW w, w.port = "data"
  PROVE  /\ c.icw = 2 => Written(c, w) = [c EXCEPT !.icw = 3, !.base = w.byte]
         /\ c.icw = 3 => Written(c, w) = [c EXCEPT !.icw = 4]
         /\ c.icw = 4 => Written(c, w) = [c EXCEPT !.icw = 0]
         /\ c.icw = 0 => Written(c, w) = [c EXCEPT !.imr = w.byte]
<1>1. "data" # "command" /\ 2 # 3 /\ 2 # 4 /\ 3 # 4 /\ 0 # 2 /\ 0 # 3 /\ 0 # 4
  OBVIOUS
<1> QED
  BY <1>1, Zenon DEF Written

\* The bytes of the initialisation, one after the other.
LEMMA InitBytes ==
  ASSUME NEW c \in Chip, NEW chip, NEW b \in Nat, NEW x \in Nat
  PROVE  /\ Fresh(Written(c, Write(chip, "command", "0x11")), 2, c.base)
         /\ Fresh(c, 2, b) => Fresh(Written(c, Write(chip, "data", x)), 3, x)
         /\ Fresh(c, 3, b) => Fresh(Written(c, Write(chip, "data", x)), 4, b)
         /\ Fresh(c, 4, b) => Fresh(Written(c, Write(chip, "data", x)), 0, b)
         /\ Fresh(c, 0, b) => Fresh(Written(c, Write(chip, "data", {})), 0, b)
<1>1. Fresh(Written(c, Write(chip, "command", "0x11")), 2, c.base)
  <2>1. Written(c, Write(chip, "command", "0x11")) =
          [c EXCEPT !.icw = 2, !.irr = {}, !.isr = {}, !.imr = {}]
    BY DEF Written, Write
  <2>2. PICK c1, c2, c3, c4 :
          /\ c1 = [c EXCEPT !.icw = 2] /\ c2 = [c1 EXCEPT !.irr = {}]
          /\ c3 = [c2 EXCEPT !.isr = {}] /\ c4 = [c3 EXCEPT !.imr = {}]
    BY Zenon
  <2>3. Written(c, Write(chip, "command", "0x11")) = c4
    BY <2>1, <2>2
  <2>4. c1 \in Chip /\ c1.icw = 2 /\ c1.base = c.base
    BY <2>2 DEF Chip
  <2>5. c2 \in Chip /\ c2.icw = 2 /\ c2.base = c.base
    BY <2>2, <2>4 DEF Chip
  <2>6. c3 \in Chip /\ c3.icw = 2 /\ c3.base = c.base /\ c3.isr = {}
    BY <2>2, <2>5 DEF Chip
  <2>7. c4 \in Chip /\ c4.icw = 2 /\ c4.base = c.base /\ c4.isr = {}
    BY <2>2, <2>6 DEF Chip
  <2> QED
    BY <2>3, <2>7 DEF Fresh
<1>2. /\ Write(chip, "data", x).port = "data"
      /\ Write(chip, "data", x).byte = x
      /\ Write(chip, "data", {}).port = "data"
      /\ Write(chip, "data", {}).byte = {}
  BY DEF Write
<1>3. ASSUME c.isr = {}
      PROVE  /\ Fresh([c EXCEPT !.icw = 3, !.base = x], 3, x)
             /\ Fresh([c EXCEPT !.icw = 4], 4, c.base)
             /\ Fresh([c EXCEPT !.icw = 0], 0, c.base)
             /\ Fresh([c EXCEPT !.imr = {}], c.icw, c.base)
  <2>1. Fresh([c EXCEPT !.icw = 3, !.base = x], 3, x)
    <3>1. PICK c1 : c1 = [c EXCEPT !.icw = 3]
      OBVIOUS
    <3>2. [c EXCEPT !.icw = 3, !.base = x] = [c1 EXCEPT !.base = x]
      BY <3>1
    <3>3. c1 \in Chip /\ c1.isr = {} /\ c1.icw = 3
      BY <1>3, <3>1 DEF Chip
    <3> QED
      BY <3>2, <3>3 DEF Fresh, Chip
  <2>2. /\ Fresh([c EXCEPT !.icw = 4], 4, c.base)
        /\ Fresh([c EXCEPT !.icw = 0], 0, c.base)
    BY <1>3 DEF Fresh, Chip
  <2>3. Fresh([c EXCEPT !.imr = {}], c.icw, c.base)
    BY <1>3 DEF Fresh, Chip
  <2> QED
    BY <2>1, <2>2, <2>3
<1>4. /\ c.icw = 2 => Written(c, Write(chip, "data", x)) =
                        [c EXCEPT !.icw = 3, !.base = x]
      /\ c.icw = 3 => Written(c, Write(chip, "data", x)) = [c EXCEPT !.icw = 4]
      /\ c.icw = 4 => Written(c, Write(chip, "data", x)) = [c EXCEPT !.icw = 0]
      /\ c.icw = 0 => Written(c, Write(chip, "data", {})) = [c EXCEPT !.imr = {}]
  <2>1. ASSUME NEW w, w = Write(chip, "data", x)
        PROVE  /\ c.icw = 2 => Written(c, w) = [c EXCEPT !.icw = 3, !.base = x]
               /\ c.icw = 3 => Written(c, w) = [c EXCEPT !.icw = 4]
               /\ c.icw = 4 => Written(c, w) = [c EXCEPT !.icw = 0]
    <3>1. w.port = "data" /\ w.byte = x
      BY <1>2, <2>1, Zenon
    <3> QED
      BY <3>1, DataByte
  <2>2. ASSUME NEW w, w = Write(chip, "data", {})
        PROVE  c.icw = 0 => Written(c, w) = [c EXCEPT !.imr = {}]
    <3>1. w.port = "data" /\ w.byte = {}
      BY <1>2, <2>2, Zenon
    <3>2. c.icw = 0 => Written(c, w) = [c EXCEPT !.imr = w.byte]
      BY <3>1, DataByte
    <3> QED
      BY <3>1, <3>2, Zenon
  <2> QED
    BY <2>1, <2>2, Zenon
<1>5. \A i : Fresh(c, i, b) <=> c.isr = {} /\ c.icw = i /\ c.base = b
  BY Zenon DEF Fresh
<1> QED
  BY <1>1, <1>3, <1>4, <1>5, Zenon

\* A pair of outb calls writes one byte to each controller.
LEMMA PairEffect ==
  ASSUME NEW p \in [{"master", "slave"} -> Chip], NEW port, NEW x, NEW y
  PROVE  outb_pair(p, port, x, y) =
           [chip \in {"master", "slave"} |->
              IF chip = "master" THEN Written(p[chip], Write(chip, port, x))
              ELSE Written(p[chip], Write(chip, port, y))]
<1>1. outb_pair(p, port, x, y) =
        [[p EXCEPT !["master"] = Written(@, Write("master", port, x))]
           EXCEPT !["slave"] = Written(@, Write("slave", port, y))]
  BY DEF outb_pair, outb, Write
<1> QED
  BY <1>1

\* Both controllers after a pair of bytes.
FreshPair(p, icw, b1, b2) ==
  /\ p \in [{"master", "slave"} -> Chip]
  /\ Fresh(p["master"], icw, b1)
  /\ Fresh(p["slave"], icw, b2)

\* ... so it has the effect of each byte on its own controller.
LEMMA FreshPairIs ==
  ASSUME NEW p \in [{"master", "slave"} -> Chip], NEW port, NEW x, NEW y,
         NEW i, NEW b1, NEW b2,
         Fresh(Written(p["master"], Write("master", port, x)), i, b1),
         Fresh(Written(p["slave"], Write("slave", port, y)), i, b2)
  PROVE  FreshPair(outb_pair(p, port, x, y), i, b1, b2)
<1>1. PICK q : q = outb_pair(p, port, x, y)
  OBVIOUS
<1>2. /\ DOMAIN q = {"master", "slave"}
      /\ q = [chip \in {"master", "slave"} |-> q[chip]]
      /\ q["master"] = Written(p["master"], Write("master", port, x))
      /\ q["slave"] = Written(p["slave"], Write("slave", port, y))
  BY <1>1, PairEffect
<1>3. q["master"] \in Chip /\ q["slave"] \in Chip
  BY <1>2, Zenon DEF Fresh
<1> QED
  BY <1>1, <1>2, <1>3 DEF FreshPair

\* init_irq leaves both controllers initialised, with nothing in service.
LEMMA InitIrqEffect ==
  ASSUME NEW p \in [{"master", "slave"} -> Chip]
  PROVE  FreshPair(init_irq_outb(p), 0, 32, 40)
<1>1. PICK p1, p2, p3, p4 :
        /\ p1 = outb_pair(p, "command", "0x11", "0x11")
        /\ p2 = outb_pair(p1, "data", 32, 40)
        /\ p3 = outb_pair(p2, "data", 4, 2)
        /\ p4 = outb_pair(p3, "data", 1, 1)
  BY Zenon
<1>2. PICK b1 \in Nat, b2 \in Nat :
        b1 = p["master"].base /\ b2 = p["slave"].base
  BY DEF Chip
<1>3. p["master"] \in Chip /\ p["slave"] \in Chip
  OBVIOUS
<1>4. FreshPair(p1, 2, b1, b2)
  BY <1>1, <1>2, <1>3, InitBytes, FreshPairIs
<1>5. FreshPair(p2, 3, 32, 40)
  <2>1. /\ p1 \in [{"master", "slave"} -> Chip]
        /\ p1["master"] \in Chip /\ p1["slave"] \in Chip
        /\ Fresh(p1["master"], 2, b1) /\ Fresh(p1["slave"], 2, b2)
    BY <1>4, Zenon DEF FreshPair, Fresh
  <2>2. /\ Fresh(Written(p1["master"], Write("master", "data", 32)), 3, 32)
        /\ Fresh(Written(p1["slave"], Write("slave", "data", 40)), 3, 40)
    BY <1>2, <2>1, InitBytes
  <2> QED
    BY <1>1, <2>1, <2>2, FreshPairIs
<1>6. FreshPair(p3, 4, 32, 40)
  <2>1. /\ p2 \in [{"master", "slave"} -> Chip]
        /\ p2["master"] \in Chip /\ p2["slave"] \in Chip
        /\ Fresh(p2["master"], 3, 32) /\ Fresh(p2["slave"], 3, 40)
    BY <1>5, Zenon DEF FreshPair, Fresh
  <2>2. /\ Fresh(Written(p2["master"], Write("master", "data", 4)), 4, 32)
        /\ Fresh(Written(p2["slave"], Write("slave", "data", 2)), 4, 40)
    BY <2>1, InitBytes
  <2> QED
    BY <1>1, <2>1, <2>2, FreshPairIs
<1>7. FreshPair(p4, 0, 32, 40)
  <2>1. /\ p3 \in [{"master", "slave"} -> Chip]
        /\ p3["master"] \in Chip /\ p3["slave"] \in Chip
        /\ Fresh(p3["master"], 4, 32) /\ Fresh(p3["slave"], 4, 40)
    BY <1>6, Zenon DEF FreshPair, Fresh
  <2>2. /\ Fresh(Written(p3["master"], Write("master", "data", 1)), 0, 32)
        /\ Fresh(Written(p3["slave"], Write("slave", "data", 1)), 0, 40)
    BY <2>1, InitBytes
  <2> QED
    BY <1>1, <2>1, <2>2, FreshPairIs
<1>8. init_irq_outb(p) = outb_pair(p4, "data", {}, {})
  BY <1>1, Zenon DEF init_irq_outb
<1>9. FreshPair(outb_pair(p4, "data", {}, {}), 0, 32, 40)
  <2>1. /\ p4 \in [{"master", "slave"} -> Chip]
        /\ p4["master"] \in Chip /\ p4["slave"] \in Chip
        /\ Fresh(p4["master"], 0, 32) /\ Fresh(p4["slave"], 0, 40)
    BY <1>7, Zenon DEF FreshPair, Fresh
  <2>2. /\ Fresh(Written(p4["master"], Write("master", "data", {})), 0, 32)
        /\ Fresh(Written(p4["slave"], Write("slave", "data", {})), 0, 40)
    BY <2>1, InitBytes
  <2> QED
    BY <2>1, <2>2, FreshPairIs
<1> QED
  BY <1>8, <1>9

-----------------------------------------------------------------------------
(* The CPU enters a handler.                                               *)

\* Registers after an assignment to some of them.
LEMMA SetEip ==
  ASSUME NEW c \in CpuStates, NEW e \in Words, NEW d, d = [c EXCEPT !.eip = e]
  PROVE  /\ d \in CpuStates
         /\ d.eip = e /\ d.eflags = c.eflags /\ d.ds = c.ds /\ d.regs = c.regs
BY DEF CpuStates

\* The same for eflags.
LEMMA SetFlags ==
  ASSUME NEW c \in CpuStates, NEW f \in Words, NEW d, d = [c EXCEPT !.eflags = f]
  PROVE  /\ d \in CpuStates
         /\ d.eip = c.eip /\ d.eflags = f /\ d.ds = c.ds /\ d.regs = c.regs
BY DEF CpuStates

\* The same for cs.
LEMMA SetCs ==
  ASSUME NEW c \in CpuStates, NEW f \in Words, NEW d, d = [c EXCEPT !.cs = f]
  PROVE  /\ d \in CpuStates
         /\ d.eip = c.eip /\ d.eflags = c.eflags
         /\ d.ds = c.ds /\ d.regs = c.regs
BY DEF CpuStates

\* The CPU has a gate for the vector and pushes half a frame ...
Pushed(vector, code) ==
  /\ stack' = code \o <<cpu.eip, cpu.cs, cpu.eflags>> \o stack
  /\ cpu' = [cpu EXCEPT !.eip = Word("stub", vector),
                        !.cs = Word("cs", "0x08"), !.eflags = Flags(FALSE)]
  /\ saved' = <<[cpu |-> cpu, vector |-> vector, code |-> code]>> \o saved

\* ... or it has none and resets.
Reset ==
  /\ cpu' = [cpu EXCEPT !.eip = Code("reset"), !.eflags = Flags(FALSE)]
  /\ UNCHANGED <<stack, saved>>

\* Those are the two cases of Enter.
LEMMA EnterIs ==
  ASSUME NEW v, NEW code, Enter(v, code)
  PROVE  Pushed(v, code) \/ Reset
BY DEF Enter, Pushed, Reset

\* The history gains one entry at its front.
LEMMA PushedSaved ==
  ASSUME Types, NEW v \in Nat, NEW code \in Seq(Words), Pushed(v, code)
  PROVE  /\ saved' \in Seq(Interrupted)
         /\ Len(saved') = Len(saved) + 1
         /\ saved' # <<>>
         /\ saved'[1] = [cpu |-> cpu, vector |-> v, code |-> code]
         /\ \A d \in 1 .. Len(saved) : saved'[d + 1] = saved[d]
<1> DEFINE r == [cpu |-> cpu, vector |-> v, code |-> code]
<1>1. r \in Interrupted
  BY DEF Types, Interrupted
<1>2. <<r>> \in Seq(Interrupted) /\ Len(<<r>>) = 1 /\ <<r>>[1] = r
  BY <1>1
<1>3. saved' = <<r>> \o saved
  BY DEF Pushed
<1>4. saved \in Seq(Interrupted)
  BY DEF Types
<1> HIDE DEF r
<1>5. /\ saved' \in Seq(Interrupted)
      /\ Len(saved') = 1 + Len(saved)
      /\ \A i \in 1 .. 1 : saved'[i] = <<r>>[i]
      /\ \A i \in 1 .. Len(saved) : saved'[1 + i] = saved[i]
  BY <1>2, <1>3, <1>4, ConcatIndex
<1>6. Len(saved) \in Nat
  BY <1>4
<1>7. saved' # <<>> /\ Len(saved') = Len(saved) + 1
  BY <1>5, <1>6
<1>8. \A d \in 1 .. Len(saved) : saved'[d + 1] = saved[d]
  BY <1>5, <1>6
<1>9. saved'[1] = r
  BY <1>2, <1>5
<1> QED
  BY <1>5, <1>7, <1>8, <1>9 DEF r

\* What the CPU pushes, by index.
LEMMA PushedStack ==
  ASSUME Types, NEW v \in Nat, NEW code \in Seq(Words), Pushed(v, code)
  PROVE  /\ stack' \in Seq(Words)
         /\ Len(stack') = Len(code) + 3 + Len(stack)
         /\ \A i \in 1 .. Len(code) : stack'[i] = code[i]
         /\ stack'[Len(code) + 1] = cpu.eip
         /\ stack'[Len(code) + 2] = cpu.cs
         /\ stack'[Len(code) + 3] = cpu.eflags
         /\ \A i \in 1 .. Len(stack) : stack'[Len(code) + 3 + i] = stack[i]
<1>1. stack' = code \o <<cpu.eip, cpu.cs, cpu.eflags>> \o stack
  BY DEF Pushed
<1>2. /\ stack \in Seq(Words)
      /\ cpu.eip \in Words /\ cpu.cs \in Words /\ cpu.eflags \in Words
  BY DEF Types, CpuStates
<1> QED
  BY <1>1, <1>2, ThreeBehind

\* The CPU's registers after both.
LEMMA EnterCpu ==
  ASSUME Types, NEW v \in Nat, NEW code
  PROVE  /\ Pushed(v, code) =>
              /\ cpu' \in CpuStates
              /\ cpu'.eip = Word("stub", v) /\ cpu'.eflags = Flags(FALSE)
              /\ cpu'.ds = cpu.ds /\ cpu'.regs = cpu.regs
         /\ Reset =>
              /\ cpu' \in CpuStates
              /\ cpu'.eip = Code("reset") /\ cpu'.eflags = Flags(FALSE)
<1>1. /\ Word("stub", v) \in Words /\ Flags(FALSE) \in Words
      /\ Word("cs", "0x08") \in Words /\ Code("reset") \in Words
      /\ cpu \in CpuStates
  BY PlaceWords DEF Labels, Types
<1>2. PICK c, e, f, g, h :
        /\ c = cpu /\ e = Word("stub", v) /\ f = Flags(FALSE)
        /\ g = Word("cs", "0x08") /\ h = Code("reset")
  BY Zenon
<1>3. c \in CpuStates /\ e \in Words /\ f \in Words /\ g \in Words /\ h \in Words
  BY <1>1, <1>2, Zenon
<1>4. PICK c1 : c1 = [c EXCEPT !.eip = e]
  OBVIOUS
<1>5. c1 \in CpuStates /\ c1.eip = e /\ c1.ds = c.ds /\ c1.regs = c.regs
  BY <1>3, <1>4, SetEip
<1>6. PICK c2 : c2 = [c1 EXCEPT !.cs = g]
  OBVIOUS
<1>7. c2 \in CpuStates /\ c2.eip = e /\ c2.ds = c.ds /\ c2.regs = c.regs
  BY <1>3, <1>5, <1>6, SetCs
<1>8. PICK c3 : c3 = [c2 EXCEPT !.eflags = f]
  OBVIOUS
<1>9. c3 \in CpuStates /\ c3.eip = e /\ c3.ds = c.ds /\ c3.regs = c.regs
        /\ c3.eflags = f
  BY <1>3, <1>7, <1>8, SetFlags
<1>10. PICK d1 : d1 = [c EXCEPT !.eip = h]
  OBVIOUS
<1>11. d1 \in CpuStates /\ d1.eip = h
  BY <1>3, <1>10, SetEip
<1>12. PICK d2 : d2 = [d1 EXCEPT !.eflags = f]
  OBVIOUS
<1>13. d2 \in CpuStates /\ d2.eip = h /\ d2.eflags = f
  BY <1>3, <1>11, <1>12, SetFlags
<1>14. Pushed(v, code) => cpu' = [c EXCEPT !.eip = e, !.cs = g, !.eflags = f]
  BY <1>2, Zenon DEF Pushed
<1>15. Reset => cpu' = [c EXCEPT !.eip = h, !.eflags = f]
  BY <1>2, Zenon DEF Reset
<1>16. Pushed(v, code) => cpu' = c3
  BY <1>4, <1>6, <1>8, <1>14
<1>17. Reset => cpu' = d2
  BY <1>10, <1>12, <1>15
<1> QED
  BY <1>2, <1>9, <1>13, <1>16, <1>17, Zenon

\* An interrupt pushes the topmost half frame and leaves the others in place.
LEMMA EnterFrames ==
  ASSUME Inv, ~ InStub, NEW v \in Nat, NEW code \in Seq(Words),
         Len(code) = IF PushesDummy(v) THEN 0 ELSE 1,
         Enter(v, code)
  PROVE  /\ cpu' \in CpuStates
         /\ stack' \in Seq(Words)
         /\ saved' \in Seq(Interrupted)
         /\ Frames'
         /\ HalfFrame'
<1>1. Types /\ Len(saved) \in Nat /\ Len(stack) \in Nat
  BY DEF Inv, Types
<1>2. CASE Reset
  <2>1. cpu' \in CpuStates /\ cpu'.eip = Code("reset")
    BY <1>1, <1>2, EnterCpu
  <2>2. ~ InStub'
    BY <2>1 DEF InStub, Code, Word
  <2>3. stack' = stack /\ saved' = saved
    BY <1>2 DEF Reset
  <2> QED
    BY <1>1, <2>1, <2>2, <2>3 DEF Inv, Types, Frames, HalfFrame
<1>3. CASE Pushed(v, code)
  <2>1. cpu' \in CpuStates /\ cpu'.eip = Word("stub", v) /\ cpu'.ds = cpu.ds
          /\ cpu'.regs = cpu.regs
    BY <1>1, <1>3, EnterCpu
  <2>2. InStub'
    BY <2>1 DEF InStub, Word
  <2>3. /\ saved' \in Seq(Interrupted)
        /\ Len(saved') = Len(saved) + 1
        /\ saved'[1] = [cpu |-> cpu, vector |-> v, code |-> code]
        /\ \A d \in 1 .. Len(saved) : saved'[d + 1] = saved[d]
    BY <1>1, <1>3, PushedSaved
  <2>4. /\ stack' \in Seq(Words)
        /\ Len(stack') = Len(code) + 3 + Len(stack)
        /\ \A i \in 1 .. Len(code) : stack'[i] = code[i]
        /\ stack'[Len(code) + 1] = cpu.eip
        /\ stack'[Len(code) + 2] = cpu.cs
        /\ stack'[Len(code) + 3] = cpu.eflags
        /\ \A i \in 1 .. Len(stack) : stack'[Len(code) + 3 + i] = stack[i]
    BY <1>1, <1>3, PushedStack
  <2>5. /\ Len(stack) = 7 * Len(saved)
        /\ \A d \in 1 .. Len(saved) : FrameAt(stack, 7 * (d - 1), saved[d])
    BY DEF Inv, Frames
  <2>6. /\ saved'[1].cpu = cpu /\ saved'[1].vector = v /\ saved'[1].code = code
    BY <2>3
  <2> DEFINE k == Len(code)
  <2>7. k \in Nat
    OBVIOUS
  <2>8. ASSUME NEW d \in 2 .. Len(saved')
        PROVE  FrameAt(stack', k + 3 + 7 * (d - 2), saved'[d])
    <3>1. PICK e : e = d - 1
      OBVIOUS
    <3>2. e \in 1 .. Len(saved) /\ d = e + 1
      BY <1>1, <2>3, <3>1
    <3>3. FrameAt(stack, 7 * (e - 1), saved[e]) /\ saved'[d] = saved[e]
      BY <2>3, <2>5, <3>2
    <3>4. PICK i : i = 7 * (e - 1)
      OBVIOUS
    <3>5. /\ i \in Nat /\ i + 7 <= Len(stack)
          /\ k + 3 + 7 * (d - 2) = k + 3 + i
      BY <1>1, <2>5, <3>2, <3>4, <2>7
    <3>6. \A j \in 1 .. 7 : stack'[(k + 3 + i) + j] = stack[i + j]
      <4>1. \A j \in 1 .. 7 : i + j \in 1 .. Len(stack)
                                /\ (k + 3 + i) + j = k + 3 + (i + j)
        BY <1>1, <2>7, <3>5
      <4> QED
        BY <2>4, <4>1
    <3>7. FrameAt(stack', k + 3 + i, saved[e])
      BY <3>3, <3>4, <3>6 DEF FrameAt
    <3> QED
      BY <3>3, <3>5, <3>7
  <2>9. Len(saved') > 0 /\ Len(stack') = k + 3 + 7 * (Len(saved') - 1)
    BY <1>1, <2>3, <2>4, <2>5, <2>7
  <2>10. k = 1 => stack'[1] = code[1]
    <3>1. k = 1 => 1 \in 1 .. Len(code)
      BY <2>7
    <3> QED
      BY <2>4, <3>1, Zenon
  <2> HIDE DEF k
  <2>11. HalfFrame'
    BY <2>1, <2>4, <2>6, <2>8, <2>9, <2>10 DEF HalfFrame, k
  <2>12. Frames'
    BY <2>2 DEF Frames
  <2> QED
    BY <2>1, <2>3, <2>4, <2>11, <2>12
<1> QED
  BY <1>2, <1>3, EnterIs

\* An interrupt nests as it should.
LEMMA EnterNesting ==
  ASSUME Inv, NEW v \in Nat, NEW code \in Seq(Words), Enter(v, code),
         cpu.eip \in MainCode \/ (cpu.eip \in HandlerCode /\ v < 32)
  PROVE  Nesting'
<1>1. Types /\ Nesting
  BY DEF Inv
<1>2. saved \in Seq(Interrupted) /\ Len(saved) \in Nat
  BY <1>1 DEF Types
<1>3. CASE Reset
  <2>1. cpu'.eip = Code("reset") /\ cpu'.eflags = Flags(FALSE) /\ saved' = saved
    BY <1>1, <1>3, EnterCpu, Zenon DEF Reset
  <2>2. \A u : Code("reset") \in HandlerPlaces(u)
    BY Zenon DEF HandlerPlaces
  <2> QED
    BY <1>1, <2>1, <2>2, Zenon DEF Nesting
<1>4. CASE Pushed(v, code)
  <2>1. cpu'.eip = Word("stub", v) /\ cpu'.eflags = Flags(FALSE)
    BY <1>1, <1>4, EnterCpu, Zenon
  <2>2. /\ Len(saved') = Len(saved) + 1
        /\ saved' # <<>>
        /\ saved'[1].cpu = cpu /\ saved'[1].vector = v
        /\ \A d \in 1 .. Len(saved) : saved'[d + 1] = saved[d]
    <3>1. saved'[1] = [cpu |-> cpu, vector |-> v, code |-> code]
      BY <1>1, <1>4, PushedSaved
    <3>2. /\ Len(saved') = Len(saved) + 1
          /\ saved' # <<>>
          /\ \A d \in 1 .. Len(saved) : saved'[d + 1] = saved[d]
      BY <1>1, <1>4, PushedSaved
    <3> QED
      BY <3>1, <3>2
  <2>3. cpu'.eip \in HandlerPlaces(saved'[1].vector)
    BY <2>1, <2>2, Zenon DEF HandlerPlaces
  <2>4. ASSUME NEW d \in 1 .. Len(saved')
        PROVE  IF d = Len(saved') THEN saved'[d].cpu.eip \in MainCode
               ELSE /\ saved'[d].vector < 32
                    /\ saved'[d].cpu.eip \in
                         HandlerCode \cap HandlerPlaces(saved'[d + 1].vector)
                    /\ saved'[d].cpu.eflags = Flags(FALSE)
    <3>1. CASE d = 1 /\ Len(saved) = 0
      <4>1. saved = <<>>
        BY <1>2, <3>1
      <4>2. cpu.eip \in MainCode \cup {Code("hang"), Code("reset")}
        BY <1>1, <4>1 DEF Nesting
      <4>3. cpu.eip \in MainCode
        BY <4>2 DEF HandlerCode, Code, Word
      <4> QED
        BY <2>2, <3>1, <4>3
    <3>2. CASE d = 1 /\ Len(saved) > 0
      <4>1. saved # <<>>
        BY <1>2, <3>2
      <4>2. cpu.eip \notin MainCode
        BY <4>1, MainHasNoFrames
      <4>3. cpu.eip \in HandlerPlaces(saved[1].vector) /\ cpu.eflags = Flags(FALSE)
        BY <1>1, <4>1 DEF Nesting
      <4>4. saved'[2] = saved[1]
        <5>1. 1 \in 1 .. Len(saved) /\ 2 = 1 + 1
          BY <1>2, <3>2
        <5> QED
          BY <2>2, <5>1
      <4>5. d # Len(saved')
        BY <1>2, <2>2, <3>2
      <4>6. cpu.eip \in HandlerCode /\ v < 32
        BY <4>2
      <4>7. saved'[d].vector = v /\ saved'[d].cpu = cpu /\ saved'[d + 1] = saved[1]
        BY <2>2, <3>2, <4>4
      <4> QED
        BY <4>3, <4>5, <4>6, <4>7, Zenon
    <3>3. CASE d > 1
      <4>1. PICK e : e = d - 1
        OBVIOUS
      <4>2. e \in 1 .. Len(saved) /\ d = e + 1 /\ d + 1 = (e + 1) + 1
        BY <1>2, <2>2, <3>3, <4>1
      <4>3. saved'[d] = saved[e]
        BY <2>2, <4>2
      <4>4. CASE e = Len(saved)
        <5>1. d = Len(saved')
          BY <1>2, <2>2, <4>2, <4>4
        <5>2. saved[e].cpu.eip \in MainCode
          BY <1>1, <4>2, <4>4 DEF Nesting
        <5> QED
          BY <4>3, <5>1, <5>2
      <4>5. CASE e # Len(saved)
        <5>1. d # Len(saved') /\ e + 1 \in 1 .. Len(saved)
          BY <1>2, <2>2, <4>2, <4>5
        <5>2. saved'[d + 1] = saved[e + 1]
          BY <2>2, <4>2, <5>1
        <5>3. /\ saved[e].vector < 32
              /\ saved[e].cpu.eip \in
                   HandlerCode \cap HandlerPlaces(saved[e + 1].vector)
              /\ saved[e].cpu.eflags = Flags(FALSE)
          BY <1>1, <4>2, <4>5, Zenon DEF Nesting
        <5> QED
          BY <4>3, <5>1, <5>2, <5>3
      <4> QED
        BY <4>4, <4>5
    <3>4. d = 1 \/ d > 1
      BY <1>2, <2>2
    <3>5. Len(saved) = 0 \/ Len(saved) > 0
      BY <1>2
    <3> QED
      BY <3>1, <3>2, <3>3, <3>4, <3>5
  <2>5. cpu'.eflags = Flags(FALSE) /\ saved' # <<>>
    BY <2>1, <2>2
  <2> QED
    BY <2>3, <2>4, <2>5, Zenon DEF Nesting
<1> QED
  BY <1>3, <1>4, EnterIs

\* An interrupt leaves alone what the CPU held in kernel_main.
LEMMA PushedMain ==
  ASSUME Types, NEW v \in Nat, NEW code \in Seq(Words), Pushed(v, code)
  PROVE  MainCpu' = MainCpu
<1>1. /\ Len(saved') = Len(saved) + 1
      /\ saved' # <<>>
      /\ saved'[1].cpu = cpu
      /\ \A d \in 1 .. Len(saved) : saved'[d + 1] = saved[d]
  <2>1. saved'[1] = [cpu |-> cpu, vector |-> v, code |-> code]
    BY PushedSaved
  <2>2. saved' # <<>> /\ Len(saved') = Len(saved) + 1
          /\ \A d \in 1 .. Len(saved) : saved'[d + 1] = saved[d]
    BY PushedSaved
  <2> QED
    BY <2>1, <2>2
<1>2. saved \in Seq(Interrupted) /\ Len(saved) \in Nat
  BY DEF Types
<1>3. MainCpu' = saved'[Len(saved')].cpu
  BY <1>1 DEF MainCpu
<1>4. CASE saved = <<>>
  <2>1. Len(saved') = 1
    BY <1>1, <1>4
  <2> QED
    BY <1>1, <1>3, <1>4, <2>1 DEF MainCpu
<1>5. CASE saved # <<>>
  <2>1. Len(saved) \in 1 .. Len(saved)
    BY <1>2, <1>5
  <2>2. saved'[Len(saved')] = saved[Len(saved)]
    BY <1>1, <2>1
  <2> QED
    BY <1>3, <1>5, <2>2 DEF MainCpu
<1> QED
  BY <1>4, <1>5

\* Neither case changes what kernel_main has set up.
LEMMA EnterRemapped ==
  ASSUME Inv, NEW v \in Nat, NEW code \in Seq(Words), Enter(v, code),
         \A chip \in {"master", "slave"} : pic'[chip].base = pic[chip].base
  PROVE  Remapped'
<1>1. Types /\ Remapped
  BY DEF Inv
<1>2. CASE Reset
  <2>1. cpu'.eip = Code("reset") /\ cpu'.eflags = Flags(FALSE) /\ saved' = saved
    BY <1>1, <1>2, EnterCpu, Zenon DEF Reset
  <2>2. Code("reset") \notin MainCode /\ Flags(TRUE) # Flags(FALSE)
    BY MainCodeIs DEF Code, Word, Flags
  <2>3. CASE saved = <<>>
    BY <2>1, <2>2, <2>3 DEF Remapped, MainCpu
  <2>4. CASE saved # <<>>
    <3>1. MainCpu' = MainCpu
      BY <2>1, <2>4 DEF MainCpu
    <3> QED
      BY <1>1, <3>1 DEF Remapped
  <2> QED
    BY <2>3, <2>4
<1>3. CASE Pushed(v, code)
  <2>1. MainCpu' = MainCpu
    BY <1>1, <1>3, PushedMain
  <2> QED
    BY <1>1, <2>1 DEF Remapped
<1> QED
  BY <1>2, <1>3, EnterIs

\* An interrupt leaves alone how far the handler of the outermost one is.
LEMMA PushedOutermost ==
  ASSUME Types, NEW v \in Nat, NEW code \in Seq(Words), Pushed(v, code),
         saved # <<>>
  PROVE  /\ Outermost' = Outermost
         /\ saved' # <<>>
         /\ saved'[Len(saved')].vector = saved[Len(saved)].vector
<1>1. saved'[1] = [cpu |-> cpu, vector |-> v, code |-> code]
  BY PushedSaved
<1>2. /\ Len(saved') = Len(saved) + 1
      /\ saved' # <<>>
      /\ \A d \in 1 .. Len(saved) : saved'[d + 1] = saved[d]
  BY PushedSaved
<1>3. Len(saved) \in Nat /\ Len(saved) >= 1
  <2>1. saved \in Seq(Interrupted)
    BY DEF Types
  <2>2. Len(saved) \in Nat /\ Len(saved) > 0
    BY <2>1, NonEmpty
  <2> QED
    BY <2>2
<1>4. saved'[Len(saved')] = saved[Len(saved)]
  BY <1>2, <1>3
<1>5. Outermost' = saved'[Len(saved)].cpu.eip
  <2>1. Len(saved') # 1 /\ Len(saved') - 1 = Len(saved)
    BY <1>2, <1>3
  <2> QED
    BY <2>1 DEF Outermost
<1>6. CASE Len(saved) = 1
  BY <1>1, <1>2, <1>4, <1>5, <1>6 DEF Outermost
<1>7. CASE Len(saved) > 1
  <2>1. PICK e : e = Len(saved) - 1
    OBVIOUS
  <2>2. e \in 1 .. Len(saved) /\ Len(saved) = e + 1
    BY <1>3, <1>7, <2>1
  <2>3. saved'[Len(saved)] = saved[e]
    BY <1>2, <2>2
  <2>4. Outermost = saved[e].cpu.eip
    BY <1>7, <2>1 DEF Outermost
  <2> QED
    BY <1>2, <1>4, <1>5, <2>3, <2>4
<1>8. Len(saved) = 1 \/ Len(saved) > 1
  <2>1. \A n \in Nat : n >= 1 => n = 1 \/ n > 1
    OBVIOUS
  <2> QED
    BY <1>3, <2>1, Zenon
<1> QED
  BY <1>6, <1>7, <1>8

-----------------------------------------------------------------------------
(* The actions.                                                            *)

\* The CPU faults at a place in kernel_main or in a handler.
LEMMA FaultInv ==
  ASSUME Inv, NEW n \in (0 .. 31) \ {17}, NEW value \in Nat, Fault(n, value),
         pic' = pic, cpu.eip \in MainCode \cup HandlerCode
  PROVE  Inv'
<1>1. PICK code : code = IF HasCode(n) THEN <<Word("error_code", value)>> ELSE <<>>
  OBVIOUS
<1>2. Enter(n, code)
  BY <1>1, Zenon DEF Fault
<1>3. code \in Seq(Words) /\ Len(code) = IF PushesDummy(n) THEN 0 ELSE 1
  <2>1. Word("error_code", value) \in Words
    BY PlaceWords
  <2>2. HasCode(n) <=> ~ PushesDummy(n)
    BY DEF HasCode, PushesDummy
  <2>3. CASE HasCode(n)
    <3>1. code = <<Word("error_code", value)>>
      BY <1>1, <2>3, Zenon
    <3> QED
      BY <2>1, <2>2, <2>3, <3>1
  <2>4. CASE ~ HasCode(n)
    <3>1. code = <<>>
      BY <1>1, <2>4, Zenon
    <3> QED
      BY <2>2, <2>4, <3>1
  <2> QED
    BY <2>3, <2>4
<1>4. ~ InStub
  BY MainCodeIs DEF InStub, HandlerCode, Code, Word
<1>5. n \in Nat /\ n < 32
  OBVIOUS
<1>6. Types /\ Acknowledged /\ Nesting
  BY DEF Inv
<1>7. /\ cpu' \in CpuStates
      /\ stack' \in Seq(Words)
      /\ saved' \in Seq(Interrupted)
      /\ Frames'
      /\ HalfFrame'
  BY <1>2, <1>3, <1>4, <1>5, EnterFrames
<1>8. Types'
  BY <1>6, <1>7 DEF Types
<1>9. Nesting'
  <2>1. cpu.eip \in MainCode \/ (cpu.eip \in HandlerCode /\ n < 32)
    BY <1>5
  <2> QED
    BY <1>2, <1>3, <1>5, <2>1, EnterNesting
<1>10. Remapped'
  BY <1>2, <1>3, <1>5, EnterRemapped
<1>11. Acknowledged'
  <2>1. CASE Reset
    <3>1. cpu'.eip = Code("reset")
      BY <1>5, <1>6, <2>1, EnterCpu, Zenon
    <3> QED
      BY <3>1, Zenon DEF Acknowledged, StopCode
  <2>2. CASE Pushed(n, code) /\ saved = <<>>
    <3>1. InService
      <4>1. cpu.eip \notin StopCode
        BY PlacesApart, <1>5, Zenon
      <4> QED
        BY <1>6, <4>1 DEF Acknowledged
    <3>2. pic["master"].isr = {} /\ pic["slave"].isr = {}
      BY <2>2, <3>1 DEF InService
    <3>3. saved'[1] = [cpu |-> cpu, vector |-> n, code |-> code]
            /\ Len(saved') = Len(saved) + 1
      BY <1>3, <1>5, <1>6, <2>2, PushedSaved
    <3>4. Len(saved') = 1 /\ saved'[1].vector < 32
      BY <1>5, <2>2, <3>3
    <3>5. saved'[Len(saved')].vector < 32
      BY <3>4
    <3> QED
      BY <3>2, <3>5 DEF Acknowledged, InService
  <2>3. CASE Pushed(n, code) /\ saved # <<>>
    <3>1. InService
      <4>1. cpu.eip \notin StopCode
        BY PlacesApart, <1>5, Zenon
      <4> QED
        BY <1>6, <4>1 DEF Acknowledged
    <3>2. /\ Outermost' = Outermost
          /\ saved' # <<>>
          /\ saved'[Len(saved')].vector = saved[Len(saved)].vector
      BY <1>3, <1>5, <1>6, <2>3, PushedOutermost
    <3>3. InService'
      BY <2>3, <3>1, <3>2, Zenon DEF InService
    <3> QED
      BY <3>3 DEF Acknowledged
  <2> QED
    BY <1>2, <2>1, <2>2, <2>3, EnterIs
<1> QED
  BY <1>7, <1>8, <1>9, <1>10, <1>11 DEF Inv

\* An exception in kernel_main or in a handler preserves the invariant.
LEMMA ExceptionInv ==
  ASSUME Inv, NEW n \in Exceptions, exception(n)
  PROVE  Inv'
<1>1. n \in (0 .. 31) \ {17}
  BY InterruptsAssumption
<1>2. Fault(n, 1) /\ pic' = pic
  BY DEF exception
<1>3. cpu.eip \in MainCode \cup HandlerCode
  BY InKernelMainIs, Zenon DEF exception, At, HandlerCode
<1>4. 1 \in Nat
  OBVIOUS
<1> QED
  BY <1>1, <1>2, <1>3, <1>4, FaultInv

\* A nonempty set of lines has a first one.
LEMMA FirstIs ==
  ASSUME NEW S \in SUBSET (0 .. 7), S # {}
  PROVE  First(S) \in S /\ First(S) \in 0 .. 7
<1>1. \E l \in S : \A k \in S : l <= k
  <2>1. PICK x \in S : TRUE
    OBVIOUS
  <2> DEFINE Low(i) == i \in S /\ \A j \in 0 .. (i - 1) : j \notin S
  <2>2. \E i \in 0 .. 7 : Low(i)
    <3>1. CASE 0 \in S
      BY <3>1
    <3>2. CASE 0 \notin S /\ 1 \in S
      BY <3>2
    <3>3. CASE 0 \notin S /\ 1 \notin S /\ 2 \in S
      BY <3>3
    <3>4. CASE 0 \notin S /\ 1 \notin S /\ 2 \notin S /\ 3 \in S
      BY <3>4
    <3>5. CASE S \subseteq 4 .. 7 /\ 4 \in S
      BY <3>5
    <3>6. CASE S \subseteq 5 .. 7 /\ 5 \in S
      BY <3>6
    <3>7. CASE S \subseteq 6 .. 7 /\ 6 \in S
      BY <3>7
    <3>8. CASE S \subseteq 7 .. 7 /\ 7 \in S
      BY <3>8
    <3> QED
      BY <2>1, <3>1, <3>2, <3>3, <3>4, <3>5, <3>6, <3>7, <3>8
  <2> QED
    BY <2>2
<1>2. First(S) \in S
  BY <1>1, Zenon DEF First
<1> QED
  BY <1>2

\* A controller whose line becomes requested.
LEMMA RequestIs ==
  ASSUME NEW p \in [{"master", "slave"} -> Chip], NEW chip \in {"master", "slave"},
         NEW S \in SUBSET (0 .. 7),
         NEW q, q = [p EXCEPT ![chip].irr = S]
  PROVE  /\ q \in [{"master", "slave"} -> Chip]
         /\ \A c \in {"master", "slave"} :
              /\ q[c].isr = p[c].isr /\ q[c].base = p[c].base
              /\ q[c].imr = p[c].imr
              /\ c # chip => q[c] = p[c]
         /\ q[chip].irr = S
<1>1. PICK r : r = [p[chip] EXCEPT !.irr = S]
  OBVIOUS
<1>2. /\ r \in Chip /\ r.isr = p[chip].isr /\ r.base = p[chip].base
      /\ r.imr = p[chip].imr /\ r.irr = S
  BY <1>1 DEF Chip
<1>3. q = [p EXCEPT ![chip] = r]
  BY <1>1
<1> QED
  BY <1>2, <1>3

\* A device's request changes nothing that the invariant is about.
LEMMA RaiseInv ==
  ASSUME Inv, NEW l \in Lines, Raise(l)
  PROVE  Inv'
<1>1. UNCHANGED <<cpu, stack, saved>>
  BY DEF Raise
<1>2. PICK p : p = pic
  OBVIOUS
<1>3. p \in [{"master", "slave"} -> Chip]
  BY <1>2 DEF Inv, Types
<1>4. /\ pic' \in [{"master", "slave"} -> Chip]
      /\ \A c \in {"master", "slave"} :
           pic'[c].isr = p[c].isr /\ pic'[c].base = p[c].base
  <2>1. l \in 0 .. 15
    BY InterruptsAssumption
  <2>2. CASE l < 8
    <3>1. PICK S : S = p["master"].irr \cup {l}
      OBVIOUS
    <3>2. S \in SUBSET (0 .. 7)
      BY <1>3, <2>1, <2>2, <3>1 DEF Chip
    <3>3. pic' = [p EXCEPT !["master"].irr = S]
      BY <1>2, <2>2, <3>1 DEF Raise
    <3> QED
      BY <1>3, <3>2, <3>3, RequestIs
  <2>3. CASE ~ (l < 8)
    <3>1. PICK S : S = p["slave"].irr \cup {l - 8}
      OBVIOUS
    <3>2. S \in SUBSET (0 .. 7)
      BY <1>3, <2>1, <2>3, <3>1 DEF Chip
    <3>3. pic' = [p EXCEPT !["slave"].irr = S]
      BY <1>2, <2>3, <3>1 DEF Raise
    <3> QED
      BY <1>3, <3>2, <3>3, RequestIs
  <2> QED
    BY <2>2, <2>3
<1>5. Types' /\ Frames' /\ HalfFrame' /\ Nesting'
  BY <1>1, <1>4 DEF Inv, Types, Frames, HalfFrame, Nesting, InStub
<1>6. Remapped'
  BY <1>1, <1>2, <1>4 DEF Inv, Remapped, MainCpu
<1>7. Acknowledged'
  BY <1>1, <1>2, <1>4 DEF Inv, Acknowledged, InService, Outermost
<1> QED
  BY <1>5, <1>6, <1>7 DEF Inv

\* So does a step that changes only the tables or the counters.
LEMMA RegisterInv ==
  ASSUME Inv, UNCHANGED <<cpu, stack, pic, saved>>
  PROVE  Inv'
BY DEF Inv, Types, Frames, HalfFrame, Nesting, InStub, Remapped, MainCpu,
       Acknowledged, InService, Outermost

\* The lines that the controllers would let interrupt.
LEMMA ReadyIs ==
  ASSUME NEW p \in [{"master", "slave"} -> Chip]
  PROVE  /\ Ready(p, "master") \in SUBSET (0 .. 7)
         /\ Ready(p, "slave") \in SUBSET (0 .. 7)
         /\ Cascaded(p) \in [{"master", "slave"} -> Chip]
         /\ Cascaded(p)["slave"] = p["slave"]
         /\ 2 \in Ready(Cascaded(p), "master") => Ready(Cascaded(p), "slave") # {}
<1>1. /\ p["master"].irr \in SUBSET (0 .. 7)
      /\ p["slave"].irr \in SUBSET (0 .. 7)
  BY DEF Chip
<1>2. PICK S : S = IF Ready(p, "slave") # {} THEN p["master"].irr \cup {2}
                   ELSE p["master"].irr \ {2}
  OBVIOUS
<1>3. S \in SUBSET (0 .. 7)
  BY <1>1, <1>2
<1>4. PICK q : q = Cascaded(p)
  OBVIOUS
<1>5. q = [p EXCEPT !["master"].irr = S]
  BY <1>2, <1>4 DEF Cascaded
<1>6. /\ q \in [{"master", "slave"} -> Chip]
      /\ q["slave"] = p["slave"] /\ q["master"].irr = S
  BY <1>3, <1>5, RequestIs
<1>7. Ready(q, "slave") = Ready(p, "slave")
  BY <1>6 DEF Ready
<1>8. 2 \in Ready(q, "master") => 2 \in S
  BY <1>6 DEF Ready
<1>9. 2 \in S => Ready(p, "slave") # {}
  BY <1>2
<1>10. /\ Ready(p, "master") \in SUBSET (0 .. 7)
       /\ Ready(p, "slave") \in SUBSET (0 .. 7)
  BY <1>1 DEF Ready
<1> QED
  BY <1>4, <1>6, <1>7, <1>8, <1>9, <1>10

\* The CPU takes an interrupt: the line is alone in service, and for a line of
\* the slave the master has the slave in service.
LEMMA AcceptInv ==
  ASSUME Inv, accept
  PROVE  Inv'
<1>1. Types /\ Acknowledged /\ Nesting /\ Remapped
  BY DEF Inv
<1>2. PICK p, c : p = pic /\ c = Cascaded(pic)
  BY Zenon
<1>3. p \in [{"master", "slave"} -> Chip]
  BY <1>1, <1>2 DEF Types
<1>4. cpu.eflags = Flags(TRUE)
  BY DEF accept, InterruptsOn
<1>5. saved = <<>>
  <2>1. Flags(TRUE) # Flags(FALSE)
    BY DEF Flags, Word
  <2> QED
    BY <1>1, <1>4, <2>1 DEF Nesting
<1>6. /\ cpu.eip \in MainCode
      /\ p["master"].base = 32 /\ p["slave"].base = 40
  BY <1>1, <1>2, <1>4, <1>5 DEF Remapped, MainCpu
<1>7. p["master"].isr = {} /\ p["slave"].isr = {}
  <2>1. cpu.eip \notin StopCode
    <3>1. 0 \in Nat
      OBVIOUS
    <3> QED
      BY <1>6, <3>1, PlacesApart, Zenon
  <2> QED
    BY <1>1, <1>2, <1>5, <2>1 DEF Acknowledged, InService
<1>8. PICK l, chip, k, held :
        /\ l = First(Ready(c, "master"))
        /\ chip = IF l = 2 THEN "slave" ELSE "master"
        /\ k = First(Ready(c, chip))
        /\ held = IF l = 2 THEN [p EXCEPT !["master"].isr = @ \cup {2}] ELSE p
  BY Zenon
<1>9. PICK withdrawn \in BOOLEAN :
        /\ Ready(c, "master") # {}
        /\ pic' = [held EXCEPT
                     ![chip].irr = @ \ {k},
                     ![chip].isr = IF withdrawn THEN @ ELSE @ \cup {k}]
        /\ Enter(p[chip].base + IF withdrawn THEN 7 ELSE k, <<>>)
  BY <1>2, <1>8, ZenonT(60) DEF accept
<1>10. /\ Ready(c, "master") \in SUBSET (0 .. 7)
       /\ Ready(c, "slave") \in SUBSET (0 .. 7)
       /\ 2 \in Ready(c, "master") => Ready(c, "slave") # {}
  <2>1. c \in [{"master", "slave"} -> Chip]
    BY <1>2, <1>3, ReadyIs
  <2>2. 2 \in Ready(c, "master") => Ready(c, "slave") # {}
    BY <1>2, <1>3, ReadyIs
  <2> QED
    BY <2>1, <2>2, ReadyIs
<1>11. l \in Ready(c, "master")
  BY <1>8, <1>9, <1>10, FirstIs
<1>12. k \in 0 .. 7 /\ chip \in {"master", "slave"}
  <2>1. Ready(c, chip) # {} /\ Ready(c, chip) \in SUBSET (0 .. 7)
    BY <1>8, <1>10, <1>11
  <2> QED
    BY <1>8, <2>1, FirstIs
<1>13. /\ held \in [{"master", "slave"} -> Chip]
       /\ held["master"].base = 32 /\ held["slave"].base = 40
       /\ held["slave"].isr = {}
       /\ chip = "slave" => held["master"].isr = {2}
       /\ chip = "master" => held["master"].isr = {}
  <2>1. CASE l = 2
    <3>1. PICK S : S = p["master"].isr \cup {2}
      OBVIOUS
    <3>2. S \in SUBSET (0 .. 7) /\ S = {2}
      BY <1>7, <3>1
    <3>3. held = [p EXCEPT !["master"].isr = S] /\ chip = "slave"
      BY <1>8, <2>1, <3>1
    <3>4. PICK r : r = [p["master"] EXCEPT !.isr = S]
      OBVIOUS
    <3>5. r \in Chip /\ r.isr = {2} /\ r.base = 32
      BY <1>3, <1>6, <3>2, <3>4 DEF Chip
    <3>6. held = [p EXCEPT !["master"] = r]
      BY <3>3, <3>4
    <3>7. /\ held \in [{"master", "slave"} -> Chip]
          /\ held["master"] = r /\ held["slave"] = p["slave"]
      BY <1>3, <3>5, <3>6
    <3> QED
      BY <1>6, <1>7, <3>3, <3>5, <3>7
  <2>2. CASE l # 2
    <3>1. held = p /\ chip = "master"
      BY <1>8, <2>2
    <3> QED
      BY <1>3, <1>6, <1>7, <3>1
  <2> QED
    BY <2>1, <2>2
<1>14. /\ pic' \in [{"master", "slave"} -> Chip]
       /\ pic'["master"].base = 32 /\ pic'["slave"].base = 40
       /\ chip = "slave" => pic'["master"].isr = {2}
       /\ chip = "master" => pic'["slave"].isr = {}
       /\ pic'[chip].isr \subseteq {k}
  <2>1. /\ pic' \in [{"master", "slave"} -> Chip]
        /\ \A d \in {"master", "slave"} :
             pic'[d].base = held[d].base /\ (d # chip => pic'[d] = held[d])
        /\ pic'[chip].isr \subseteq held[chip].isr \cup {k}
    <3>1. held \in [{"master", "slave"} -> Chip]
      BY <1>13
    <3>2. PICK S, T :
            /\ S = held[chip].irr \ {k}
            /\ T = IF withdrawn THEN held[chip].isr ELSE held[chip].isr \cup {k}
      BY Zenon
    <3>3. /\ S \in SUBSET (0 .. 7) /\ T \in SUBSET (0 .. 7)
          /\ T \subseteq held[chip].isr \cup {k}
      <4>1. /\ held[chip].irr \in SUBSET (0 .. 7)
            /\ held[chip].isr \in SUBSET (0 .. 7)
        BY <1>12, <3>1 DEF Chip
      <4> QED
        BY <1>12, <3>2, <4>1
    <3>4. PICK r : r = [held[chip] EXCEPT !.irr = S]
      OBVIOUS
    <3>5. r \in Chip /\ r.base = held[chip].base
      BY <1>12, <3>1, <3>3, <3>4 DEF Chip
    <3>6. PICK t : t = [r EXCEPT !.isr = T]
      OBVIOUS
    <3>7. t \in Chip /\ t.isr = T /\ t.base = held[chip].base
      BY <3>3, <3>5, <3>6 DEF Chip
    <3>8. pic' = [held EXCEPT ![chip] = t]
      BY <1>9, <1>12, <3>1, <3>2, <3>4, <3>6
    <3> QED
      BY <1>12, <3>1, <3>3, <3>7, <3>8
  <2>2. held[chip].isr = {}
    BY <1>12, <1>13
  <2> QED
    BY <1>12, <1>13, <2>1, <2>2
<1>15. PICK v : v = p[chip].base + IF withdrawn THEN 7 ELSE k
  OBVIOUS
<1>16. /\ v \in Nat /\ v >= 32
       /\ chip = "master" => v < 40
       /\ chip = "slave" => v >= 40
       /\ v < 48
  BY <1>6, <1>12, <1>15
<1>17. Enter(v, <<>>) /\ PushesDummy(v)
  BY <1>9, <1>15, <1>16 DEF PushesDummy
<1>18. <<>> \in Seq(Words) /\ Len(<<>>) = IF PushesDummy(v) THEN 0 ELSE 1
  BY <1>17
<1>19. ~ InStub
  BY <1>6, MainHasNoFrames
<1>20. /\ cpu' \in CpuStates
       /\ stack' \in Seq(Words)
       /\ saved' \in Seq(Interrupted)
       /\ Frames'
       /\ HalfFrame'
  BY <1>16, <1>17, <1>18, <1>19, EnterFrames
<1>21. Nesting'
  BY <1>6, <1>16, <1>17, <1>18, EnterNesting
<1>22. Remapped'
  <2>1. \A d \in {"master", "slave"} : pic'[d].base = pic[d].base
    BY <1>2, <1>6, <1>14
  <2> QED
    BY <1>16, <1>17, <1>18, <2>1, EnterRemapped
<1>23. Acknowledged'
  <2>1. CASE Reset
    <3>1. cpu'.eip = Code("reset")
      BY <1>1, <1>16, <2>1, EnterCpu, Zenon
    <3> QED
      BY <3>1, Zenon DEF Acknowledged, StopCode
  <2>2. CASE Pushed(v, <<>>)
    <3>1. /\ saved'[1] = [cpu |-> cpu, vector |-> v, code |-> <<>>]
          /\ Len(saved') = Len(saved) + 1
          /\ saved' # <<>>
      BY <1>1, <1>16, <1>18, <2>2, PushedSaved
    <3>2. Len(saved') = 1 /\ saved'[1].vector = v
      BY <1>5, <3>1
    <3>3. cpu'.eip = Word("stub", v)
      BY <1>1, <1>16, <2>2, EnterCpu, Zenon
    <3>4. Outermost' = Word("stub", v) /\ saved'[Len(saved')].vector = v
      BY <3>2, <3>3 DEF Outermost
    <3>5. /\ Word("stub", v) # Code("irq_handler_master")
          /\ Word("stub", v) # Code("irq_callback") /\ Word("stub", v) # Code("return")
      BY DEF Word, Code
    <3>6. /\ v < 40 => AtMostOne(pic'["master"].isr) /\ pic'["slave"].isr = {}
          /\ ~ (v < 40) => pic'["master"].isr = {2} /\ AtMostOne(pic'["slave"].isr)
      <4>1. \A S : S \subseteq {k} => AtMostOne(S)
        BY Zenon DEF AtMostOne
      <4>2. v < 40 => chip = "master"
        BY <1>12, <1>16
      <4>3. ~ (v < 40) => chip = "slave"
        BY <1>12, <1>16
      <4> QED
        BY <1>14, <4>1, <4>2, <4>3, Zenon
    <3>7. ~ (v < 32)
      BY <1>16
    <3>8. InService'
      BY <3>1, <3>4, <3>5, <3>6, <3>7, Zenon DEF InService
    <3> QED
      BY <3>8 DEF Acknowledged
  <2> QED
    BY <1>17, <2>1, <2>2, EnterIs
<1> QED
  BY <1>14, <1>20, <1>21, <1>22, <1>23 DEF Inv, Types

\* A step within the handler of the topmost interrupt.
LEMMA HandlerMoves ==
  ASSUME Inv, saved' = saved, saved # <<>>,
         cpu'.eflags = cpu.eflags,
         cpu'.eip \in HandlerPlaces(saved[1].vector),
         \A chip \in {"master", "slave"} : pic'[chip].base = pic[chip].base
  PROVE  Nesting' /\ Remapped'
<1>1. Nesting /\ Remapped
  BY DEF Inv
<1>2. Nesting'
  BY <1>1 DEF Nesting
<1>3. MainCpu' = MainCpu
  BY DEF MainCpu
<1> QED
  BY <1>1, <1>2, <1>3 DEF Remapped

\* At its end a stub has completed the frame.
LEMMA StubInv ==
  ASSUME Inv, stub
  PROVE  Inv'
<1>1. InStub
  BY DEF stub, InStub
<1>2. Types /\ HalfFrame /\ Nesting /\ Acknowledged
  BY DEF Inv
<1>3. PICK s, n, k : s = saved[1] /\ n = Len(saved) /\ k = Len(s.code)
  BY Zenon
<1>4. /\ n \in Nat /\ n > 0 /\ saved # <<>>
      /\ s \in Interrupted /\ s.vector \in Nat /\ s.cpu \in CpuStates
      /\ s.code \in Seq(Words)
  <2>1. n > 0 /\ saved \in Seq(Interrupted)
    BY <1>1, <1>2, <1>3 DEF HalfFrame, Types
  <2>2. n \in Nat /\ saved # <<>>
    BY <1>3, <2>1, NonEmpty
  <2>3. s \in Interrupted
    BY <1>3, <2>1, <2>2
  <2> QED
    BY <2>1, <2>2, <2>3 DEF Interrupted
<1>5. /\ cpu.eip = Word("stub", s.vector)
      /\ cpu.ds = s.cpu.ds /\ cpu.regs = s.cpu.regs
      /\ k = IF PushesDummy(s.vector) THEN 0 ELSE 1
      /\ Len(stack) = k + 3 + 7 * (n - 1)
      /\ k = 1 => stack[1] = s.code[1]
      /\ stack[k + 1] = s.cpu.eip
      /\ stack[k + 2] = s.cpu.cs
      /\ stack[k + 3] = s.cpu.eflags
      /\ \A d \in 2 .. n : FrameAt(stack, k + 3 + 7 * (d - 2), saved[d])
  BY <1>1, <1>2, <1>3 DEF HalfFrame
<1>6. PICK v : v = s.vector
  OBVIOUS
<1>7. v \in Nat /\ cpu.eip = Word("stub", v) /\ cpu.eip[2] = v
  BY <1>4, <1>5, <1>6 DEF Word
<1>8. PICK dummy, e :
        /\ dummy = IF PushesDummy(v) THEN <<Word("error_code", 0)>> ELSE <<>>
        /\ e = Code(IF v < 32 THEN "interrupt_handler" ELSE "irq_handler")
  BY Zenon
<1>9. /\ stack' = <<cpu.ds, cpu.regs, Word("interrupt_number", v)>>
                    \o dummy \o stack
      /\ cpu' = [cpu EXCEPT !.eip = e, !.ds = Word("ds", "0x10"),
                            !.regs = Word("regs", "handler")]
      /\ pic' = pic /\ saved' = saved
  BY <1>7, <1>8, Zenon DEF stub
<1>10. e \in Words /\ e \in HandlerPlaces(v) /\ e[1] = "eip"
         /\ (e = Code("interrupt_handler") \/ e = Code("irq_handler"))
  <2>1. CASE v < 32
    <3>1. e = Code("interrupt_handler")
      BY <1>8, <2>1, Zenon
    <3> QED
      BY <2>1, <3>1, PlaceWords DEF HandlerPlaces, Labels, Code, Word
  <2>2. CASE ~ (v < 32)
    <3>1. e = Code("irq_handler")
      BY <1>8, <2>2, Zenon
    <3> QED
      BY <2>2, <3>1, PlaceWords DEF HandlerPlaces, Labels, Code, Word
  <2> QED
    BY <2>1, <2>2
<1>11. /\ cpu' \in CpuStates /\ cpu'.eip = e /\ cpu'.eflags = cpu.eflags
  <2>1. PICK c, f, g : c = cpu /\ f = Word("ds", "0x10") /\ g = Word("regs", "handler")
    BY Zenon
  <2>2. c \in CpuStates /\ f \in Words /\ g \in Words
    BY <1>2, <2>1, PlaceWords DEF Types
  <2>3. PICK c1 : c1 = [c EXCEPT !.eip = e]
    OBVIOUS
  <2>4. c1 \in CpuStates /\ c1.eip = e /\ c1.eflags = c.eflags
    BY <1>10, <2>2, <2>3, SetEip
  <2>5. PICK c2 : c2 = [c1 EXCEPT !.ds = f]
    OBVIOUS
  <2>6. c2 \in CpuStates /\ c2.eip = e /\ c2.eflags = c.eflags
    BY <2>2, <2>4, <2>5 DEF CpuStates
  <2>7. PICK c3 : c3 = [c2 EXCEPT !.regs = g]
    OBVIOUS
  <2>8. c3 \in CpuStates /\ c3.eip = e /\ c3.eflags = c.eflags
    BY <2>2, <2>6, <2>7 DEF CpuStates
  <2>9. cpu' = [c EXCEPT !.eip = e, !.ds = f, !.regs = g]
    BY <1>9, <2>1, Zenon
  <2>10. cpu' = c3
    BY <2>3, <2>5, <2>7, <2>9
  <2> QED
    BY <2>1, <2>8, <2>10, Zenon
<1>12. /\ k \in Nat
       /\ dummy \in Seq(Words) /\ Len(dummy) = 1 - k
       /\ k = 0 => dummy[1] = Word("error_code", 0)
       /\ k = 0 \/ k = 1
  <2>1. Word("error_code", 0) \in Words
    BY PlaceWords
  <2>2. CASE PushesDummy(v)
    <3>1. dummy = <<Word("error_code", 0)>> /\ k = 0
      BY <1>5, <1>6, <1>8, <2>2, Zenon
    <3> QED
      BY <2>1, <3>1
  <2>3. CASE ~ PushesDummy(v)
    <3>1. dummy = <<>> /\ k = 1
      BY <1>5, <1>6, <1>8, <2>3, Zenon
    <3> QED
      BY <3>1
  <2> QED
    BY <2>2, <2>3
<1>13. /\ stack' \in Seq(Words)
       /\ Len(stack') = 3 + Len(dummy) + Len(stack)
       /\ stack'[1] = cpu.ds /\ stack'[2] = cpu.regs
       /\ stack'[3] = Word("interrupt_number", v)
       /\ \A i \in 1 .. Len(dummy) : stack'[3 + i] = dummy[i]
       /\ \A i \in 1 .. Len(stack) : stack'[3 + Len(dummy) + i] = stack[i]
  <2>1. /\ cpu.ds \in Words /\ cpu.regs \in Words /\ stack \in Seq(Words)
        /\ Word("interrupt_number", v) \in Words
    BY <1>2, <1>7, PlaceWords DEF Types, CpuStates
  <2>2. dummy \in Seq(Words)
    BY <1>12
  <2>3. stack' = <<cpu.ds, cpu.regs, Word("interrupt_number", v)>> \o dummy \o stack
    BY <1>9
  <2> QED
    BY <2>1, <2>2, <2>3, ThreeBefore
<1>14. PICK m : m = Len(stack)
  OBVIOUS
<1>15. /\ m \in Nat /\ m = k + 3 + 7 * (n - 1)
       /\ Len(stack') = 7 * n
       /\ \A i \in 1 .. m : stack'[(4 - k) + i] = stack[i]
  <2>1. m \in Nat
    BY <1>2, <1>14 DEF Types
  <2>2. 3 + Len(dummy) = 4 - k
    BY <1>12
  <2>3. \A i \in 1 .. m : stack'[(4 - k) + i] = stack[i]
    BY <1>13, <1>14, <2>2
  <2>4. Len(stack') = (4 - k) + m
    BY <1>13, <1>14, <2>2
  <2>5. m = k + 3 + 7 * (n - 1)
    BY <1>5, <1>14
  <2> QED
    BY <1>4, <1>12, <2>1, <2>3, <2>4, <2>5, SMTT(30)
<1>16. FrameAt(stack', 0, saved[1])
  <2>1. stack'[1] = s.cpu.ds /\ stack'[2] = s.cpu.regs
          /\ stack'[3] = Word("interrupt_number", s.vector)
    BY <1>5, <1>6, <1>13
  <2>2. stack'[4] = CodeOf(s)
    <3>1. CASE k = 0
      <4>1. s.code = <<>>
        <5>1. s.code \in Seq(Words) /\ ~ (Len(s.code) > 0)
          BY <1>3, <1>4, <3>1
        <5> QED
          BY <5>1, NonEmpty, Zenon
      <4>2. stack'[4] = dummy[1]
        <5>1. 1 \in 1 .. Len(dummy) /\ 3 + 1 = 4
          BY <1>12, <3>1
        <5> QED
          BY <1>13, <5>1
      <4> QED
        BY <1>12, <3>1, <4>1, <4>2 DEF CodeOf
    <3>2. CASE k = 1
      <4>1. s.code # <<>>
        <5>1. s.code \in Seq(Words) /\ Len(s.code) > 0
          BY <1>3, <1>4, <3>2
        <5> QED
          BY <5>1, NonEmpty, Zenon
      <4>2. stack'[4] = stack[1]
        <5>1. 1 \in 1 .. m /\ (4 - k) + 1 = 4
          BY <1>4, <1>15, <3>2
        <5> QED
          BY <1>15, <5>1
      <4> QED
        BY <1>5, <3>2, <4>1, <4>2 DEF CodeOf
    <3> QED
      BY <1>12, <3>1, <3>2
  <2>3. stack'[5] = s.cpu.eip /\ stack'[6] = s.cpu.cs /\ stack'[7] = s.cpu.eflags
    <3>1. /\ k + 1 \in 1 .. m /\ (4 - k) + (k + 1) = 5
          /\ k + 2 \in 1 .. m /\ (4 - k) + (k + 2) = 6
          /\ k + 3 \in 1 .. m /\ (4 - k) + (k + 3) = 7
      BY <1>4, <1>12, <1>15
    <3>2. stack'[5] = stack[k + 1] /\ stack'[6] = stack[k + 2]
            /\ stack'[7] = stack[k + 3]
      BY <1>15, <3>1
    <3> QED
      BY <1>5, <3>2
  <2>4. /\ stack'[0 + 1] = s.cpu.ds /\ stack'[0 + 2] = s.cpu.regs
        /\ stack'[0 + 3] = Word("interrupt_number", s.vector)
        /\ stack'[0 + 4] = CodeOf(s)
        /\ stack'[0 + 5] = s.cpu.eip /\ stack'[0 + 6] = s.cpu.cs
        /\ stack'[0 + 7] = s.cpu.eflags
    BY <2>1, <2>2, <2>3
  <2> QED
    BY <1>3, <2>4, Zenon DEF FrameAt
<1>17. ASSUME NEW d \in 2 .. n
       PROVE  FrameAt(stack', 7 * (d - 1), saved[d])
  <2>1. PICK i : i = k + 3 + 7 * (d - 2)
    OBVIOUS
  <2>2. PICK h : h = 7 * (d - 1)
    OBVIOUS
  <2>3. FrameAt(stack, i, saved[d])
    BY <1>5, <2>1
  <2>4. \A j \in 1 .. 7 : i + j \in 1 .. m /\ (4 - k) + (i + j) = h + j
    BY <1>4, <1>12, <1>15, <2>1, <2>2
  <2>5. \A j \in 1 .. 7 : stack'[h + j] = stack[i + j]
    BY <1>15, <2>4
  <2>6. FrameAt(stack', h, saved[d])
    BY <2>3, <2>5 DEF FrameAt
  <2> QED
    BY <2>2, <2>6
<1>18. ~ InStub'
  BY <1>10, <1>11 DEF InStub
<1>19. Frames' /\ HalfFrame'
  <2>1. ASSUME NEW d \in 1 .. n
        PROVE  FrameAt(stack', 7 * (d - 1), saved[d])
    <3>1. CASE d = 1
      <4>1. 7 * (d - 1) = 0
        BY <3>1
      <4> QED
        BY <1>16, <3>1, <4>1
    <3>2. CASE d # 1
      BY <1>4, <1>17, <3>2
    <3> QED
      BY <3>1, <3>2
  <2> QED
    BY <1>3, <1>9, <1>15, <1>18, <2>1 DEF Frames, HalfFrame
<1>20. Types'
  BY <1>2, <1>9, <1>11, <1>13 DEF Types
<1>21. Nesting' /\ Remapped'
  BY <1>3, <1>4, <1>6, <1>9, <1>10, <1>11, HandlerMoves
<1>22. Acknowledged'
  <2>1. InService
    <3>1. cpu.eip \notin StopCode
      BY <1>7 DEF StopCode, Code, Word
    <3> QED
      BY <1>2, <3>1 DEF Acknowledged
  <2>2. CASE saved[n].vector < 32
    BY <1>3, <1>4, <1>9, <2>1, <2>2 DEF Acknowledged, InService
  <2>3. CASE ~ (saved[n].vector < 32) /\ n = 1
    <3>1. Outermost = Word("stub", v) /\ Outermost' = e /\ e = Code("irq_handler")
      BY <1>3, <1>6, <1>7, <1>8, <1>9, <1>11, <2>3 DEF Outermost
    <3>2. /\ Code("irq_handler") # Code("irq_handler_master")
          /\ Code("irq_handler") # Code("irq_callback")
          /\ Code("irq_handler") # Code("return")
      BY DEF Code, Word
    <3>3. InService'
      BY <1>3, <1>6, <1>9, <2>1, <2>3, <3>1, <3>2 DEF InService
    <3> QED
      BY <3>3 DEF Acknowledged
  <2>4. CASE n # 1
    <3>1. Outermost' = Outermost
      BY <1>3, <1>9, <2>4 DEF Outermost
    <3>2. InService'
      BY <1>9, <2>1, <3>1 DEF InService
    <3> QED
      BY <3>2 DEF Acknowledged
  <2> QED
    BY <2>2, <2>3, <2>4
<1> QED
  BY <1>19, <1>20, <1>21, <1>22 DEF Inv

\* The rest of a stack behind its topmost frame, and of the history.
LEMMA Rest ==
  ASSUME NEW S, NEW s \in Seq(S), Len(s) >= 7, NEW t, t = SubSeq(s, 8, Len(s))
  PROVE  /\ t \in Seq(S) /\ Len(t) = Len(s) - 7
         /\ \A i \in 1 .. Len(s) - 7 : t[i] = s[i + 7]
<1>1. t \in Seq(S)
  OBVIOUS
<1>2. Len(t) = Len(s) - 7
  <2>1. PICK n : n = Len(s)
    OBVIOUS
  <2>2. n \in Nat /\ n >= 7 /\ t = SubSeq(s, 8, n)
    BY <2>1
  <2>3. CASE n = 7
    BY <2>1, <2>2, <2>3
  <2>4. CASE n > 7
    BY <2>1, <2>2, <2>4
  <2> QED
    BY <2>2, <2>3, <2>4
<1>3. \A i \in 1 .. Len(s) - 7 : t[i] = s[i + 7]
  OBVIOUS
<1> QED
  BY <1>1, <1>2, <1>3

\* The rest of a sequence, by index.
LEMMA TailIs ==
  ASSUME NEW S, NEW s \in Seq(S), s # <<>>
  PROVE  /\ Tail(s) \in Seq(S) /\ Len(Tail(s)) = Len(s) - 1
         /\ \A i \in 1 .. Len(s) - 1 : Tail(s)[i] = s[i + 1]
OBVIOUS

\* The CPU returns to what the topmost interrupt interrupted.
LEMMA ReturnEffect ==
  ASSUME Inv, stub_return
  PROVE  /\ saved # <<>>
         /\ cpu' = saved[1].cpu /\ cpu' \in CpuStates
         /\ stack' \in Seq(Words) /\ saved' \in Seq(Interrupted)
         /\ Len(saved') = Len(saved) - 1
         /\ \A d \in 1 .. Len(saved) - 1 : saved'[d] = saved[d + 1]
         /\ Len(stack') = 7 * Len(saved')
         /\ \A d \in 1 .. Len(saved') : FrameAt(stack', 7 * (d - 1), saved'[d])
<1>1. cpu.eip = Code("return")
  BY DEF stub_return, At
<1>2. Types /\ Frames /\ Nesting
  BY DEF Inv
<1>3. saved \in Seq(Interrupted) /\ stack \in Seq(Words)
  BY <1>2 DEF Types
<1>4. saved # <<>>
  <2>1. Code("return") \notin MainCode \cup {Code("hang"), Code("reset")}
    BY MainCodeIs DEF Code, Word
  <2> QED
    BY <1>1, <1>2, <2>1 DEF Nesting
<1>5. PICK n : n = Len(saved)
  OBVIOUS
<1>6. n \in Nat /\ n > 0
  BY <1>3, <1>4, <1>5, NonEmpty
<1>7. ~ InStub
  BY <1>1 DEF InStub, Code, Word
<1>8. Len(stack) = 7 * n /\ \A d \in 1 .. n : FrameAt(stack, 7 * (d - 1), saved[d])
  BY <1>2, <1>5, <1>7 DEF Frames
<1>9. PICK s : s = saved[1]
  OBVIOUS
<1>10. s \in Interrupted /\ s.cpu \in CpuStates
  <2>1. s \in Interrupted
    BY <1>3, <1>5, <1>6, <1>9
  <2> QED
    BY <2>1 DEF Interrupted
<1>11. FrameAt(stack, 0, s)
  <2>1. 1 \in 1 .. n /\ 7 * (1 - 1) = 0
    BY <1>6
  <2> QED
    BY <1>8, <1>9, <2>1
<1>12. /\ stack[1] = s.cpu.ds /\ stack[2] = s.cpu.regs /\ stack[5] = s.cpu.eip
       /\ stack[6] = s.cpu.cs /\ stack[7] = s.cpu.eflags
  BY <1>11 DEF FrameAt
<1>13. cpu' = s.cpu
  <2>1. cpu' = [ds |-> s.cpu.ds, regs |-> s.cpu.regs, eip |-> s.cpu.eip,
                cs |-> s.cpu.cs, eflags |-> s.cpu.eflags]
    BY <1>12 DEF stub_return
  <2> QED
    BY <1>10, <2>1 DEF CpuStates
<1>14. /\ saved' \in Seq(Interrupted) /\ Len(saved') = n - 1
       /\ \A d \in 1 .. n - 1 : saved'[d] = saved[d + 1]
  <2>1. saved' = Tail(saved)
    BY DEF stub_return
  <2> QED
    BY <1>3, <1>4, <1>5, <2>1, TailIs
<1>15. /\ stack' \in Seq(Words) /\ Len(stack') = Len(stack) - 7
       /\ \A i \in 1 .. Len(stack) - 7 : stack'[i] = stack[i + 7]
  <2>1. stack' = SubSeq(stack, 8, Len(stack))
    BY DEF stub_return
  <2>2. Len(stack) >= 7
    BY <1>6, <1>8
  <2> QED
    BY <1>3, <2>1, <2>2, Rest
<1>16. Len(stack') = 7 * Len(saved')
  BY <1>6, <1>8, <1>14, <1>15
<1>17. ASSUME NEW d \in 1 .. Len(saved')
       PROVE  FrameAt(stack', 7 * (d - 1), saved'[d])
  <2>1. d \in 1 .. n - 1 /\ d + 1 \in 1 .. n
    BY <1>6, <1>14
  <2>2. PICK i, h : i = 7 * ((d + 1) - 1) /\ h = 7 * (d - 1)
    BY Zenon
  <2>3. FrameAt(stack, i, saved[d + 1]) /\ saved'[d] = saved[d + 1]
    BY <1>8, <1>14, <2>1, <2>2
  <2>4. \A j \in 1 .. 7 : h + j \in 1 .. Len(stack) - 7 /\ (h + j) + 7 = i + j
    BY <1>6, <1>8, <2>1, <2>2
  <2>5. \A j \in 1 .. 7 : stack'[h + j] = stack[i + j]
    BY <1>15, <2>4
  <2>6. FrameAt(stack', h, saved[d + 1])
    BY <2>3, <2>5 DEF FrameAt
  <2> QED
    BY <2>2, <2>3, <2>6
<1> QED
  BY <1>4, <1>5, <1>9, <1>10, <1>13, <1>14, <1>15, <1>16, <1>17

\* The return preserves the invariant.
LEMMA ReturnInv ==
  ASSUME Inv, stub_return
  PROVE  Inv'
<1>1. Types /\ Nesting /\ Remapped /\ Acknowledged
  BY DEF Inv
<1>2. /\ saved # <<>>
      /\ cpu' = saved[1].cpu /\ cpu' \in CpuStates
      /\ stack' \in Seq(Words) /\ saved' \in Seq(Interrupted)
      /\ Len(saved') = Len(saved) - 1
      /\ \A d \in 1 .. Len(saved) - 1 : saved'[d] = saved[d + 1]
      /\ Len(stack') = 7 * Len(saved')
      /\ \A d \in 1 .. Len(saved') : FrameAt(stack', 7 * (d - 1), saved'[d])
  BY ReturnEffect
<1>3. cpu.eip = Code("return") /\ pic' = pic
  BY DEF stub_return, At
<1>4. PICK n : n = Len(saved)
  OBVIOUS
<1>5. n \in Nat /\ n > 0
  BY <1>1, <1>2, <1>4, NonEmpty DEF Types
<1>6. /\ saved' \in Seq(Interrupted) /\ Len(saved') = n - 1
      /\ \A d \in 1 .. n - 1 : saved'[d] = saved[d + 1]
  BY <1>2, <1>4
<1>7. ~ InStub'
  <2>1. saved[1].cpu.eip \in MainCode \cup HandlerCode
    <3>1. 1 \in 1 .. Len(saved)
      BY <1>4, <1>5
    <3> QED
      BY <1>1, <3>1, Zenon DEF Nesting
  <2>2. \A w \in MainCode \cup HandlerCode : w[1] # "stub"
    BY MainCodeIs DEF HandlerCode, Code, Word
  <2> QED
    BY <1>2, <2>1, <2>2 DEF InStub
<1>8. Types' /\ Frames' /\ HalfFrame'
  BY <1>1, <1>2, <1>3, <1>7 DEF Types, Frames, HalfFrame
<1>9. InService
  <2>1. Code("return") \notin StopCode
    BY DEF StopCode, Code, Word
  <2> QED
    BY <1>1, <1>3, <2>1 DEF Acknowledged
<1>10. CASE n = 1
  <2>1. saved' = <<>>
    BY <1>6, <1>10
  <2>2. saved[1].cpu.eip \in MainCode
    <3>1. 1 \in 1 .. Len(saved) /\ 1 = Len(saved)
      BY <1>4, <1>10
    <3> QED
      BY <1>1, <3>1 DEF Nesting
  <2>3. Nesting'
    <3>1. Len(saved') = 0
      BY <1>6, <1>10
    <3>2. cpu'.eip \in MainCode
      BY <1>2, <2>2
    <3>3. \A d \in 1 .. Len(saved') : FALSE
      BY <3>1
    <3> QED
      BY <2>1, <3>2, <3>3, Zenon DEF Nesting
  <2>4. MainCpu' = MainCpu
    BY <1>2, <1>4, <1>10, <2>1 DEF MainCpu
  <2>5. Remapped'
    BY <1>1, <1>3, <2>4 DEF Remapped
  <2>6. pic["master"].isr = {} /\ pic["slave"].isr = {}
    <3>1. Outermost = Code("return")
      BY <1>3, <1>4, <1>10 DEF Outermost
    <3> QED
      BY <1>2, <1>9, <3>1 DEF InService
  <2>7. Acknowledged'
    BY <1>3, <2>1, <2>6 DEF Acknowledged, InService
  <2> QED
    BY <1>8, <2>3, <2>5, <2>7 DEF Inv
<1>11. CASE n > 1
  <2>1. saved' # <<>> /\ n - 1 \in 1 .. n - 1 /\ n - 1 >= 1
    BY <1>5, <1>6, <1>11
  <2>2. saved'[n - 1] = saved[n]
    <3>1. (n - 1) + 1 = n
      BY <1>5
    <3> QED
      BY <1>6, <2>1, <3>1
  <2>3. Nesting'
    <3>1. /\ saved[1].cpu.eip \in HandlerPlaces(saved[2].vector)
          /\ saved[1].cpu.eflags = Flags(FALSE)
      <4>1. 1 \in 1 .. Len(saved) /\ 1 # Len(saved) /\ 1 + 1 = 2
        BY <1>4, <1>5, <1>11
      <4>2. saved[1].cpu.eip \in HandlerPlaces(saved[1 + 1].vector)
              /\ saved[1].cpu.eflags = Flags(FALSE)
        BY <1>1, <4>1, Zenon DEF Nesting
      <4> QED
        BY <4>1, <4>2
    <3>2. saved'[1] = saved[2]
      <4>1. 1 \in 1 .. n - 1 /\ 1 + 1 = 2
        BY <1>5, <1>11
      <4> QED
        BY <1>6, <4>1
    <3>3. ASSUME NEW d \in 1 .. Len(saved')
          PROVE  IF d = Len(saved') THEN saved'[d].cpu.eip \in MainCode
                 ELSE /\ saved'[d].vector < 32
                      /\ saved'[d].cpu.eip \in
                           HandlerCode \cap HandlerPlaces(saved'[d + 1].vector)
                      /\ saved'[d].cpu.eflags = Flags(FALSE)
      <4>1. PICK e : e = d + 1
        OBVIOUS
      <4>2. /\ d \in 1 .. n - 1 /\ e \in 1 .. n
            /\ d = Len(saved') <=> e = n
            /\ d # Len(saved') => d + 1 \in 1 .. n - 1 /\ (d + 1) + 1 = e + 1
        BY <1>5, <1>6, <4>1
      <4>3. saved'[d] = saved[e]
        BY <1>6, <4>1, <4>2
      <4>4. d # Len(saved') => saved'[d + 1] = saved[e + 1]
        BY <1>6, <4>1, <4>2
      <4>5. IF e = n THEN saved[e].cpu.eip \in MainCode
            ELSE /\ saved[e].vector < 32
                 /\ saved[e].cpu.eip \in
                      HandlerCode \cap HandlerPlaces(saved[e + 1].vector)
                 /\ saved[e].cpu.eflags = Flags(FALSE)
        BY <1>1, <1>4, <4>2, Zenon DEF Nesting
      <4> QED
        BY <4>2, <4>3, <4>4, <4>5
    <3> QED
      BY <1>2, <2>1, <3>1, <3>2, <3>3 DEF Nesting
  <2>4. MainCpu' = MainCpu
    BY <1>2, <1>4, <1>6, <2>1, <2>2 DEF MainCpu
  <2>5. Remapped'
    BY <1>1, <1>3, <2>4 DEF Remapped
  <2>6. Outermost' = Outermost
    <3>1. Outermost = saved[n - 1].cpu.eip
      BY <1>4, <1>11 DEF Outermost
    <3>2. CASE n = 2
      <4>1. Len(saved') = 1 /\ n - 1 = 1
        BY <1>6, <3>2
      <4> QED
        BY <1>2, <3>1, <4>1 DEF Outermost
    <3>3. CASE n > 2
      <4>1. PICK e : e = n - 2
        OBVIOUS
      <4>2. e \in 1 .. n - 1 /\ Len(saved') # 1 /\ Len(saved') - 1 = e
              /\ e + 1 = n - 1
        BY <1>5, <1>6, <3>3, <4>1
      <4>3. saved'[e] = saved[n - 1]
        BY <1>6, <4>2
      <4> QED
        BY <3>1, <4>2, <4>3 DEF Outermost
    <3>4. n = 2 \/ n > 2
      BY <1>5, <1>11
    <3> QED
      BY <3>2, <3>3, <3>4
  <2>7. saved'[Len(saved')].vector = saved[Len(saved)].vector
    BY <1>4, <1>6, <2>2
  <2>8. InService'
    BY <1>2, <1>3, <1>9, <2>1, <2>6, <2>7 DEF InService
  <2> QED
    BY <1>8, <2>3, <2>5, <2>8 DEF Inv, Acknowledged
<1>12. n = 1 \/ n > 1
  BY <1>5
<1> QED
  BY <1>10, <1>11, <1>12

\* A handler in C jumps: the frames stay.
LEMMA JumpFrames ==
  ASSUME Inv, NEW label \in Labels, cpu' = [cpu EXCEPT !.eip = Code(label)],
         UNCHANGED <<stack, saved>>, ~ InStub
  PROVE  /\ cpu' \in CpuStates
         /\ cpu'.eip = Code(label) /\ cpu'.eflags = cpu.eflags
         /\ Frames' /\ HalfFrame'
<1>1. PICK c, e : c = cpu /\ e = Code(label)
  BY Zenon
<1>2. c \in CpuStates /\ e \in Words
  BY <1>1, PlaceWords DEF Inv, Types
<1>3. PICK d : d = [c EXCEPT !.eip = e]
  OBVIOUS
<1>4. cpu' \in CpuStates /\ cpu'.eip = e /\ cpu'.eflags = c.eflags
  <2>1. d \in CpuStates /\ d.eip = e /\ d.eflags = c.eflags
    BY <1>2, <1>3, SetEip
  <2>2. cpu' = d
    BY <1>1, <1>3
  <2> QED
    BY <2>1, <2>2
<1>5. ~ InStub'
  BY <1>1, <1>4 DEF InStub, Code, Word
<1> QED
  BY <1>1, <1>4, <1>5 DEF Inv, Frames, HalfFrame

\* Who is at a place of a handler handles the topmost interrupt.
LEMMA InHandler ==
  ASSUME Inv, cpu.eip \in HandlerCode
  PROVE  /\ saved # <<>> /\ ~ InStub
         /\ saved[1].vector \in Nat
         /\ cpu.eip \in HandlerPlaces(saved[1].vector)
         /\ InService
<1>1. Nesting /\ Acknowledged /\ saved \in Seq(Interrupted)
  BY DEF Inv, Types
<1>2. saved # <<>>
  <2>1. HandlerCode \cap (MainCode \cup {Code("hang"), Code("reset")}) = {}
    BY MainCodeIs DEF HandlerCode, Code, Word
  <2> QED
    BY <1>1, <2>1 DEF Nesting
<1>3. saved[1] \in Interrupted
  BY <1>1, <1>2, NonEmpty
<1>4. cpu.eip \notin StopCode /\ ~ InStub
  BY DEF HandlerCode, StopCode, InStub, Code, Word
<1> QED
  BY <1>1, <1>2, <1>3, <1>4 DEF Nesting, Acknowledged, Interrupted

\* interrupt_handler returns or aborts.
LEMMA InterruptHandlerInv ==
  ASSUME Inv, interrupt_handler
  PROVE  Inv'
<1>1. cpu.eip = Code("interrupt_handler") /\ UNCHANGED <<stack, pic, saved>>
  BY DEF interrupt_handler, At
<1>2. cpu.eip \in HandlerCode
  BY <1>1, Zenon DEF HandlerCode
<1>3. /\ saved # <<>> /\ ~ InStub
      /\ saved[1].vector \in Nat
      /\ cpu.eip \in HandlerPlaces(saved[1].vector)
      /\ InService
  BY <1>2, InHandler
<1>4. saved[1].vector < 32
  <2>1. \A v : Code("interrupt_handler") \in HandlerPlaces(v) => v < 32
    BY DEF HandlerPlaces, Code, Word
  <2> QED
    BY <1>1, <1>3, <2>1
<1>5. PICK label \in {"return", "abort"} : cpu' = [cpu EXCEPT !.eip = Code(label)]
  BY DEF interrupt_handler, Goto
<1>6. /\ cpu' \in CpuStates
      /\ cpu'.eip = Code(label) /\ cpu'.eflags = cpu.eflags
      /\ Frames' /\ HalfFrame'
  BY <1>1, <1>3, <1>5, JumpFrames DEF Labels
<1>7. Code(label) \in HandlerPlaces(saved[1].vector)
  BY <1>4 DEF HandlerPlaces
<1>8. Nesting' /\ Remapped'
  BY <1>1, <1>3, <1>6, <1>7, HandlerMoves
<1>9. Acknowledged'
  <2>1. CASE saved[Len(saved)].vector < 32
    BY <1>1, <1>3, <2>1 DEF Acknowledged, InService
  <2>2. CASE Len(saved) # 1
    <3>1. Outermost' = Outermost
      BY <1>1, <2>2 DEF Outermost
    <3> QED
      BY <1>1, <1>3, <3>1 DEF Acknowledged, InService
  <2> QED
    BY <1>4, <2>1, <2>2
<1> QED
  BY <1>1, <1>6, <1>8, <1>9 DEF Inv, Types

\* An interrupt of a line is the outermost one.
LEMMA IrqIsOutermost ==
  ASSUME Inv, cpu.eip \in {Code("irq_handler"), Code("irq_handler_master"),
                           Code("irq_callback")}
  PROVE  /\ Len(saved) = 1 /\ saved # <<>> /\ ~ InStub
         /\ saved[1].vector \in Nat /\ ~ (saved[1].vector < 32)
         /\ interrupt_number = saved[1].vector
         /\ Outermost = cpu.eip
         /\ InService
<1>1. cpu.eip \in HandlerCode
  BY Zenon DEF HandlerCode
<1>2. /\ saved # <<>> /\ ~ InStub
      /\ saved[1].vector \in Nat
      /\ cpu.eip \in HandlerPlaces(saved[1].vector)
      /\ InService
  BY <1>1, InHandler
<1>3. ~ (saved[1].vector < 32)
  <2>1. \A v : v < 32 =>
          /\ Code("irq_handler") \notin HandlerPlaces(v)
          /\ Code("irq_handler_master") \notin HandlerPlaces(v)
          /\ Code("irq_callback") \notin HandlerPlaces(v)
    BY DEF HandlerPlaces, Code, Word
  <2> QED
    BY <1>2, <2>1
<1>4. saved \in Seq(Interrupted) /\ Nesting /\ Frames
  BY DEF Inv, Types
<1>5. Len(saved) \in Nat /\ Len(saved) > 0
  BY <1>2, <1>4, NonEmpty
<1>6. 1 \in 1 .. Len(saved)
  BY <1>5
<1>7. Len(saved) = 1
  BY <1>3, <1>4, <1>6, Zenon DEF Nesting
<1>8. interrupt_number = saved[1].vector
  <2>1. FrameAt(stack, 7 * (1 - 1), saved[1])
    BY <1>2, <1>4, <1>6 DEF Frames
  <2>2. 7 * (1 - 1) + 3 = 3
    OBVIOUS
  <2>3. stack[3] = Word("interrupt_number", saved[1].vector)
    BY <2>1, <2>2 DEF FrameAt
  <2> QED
    BY <2>3 DEF interrupt_number, Word
<1> QED
  BY <1>2, <1>3, <1>7, <1>8 DEF Outermost

\* irq_handler acknowledges an interrupt of the slave there first.
LEMMA IrqHandlerInv ==
  ASSUME Inv, irq_handler
  PROVE  Inv'
<1>1. /\ cpu.eip = Code("irq_handler") /\ UNCHANGED <<stack, saved>>
      /\ cpu' = [cpu EXCEPT !.eip = Code("irq_handler_master")]
  BY DEF irq_handler, At, Goto
<1>2. /\ Len(saved) = 1 /\ saved # <<>> /\ ~ InStub
      /\ saved[1].vector \in Nat /\ ~ (saved[1].vector < 32)
      /\ interrupt_number = saved[1].vector
      /\ Outermost = cpu.eip
      /\ InService
  BY <1>1, IrqIsOutermost
<1>3. PICK p, v : p = pic /\ v = saved[1].vector
  BY Zenon
<1>4. p \in [{"master", "slave"} -> Chip]
  BY <1>3 DEF Inv, Types
<1>5. IF v < 40 THEN AtMostOne(p["master"].isr) /\ p["slave"].isr = {}
      ELSE p["master"].isr = {2} /\ AtMostOne(p["slave"].isr)
  BY <1>1, <1>2, <1>3 DEF InService
<1>6. /\ pic' \in [{"master", "slave"} -> Chip]
      /\ \A chip \in {"master", "slave"} : pic'[chip].base = p[chip].base
      /\ AtMostOne(pic'["master"].isr) /\ pic'["slave"].isr = {}
  <2>1. CASE v < 40
    <3>1. pic' = p
      <4>1. ~ (interrupt_number >= 40)
        BY <1>2, <1>3, <2>1
      <4> QED
        BY <1>3, <4>1, Zenon DEF irq_handler
    <3> QED
      BY <1>4, <1>5, <2>1, <3>1
  <2>2. CASE ~ (v < 40)
    <3>1. pic' = EOI(p, "slave")
      <4>1. interrupt_number >= 40
        BY <1>2, <1>3, <2>2
      <4> QED
        BY <1>3, <4>1, Zenon DEF irq_handler
    <3>2. AtMostOne(p["slave"].isr) /\ p["master"].isr = {2}
      BY <1>5, <2>2
    <3>3. PICK q : q = EOI(p, "slave")
      OBVIOUS
    <3>4. /\ q \in [{"master", "slave"} -> Chip]
          /\ \A c \in {"master", "slave"} :
               q[c].base = p[c].base /\ (c # "slave" => q[c] = p[c])
          /\ q["slave"].isr = {}
      BY <1>4, <3>2, <3>3, EOIEffect
    <3>5. q["master"] = p["master"]
      BY <3>4
    <3>6. AtMostOne({2})
      BY DEF AtMostOne
    <3> QED
      BY <3>1, <3>2, <3>3, <3>4, <3>5, <3>6
  <2> QED
    BY <2>1, <2>2
<1>7. /\ cpu' \in CpuStates
      /\ cpu'.eip = Code("irq_handler_master") /\ cpu'.eflags = cpu.eflags
      /\ Frames' /\ HalfFrame'
  BY <1>1, <1>2, JumpFrames DEF Labels
<1>8. Nesting' /\ Remapped'
  <2>1. Code("irq_handler_master") \in HandlerPlaces(saved[1].vector)
    BY <1>2 DEF HandlerPlaces
  <2> QED
    BY <1>1, <1>2, <1>3, <1>6, <1>7, <2>1, HandlerMoves
<1>9. InService'
  <2>1. Outermost' = Code("irq_handler_master")
    BY <1>1, <1>2, <1>7 DEF Outermost
  <2>2. /\ Code("irq_handler_master") # Code("irq_handler")
        /\ Code("irq_handler_master") # Code("irq_callback")
        /\ Code("irq_handler_master") # Code("return")
        /\ \A x : Code("irq_handler_master") # Word("stub", x)
    BY DEF Code, Word
  <2> QED
    BY <1>1, <1>2, <1>6, <2>1, <2>2 DEF InService
<1> QED
  BY <1>1, <1>6, <1>7, <1>8, <1>9 DEF Inv, Types, Acknowledged

\* irq_handler then acknowledges the master, and nothing is in service.
LEMMA IrqHandlerMasterInv ==
  ASSUME Inv, irq_handler_master
  PROVE  Inv'
<1>1. /\ cpu.eip = Code("irq_handler_master") /\ UNCHANGED <<stack, saved>>
      /\ cpu' = [cpu EXCEPT !.eip = Code("irq_callback")]
  BY DEF irq_handler_master, At, Goto
<1>2. /\ Len(saved) = 1 /\ saved # <<>> /\ ~ InStub
      /\ saved[1].vector \in Nat /\ ~ (saved[1].vector < 32)
      /\ Outermost = cpu.eip
      /\ InService
  BY <1>1, IrqIsOutermost
<1>3. PICK p : p = pic
  OBVIOUS
<1>4. p \in [{"master", "slave"} -> Chip]
  BY <1>3 DEF Inv, Types
<1>5. AtMostOne(p["master"].isr) /\ p["slave"].isr = {}
  BY <1>1, <1>2, <1>3 DEF InService
<1>6. pic' = EOI(p, "master")
  BY <1>3 DEF irq_handler_master
<1>7. /\ pic' \in [{"master", "slave"} -> Chip]
      /\ \A chip \in {"master", "slave"} : pic'[chip].base = p[chip].base
      /\ pic'["master"].isr = {} /\ pic'["slave"].isr = {}
  <2>1. PICK q : q = EOI(p, "master")
    OBVIOUS
  <2>2. /\ q \in [{"master", "slave"} -> Chip]
        /\ \A c \in {"master", "slave"} :
             q[c].base = p[c].base /\ (c # "master" => q[c] = p[c])
        /\ q["master"].isr = {}
    BY <1>4, <1>5, <2>1, EOIEffect
  <2>3. q["slave"] = p["slave"]
    BY <2>2
  <2> QED
    BY <1>5, <1>6, <2>1, <2>2, <2>3
<1>8. /\ cpu' \in CpuStates
      /\ cpu'.eip = Code("irq_callback") /\ cpu'.eflags = cpu.eflags
      /\ Frames' /\ HalfFrame'
  BY <1>1, <1>2, JumpFrames DEF Labels
<1>9. Nesting' /\ Remapped'
  <2>1. Code("irq_callback") \in HandlerPlaces(saved[1].vector)
    BY <1>2 DEF HandlerPlaces
  <2> QED
    BY <1>1, <1>2, <1>3, <1>7, <1>8, <2>1, HandlerMoves
<1>10. InService'
  <2>1. Outermost' = Code("irq_callback")
    BY <1>1, <1>2, <1>8 DEF Outermost
  <2>2. /\ Code("irq_callback") # Code("irq_handler")
        /\ Code("irq_callback") # Code("irq_handler_master")
        /\ \A x : Code("irq_callback") # Word("stub", x)
    BY DEF Code, Word
  <2> QED
    BY <1>1, <1>2, <1>7, <2>1, <2>2 DEF InService
<1> QED
  BY <1>1, <1>7, <1>8, <1>9, <1>10 DEF Inv, Types, Acknowledged

\* The registered handler runs with nothing in service.
LEMMA IrqCallbackInv ==
  ASSUME Inv, irq_callback
  PROVE  Inv'
<1>1. /\ cpu.eip = Code("irq_callback") /\ UNCHANGED <<stack, saved, pic>>
      /\ cpu' = [cpu EXCEPT !.eip = Code("return")]
  BY DEF irq_callback, At, Goto
<1>2. /\ Len(saved) = 1 /\ saved # <<>> /\ ~ InStub
      /\ saved[1].vector \in Nat /\ ~ (saved[1].vector < 32)
      /\ Outermost = cpu.eip
      /\ InService
  BY <1>1, IrqIsOutermost
<1>3. pic["master"].isr = {} /\ pic["slave"].isr = {}
  BY <1>1, <1>2 DEF InService
<1>4. /\ pic' \in [{"master", "slave"} -> Chip]
      /\ \A chip \in {"master", "slave"} : pic'[chip].base = pic[chip].base
  BY <1>1 DEF Inv, Types
<1>5. /\ cpu' \in CpuStates
      /\ cpu'.eip = Code("return") /\ cpu'.eflags = cpu.eflags
      /\ Frames' /\ HalfFrame'
  BY <1>1, <1>2, JumpFrames DEF Labels
<1>6. Nesting' /\ Remapped'
  <2>1. Code("return") \in HandlerPlaces(saved[1].vector)
    BY DEF HandlerPlaces
  <2> QED
    BY <1>1, <1>2, <1>4, <1>5, <2>1, HandlerMoves
<1>7. InService'
  <2>1. Outermost' = Code("return")
    BY <1>1, <1>2, <1>5 DEF Outermost
  <2>2. /\ Code("return") # Code("irq_handler")
        /\ Code("return") # Code("irq_handler_master")
        /\ \A x : Code("return") # Word("stub", x)
    BY DEF Code, Word
  <2> QED
    BY <1>1, <1>2, <1>3, <2>1, <2>2 DEF InService
<1> QED
  BY <1>1, <1>4, <1>5, <1>6, <1>7 DEF Inv, Types, Acknowledged

\* A step of kernel_main.
LEMMA MainMoves ==
  ASSUME Inv, cpu.eip \in MainCode, UNCHANGED <<stack, saved>>,
         cpu' \in CpuStates, cpu'.eip \in MainCode \cup {Code("hang")},
         pic' \in [{"master", "slave"} -> Chip],
         pic'["master"].isr = {} /\ pic'["slave"].isr = {},
         cpu'.eip \in MainCode \ BeforeRemap =>
           pic'["master"].base = 32 /\ pic'["slave"].base = 40,
         cpu'.eflags = Flags(TRUE) => cpu'.eip \in MainCode \ BeforeRemap
  PROVE  Inv'
<1>1. saved = <<>> /\ ~ InStub
  BY MainHasNoFrames
<1>2. ~ InStub'
  BY MainCodeIs DEF InStub, Code, Word
<1>3. Types' /\ Frames' /\ HalfFrame'
  BY <1>1, <1>2 DEF Inv, Types, Frames, HalfFrame
<1>4. Nesting'
  BY <1>1 DEF Inv, Nesting
<1>5. Remapped'
  BY <1>1 DEF Remapped, MainCpu
<1>6. Acknowledged'
  BY <1>1 DEF Acknowledged, InService
<1> QED
  BY <1>3, <1>4, <1>5, <1>6 DEF Inv

\* What holds in kernel_main.
LEMMA MainFacts ==
  ASSUME Inv, cpu.eip \in MainCode
  PROVE  /\ cpu \in CpuStates /\ pic \in [{"master", "slave"} -> Chip]
         /\ pic["master"].isr = {} /\ pic["slave"].isr = {}
         /\ cpu.eip \notin BeforeRemap =>
              pic["master"].base = 32 /\ pic["slave"].base = 40
         /\ cpu.eip \in BeforeRemap => cpu.eflags # Flags(TRUE)
<1>1. saved = <<>>
  BY MainHasNoFrames
<1>2. cpu.eip \notin StopCode
  BY MainCodeIs DEF StopCode, Code, Word
<1>3. InService
  BY <1>2 DEF Inv, Acknowledged
<1> QED
  BY <1>1, <1>3 DEF Inv, Types, InService, Remapped, MainCpu

\* A step of kernel_main that only moves on, after the controllers are set up.
LEMMA StepInv ==
  ASSUME Inv, NEW label \in Labels, cpu.eip \in MainCode \ BeforeRemap,
         Code(label) \in MainCode \ BeforeRemap,
         cpu' = [cpu EXCEPT !.eip = Code(label)],
         UNCHANGED <<stack, pic, saved>>
  PROVE  Inv'
<1>1. ~ InStub
  BY MainHasNoFrames
<1>2. cpu' \in CpuStates /\ cpu'.eip = Code(label) /\ cpu'.eflags = cpu.eflags
  BY <1>1, JumpFrames
<1>3. /\ pic \in [{"master", "slave"} -> Chip]
      /\ pic["master"].isr = {} /\ pic["slave"].isr = {}
      /\ pic["master"].base = 32 /\ pic["slave"].base = 40
  BY MainFacts
<1> QED
  BY <1>2, <1>3, MainMoves

\* ... and one before that.
LEMMA EarlyStepInv ==
  ASSUME Inv, NEW label \in Labels, cpu.eip \in BeforeRemap,
         Code(label) \in BeforeRemap,
         cpu' = [cpu EXCEPT !.eip = Code(label)],
         UNCHANGED <<stack, pic, saved>>
  PROVE  Inv'
<1>1. BeforeRemap \subseteq MainCode
  BY MainCodeIs DEF BeforeRemap
<1>2. cpu.eip \in MainCode
  BY <1>1
<1>3. ~ InStub
  BY <1>2, MainHasNoFrames
<1>4. cpu' \in CpuStates /\ cpu'.eip = Code(label) /\ cpu'.eflags = cpu.eflags
  BY <1>3, JumpFrames
<1>5. /\ pic \in [{"master", "slave"} -> Chip]
      /\ pic["master"].isr = {} /\ pic["slave"].isr = {}
      /\ cpu.eflags # Flags(TRUE)
  BY <1>2, MainFacts
<1> QED
  BY <1>1, <1>2, <1>4, <1>5, MainMoves

\* Where the places of kernel_main lie.
LEMMA MainPlaces ==
  /\ \A x \in {"gdt_init", "clear_idt", "init_isr", "init_irq"} :
       x \in Labels /\ Code(x) \in BeforeRemap /\ Code(x) \in MainCode
  /\ \A x \in {"idt_flush", "enable_interrupts", "check_magic",
               "scheduler_schedule", "printk_finished", "loop"} :
       x \in Labels /\ Code(x) \in MainCode \ BeforeRemap
BY MainCodeIs DEF BeforeRemap, Labels, Code, Word

\* Every call of kernel_main preserves the invariant.
LEMMA MainInv ==
  ASSUME Inv
  PROVE  /\ gdt_init => Inv'
         /\ clear_idt => Inv'
         /\ init_isr => Inv'
         /\ init_irq => Inv'
         /\ idt_flush => Inv'
         /\ enable_interrupts => Inv'
         /\ check_magic => Inv'
         /\ scheduler_schedule => Inv'
         /\ printk_finished => Inv'
<1> USE MainPlaces
<1>1. ASSUME gdt_init PROVE Inv'
  <2>1. cpu.eip = Code("gdt_init") /\ UNCHANGED <<stack, pic, saved>>
    BY <1>1 DEF gdt_init, At
  <2>2. /\ cpu \in CpuStates /\ pic \in [{"master", "slave"} -> Chip]
        /\ pic["master"].isr = {} /\ pic["slave"].isr = {}
        /\ cpu.eflags # Flags(TRUE)
    BY <2>1, MainFacts
  <2>3. cpu' \in CpuStates /\ cpu'.eip = Code("clear_idt")
          /\ cpu'.eflags = cpu.eflags
    <3>1. PICK c, f, g, e : /\ c = cpu /\ f = Word("cs", "0x08")
                            /\ g = Word("ds", "0x10") /\ e = Code("clear_idt")
      BY Zenon
    <3>2. c \in CpuStates /\ f \in Words /\ g \in Words /\ e \in Words
      BY <2>2, <3>1, PlaceWords
    <3>3. PICK c1 : c1 = [c EXCEPT !.cs = f]
      OBVIOUS
    <3>4. c1 \in CpuStates /\ c1.eflags = c.eflags
      BY <3>2, <3>3, SetCs
    <3>5. PICK c2 : c2 = [c1 EXCEPT !.ds = g]
      OBVIOUS
    <3>6. c2 \in CpuStates /\ c2.eflags = c.eflags
      BY <3>2, <3>4, <3>5 DEF CpuStates
    <3>7. PICK c3 : c3 = [c2 EXCEPT !.eip = e]
      OBVIOUS
    <3>8. c3 \in CpuStates /\ c3.eip = e /\ c3.eflags = c.eflags
      BY <3>2, <3>6, <3>7, SetEip
    <3>9. cpu' = [[c EXCEPT !.cs = f, !.ds = g] EXCEPT !.eip = e]
      BY <1>1, <3>1, AfterIs, Zenon DEF gdt_init, gdt_flush
    <3>10. cpu' = c3
      BY <3>3, <3>5, <3>7, <3>9
    <3> QED
      BY <3>1, <3>8, <3>10
  <2>4. Code("clear_idt") \in BeforeRemap /\ Code("clear_idt") \in MainCode
          /\ cpu.eip \in MainCode
    BY <2>1
  <2> QED
    BY <2>1, <2>2, <2>3, <2>4, MainMoves
<1>2. ASSUME clear_idt PROVE Inv'
  <2>1. /\ cpu.eip = Code("clear_idt") /\ UNCHANGED <<stack, pic, saved>>
        /\ cpu' = [cpu EXCEPT !.eip = Code("init_isr")]
    BY <1>2, AfterIs DEF clear_idt, At, Step
  <2> QED
    BY <2>1, EarlyStepInv
<1>3. ASSUME init_isr PROVE Inv'
  <2>1. /\ cpu.eip = Code("init_isr") /\ UNCHANGED <<stack, pic, saved>>
        /\ cpu' = [cpu EXCEPT !.eip = Code("init_irq")]
    BY <1>3, AfterIs DEF init_isr, At, Step
  <2> QED
    BY <2>1, EarlyStepInv
<1>4. ASSUME init_irq PROVE Inv'
  <2>1. /\ cpu.eip = Code("init_irq") /\ UNCHANGED <<stack, saved>>
        /\ cpu' = [cpu EXCEPT !.eip = Code("idt_flush")]
        /\ pic' = init_irq_outb(pic)
    BY <1>4, AfterIs DEF init_irq, At, Step
  <2>2. pic \in [{"master", "slave"} -> Chip] /\ cpu.eip \in MainCode
    BY <2>1, MainFacts
  <2>3. FreshPair(pic', 0, 32, 40)
    BY <2>1, <2>2, InitIrqEffect
  <2>4. /\ pic' \in [{"master", "slave"} -> Chip]
        /\ pic'["master"].isr = {} /\ pic'["slave"].isr = {}
        /\ pic'["master"].base = 32 /\ pic'["slave"].base = 40
    BY <2>3, Zenon DEF FreshPair, Fresh
  <2>5. ~ InStub
    BY <2>2, MainHasNoFrames
  <2>6. cpu' \in CpuStates /\ cpu'.eip = Code("idt_flush")
    BY <2>1, <2>5, JumpFrames
  <2>7. Code("idt_flush") \in MainCode \ BeforeRemap
    OBVIOUS
  <2> QED
    BY <2>1, <2>2, <2>4, <2>6, <2>7, MainMoves
<1>5. ASSUME idt_flush PROVE Inv'
  <2>1. /\ cpu.eip = Code("idt_flush") /\ UNCHANGED <<stack, pic, saved>>
        /\ cpu' = [cpu EXCEPT !.eip = Code("enable_interrupts")]
    BY <1>5, AfterIs DEF idt_flush, At, Step
  <2> QED
    BY <2>1, StepInv
<1>6. ASSUME enable_interrupts PROVE Inv'
  <2>1. /\ cpu.eip = Code("enable_interrupts") /\ UNCHANGED <<stack, pic, saved>>
        /\ cpu' = [cpu EXCEPT !.eip = Code("check_magic"), !.eflags = Flags(TRUE)]
    BY <1>6, AfterIs DEF enable_interrupts, At
  <2>2. /\ cpu \in CpuStates /\ pic \in [{"master", "slave"} -> Chip]
        /\ pic["master"].isr = {} /\ pic["slave"].isr = {}
        /\ pic["master"].base = 32 /\ pic["slave"].base = 40
    BY <2>1, MainFacts
  <2>3. cpu' \in CpuStates /\ cpu'.eip = Code("check_magic")
    <3>1. PICK c, e, f : c = cpu /\ e = Code("check_magic") /\ f = Flags(TRUE)
      BY Zenon
    <3>2. c \in CpuStates /\ e \in Words /\ f \in Words
      BY <2>2, <3>1, PlaceWords DEF Labels
    <3>3. PICK c1 : c1 = [c EXCEPT !.eip = e]
      OBVIOUS
    <3>4. c1 \in CpuStates /\ c1.eip = e
      BY <3>2, <3>3, SetEip
    <3>5. PICK c2 : c2 = [c1 EXCEPT !.eflags = f]
      OBVIOUS
    <3>6. c2 \in CpuStates /\ c2.eip = e /\ c2.eflags = f
      BY <3>2, <3>4, <3>5, SetFlags
    <3>7. cpu' = [c EXCEPT !.eip = e, !.eflags = f]
      BY <2>1, <3>1, Zenon
    <3>8. cpu' = c2
      BY <3>3, <3>5, <3>7
    <3> QED
      BY <3>1, <3>6, <3>8
  <2>4. Code("check_magic") \in MainCode \ BeforeRemap /\ cpu.eip \in MainCode
    BY <2>1
  <2> QED
    BY <2>1, <2>2, <2>3, <2>4, MainMoves
<1>7. ASSUME check_magic PROVE Inv'
  <2>1. cpu.eip = Code("check_magic") /\ UNCHANGED <<stack, pic, saved>>
    BY <1>7 DEF check_magic, At
  <2>2. CASE Step("check_magic")
    BY <2>1, <2>2, AfterIs, StepInv DEF Step
  <2>3. CASE cpu' = [cpu EXCEPT !.eip = Code("hang"), !.eflags = Flags(FALSE)]
    <3>1. /\ cpu \in CpuStates /\ pic \in [{"master", "slave"} -> Chip]
          /\ pic["master"].isr = {} /\ pic["slave"].isr = {}
          /\ cpu.eip \in MainCode
      BY <2>1, MainFacts
    <3>2. cpu' \in CpuStates /\ cpu'.eip = Code("hang") /\ cpu'.eflags = Flags(FALSE)
      <4>1. PICK c, e, f : c = cpu /\ e = Code("hang") /\ f = Flags(FALSE)
        BY Zenon
      <4>2. c \in CpuStates /\ e \in Words /\ f \in Words
        BY <3>1, <4>1, PlaceWords DEF Labels
      <4>3. PICK c1 : c1 = [c EXCEPT !.eip = e]
        OBVIOUS
      <4>4. c1 \in CpuStates /\ c1.eip = e
        BY <4>2, <4>3, SetEip
      <4>5. PICK c2 : c2 = [c1 EXCEPT !.eflags = f]
        OBVIOUS
      <4>6. c2 \in CpuStates /\ c2.eip = e /\ c2.eflags = f
        BY <4>2, <4>4, <4>5, SetFlags
      <4>7. cpu' = [c EXCEPT !.eip = e, !.eflags = f]
        BY <2>3, <4>1, Zenon
      <4>8. cpu' = c2
        BY <4>3, <4>5, <4>7
      <4> QED
        BY <4>1, <4>6, <4>8
    <3>3. Code("hang") \notin MainCode /\ Flags(TRUE) # Flags(FALSE)
      BY MainCodeIs DEF Code, Word, Flags
    <3> QED
      BY <2>1, <3>1, <3>2, <3>3, MainMoves
  <2> QED
    BY <1>7, <2>2, <2>3 DEF check_magic
<1>8. ASSUME scheduler_schedule PROVE Inv'
  <2>1. cpu.eip = Code("scheduler_schedule") /\ UNCHANGED <<stack, pic, saved>>
    BY <1>8 DEF scheduler_schedule, At
  <2>2. CASE Step("scheduler_schedule")
    BY <2>1, <2>2, AfterIs, StepInv DEF Step
  <2>3. CASE cpu' = [cpu EXCEPT !.eip = After("scheduler_schedule"),
                                !.eflags = Flags(FALSE), !.ds = Word("ds", "0x18")]
    <3>1. /\ cpu \in CpuStates /\ pic \in [{"master", "slave"} -> Chip]
          /\ pic["master"].isr = {} /\ pic["slave"].isr = {}
          /\ pic["master"].base = 32 /\ pic["slave"].base = 40
          /\ cpu.eip \in MainCode
      BY <2>1, MainFacts
    <3>2. PICK c, e, f, g : /\ c = cpu /\ e = Code("printk_finished")
                            /\ f = Flags(FALSE) /\ g = Word("ds", "0x18")
      BY Zenon
    <3>3. c \in CpuStates /\ e \in Words /\ f \in Words /\ g \in Words
      BY <3>1, <3>2, PlaceWords
    <3>4. PICK c1 : c1 = [c EXCEPT !.eip = e]
      OBVIOUS
    <3>5. c1 \in CpuStates /\ c1.eip = e
      BY <3>3, <3>4, SetEip
    <3>6. PICK c2 : c2 = [c1 EXCEPT !.eflags = f]
      OBVIOUS
    <3>7. c2 \in CpuStates /\ c2.eip = e
      BY <3>3, <3>5, <3>6, SetFlags
    <3>8. PICK c3 : c3 = [c2 EXCEPT !.ds = g]
      OBVIOUS
    <3>9. c3 \in CpuStates /\ c3.eip = e
      BY <3>3, <3>7, <3>8 DEF CpuStates
    <3>10. cpu' \in CpuStates /\ cpu'.eip = Code("printk_finished")
      <4>1. cpu' = [c EXCEPT !.eip = e, !.eflags = f, !.ds = g]
        BY <2>3, <3>2, AfterIs, Zenon
      <4>2. cpu' = c3
        BY <3>4, <3>6, <3>8, <4>1
      <4> QED
        BY <3>2, <3>9, <4>2
    <3>11. Code("printk_finished") \in MainCode \ BeforeRemap
      OBVIOUS
    <3> QED
      BY <2>1, <3>1, <3>10, <3>11, MainMoves
  <2> QED
    BY <1>8, <2>2, <2>3 DEF scheduler_schedule
<1>9. ASSUME printk_finished PROVE Inv'
  <2>1. cpu.eip = Code("printk_finished") /\ pic' = pic
    BY <1>9 DEF printk_finished, At
  <2>2. CASE Step("printk_finished") /\ UNCHANGED <<stack, saved>>
    BY <2>1, <2>2, AfterIs, StepInv DEF Step
  <2>3. CASE Fault(13, 0)
    <3>1. 13 \in (0 .. 31) \ {17} /\ 0 \in Nat
      OBVIOUS
    <3>2. cpu.eip \in MainCode \cup HandlerCode
      BY <2>1
    <3> QED
      BY <2>1, <2>3, <3>1, <3>2, FaultInv
  <2> QED
    BY <1>9, <2>2, <2>3 DEF printk_finished
<1> QED
  BY <1>1, <1>2, <1>3, <1>4, <1>5, <1>6, <1>7, <1>8, <1>9

-----------------------------------------------------------------------------
(* The theorems.                                                           *)

\* The invariant holds when kernel_main starts ...
LEMMA InitInv == Init => Inv
<1> SUFFICES ASSUME Init PROVE Inv
  OBVIOUS
<1>1. /\ cpu.eip = Code("gdt_init") /\ cpu.eflags = Flags(FALSE)
      /\ cpu = [eip |-> Code("gdt_init"), cs |-> Word("cs", "boot"),
                eflags |-> Flags(FALSE), ds |-> Word("ds", "boot"),
                regs |-> Word("regs", "kernel_main")]
  BY DEF Init
<1>2. stack = <<>> /\ saved = <<>> /\ Len(stack) = 0 /\ Len(saved) = 0
  BY DEF Init
<1>3. Code("gdt_init") \in MainCode /\ Code("gdt_init") \in BeforeRemap
        /\ Code("gdt_init") \in Words
  BY MainPlaces, PlaceWords
<1>4. cpu \in CpuStates
  BY <1>1, <1>3, PlaceWords DEF CpuStates
<1>5. /\ pic \in [{"master", "slave"} -> Chip]
      /\ pic["master"].isr = {} /\ pic["slave"].isr = {}
  <2>1. PICK r : r = [irr |-> {}, isr |-> {}, imr |-> {}, icw |-> 0, base |-> 8]
    OBVIOUS
  <2>2. r \in Chip /\ r.isr = {}
    BY <2>1 DEF Chip
  <2>3. pic = [chip \in {"master", "slave"} |-> r]
    BY <2>1 DEF Init
  <2> QED
    BY <2>2, <2>3
<1>6. Types
  BY <1>2, <1>4, <1>5 DEF Types
<1>7. ~ InStub
  BY <1>1 DEF InStub, Code, Word
<1>8. Frames /\ HalfFrame
  BY <1>2, <1>7 DEF Frames, HalfFrame
<1>9. Nesting
  <2>1. \A d \in 1 .. Len(saved) : FALSE
    BY <1>2
  <2> QED
    BY <1>1, <1>2, <1>3, <2>1, Zenon DEF Nesting
<1>10. Remapped
  <2>1. Flags(TRUE) # Flags(FALSE)
    BY DEF Flags, Word
  <2> QED
    BY <1>1, <1>2, <1>3, <2>1 DEF Remapped, MainCpu
<1>11. Acknowledged
  BY <1>2, <1>5 DEF Acknowledged, InService
<1> QED
  BY <1>6, <1>8, <1>9, <1>10, <1>11 DEF Inv

\* ... and every step preserves it.
LEMMA NextInv == Inv /\ [Next]_vars => Inv'
<1> SUFFICES ASSUME Inv, [Next]_vars PROVE Inv'
  OBVIOUS
<1>1. CASE CPU
  BY <1>1, MainInv, StubInv, ReturnInv, InterruptHandlerInv, IrqHandlerInv,
     IrqHandlerMasterInv, IrqCallbackInv, AcceptInv, Zenon DEF CPU
<1>2. CASE \E l \in Lines : Raise(l)
  BY <1>2, RaiseInv
<1>3. CASE \E n \in Exceptions : exception(n)
  BY <1>3, ExceptionInv
<1>4. CASE \E n \in Exceptions : register_isr_handler(n)
  <2>1. UNCHANGED <<cpu, stack, pic, saved>>
    BY <1>4 DEF register_isr_handler
  <2> QED
    BY <2>1, RegisterInv
<1>5. CASE UNCHANGED vars
  <2>1. UNCHANGED <<cpu, stack, pic, saved>>
    BY <1>5 DEF vars
  <2> QED
    BY <2>1, RegisterInv
<1> QED
  BY <1>1, <1>2, <1>3, <1>4, <1>5 DEF Next

\* The inductive invariant holds in every reachable state.
THEOREM InvHolds == Spec => []Inv
BY InitInv, NextInv, PTL DEF Spec


\* Seven words in a row are a tuple.
LEMMA SevenWords ==
  ASSUME NEW S, NEW s \in Seq(S), NEW i \in Nat, i + 7 <= Len(s)
  PROVE  SubSeq(s, i + 1, i + 7) =
           <<s[i + 1], s[i + 2], s[i + 3], s[i + 4], s[i + 5], s[i + 6], s[i + 7]>>
<1>1. PICK t, u :
        /\ t = SubSeq(s, i + 1, i + 7)
        /\ u = <<s[i + 1], s[i + 2], s[i + 3], s[i + 4], s[i + 5], s[i + 6],
                 s[i + 7]>>
  BY Zenon
<1>2. t \in Seq(S) /\ Len(t) = 7 /\ \A j \in 1 .. 7 : t[j] = s[i + j]
  BY <1>1
<1>3. Len(u) = 7 /\ u = [j \in 1 .. 7 |-> u[j]]
  BY <1>1
<1>4. \A j \in 1 .. 7 : u[j] = s[i + j]
  <2>1. /\ u[1] = s[i + 1] /\ u[2] = s[i + 2] /\ u[3] = s[i + 3]
        /\ u[4] = s[i + 4] /\ u[5] = s[i + 5] /\ u[6] = s[i + 6]
        /\ u[7] = s[i + 7]
    BY <1>1
  <2> QED
    BY <2>1, SMTT(30)
<1>5. t = [j \in 1 .. 7 |-> t[j]]
  BY <1>2
<1>6. t = u
  BY <1>2, <1>3, <1>4, <1>5
<1> QED
  BY <1>1, <1>6

\* FrameIntact, for every set of lines and exceptions and every nesting: what
\* the stubs of interrupts_assembler.s leave on the stack is the registers_t
\* that interrupt_handler and irq_handler read.
THEOREM FramesStayIntact == Spec => []FrameIntact
<1>1. Inv => FrameIntact
  <2> SUFFICES ASSUME Inv, cpu.eip[1] = "eip" PROVE
         /\ Len(stack) = FrameSize * Len(saved)
         /\ \A d \in DOMAIN saved :
              LET s == saved[d]
                  code == IF s.code = <<>> THEN Word("error_code", 0)
                          ELSE s.code[1]
              IN  SubSeq(stack, FrameSize * (d - 1) + 1, FrameSize * d) =
                    <<s.cpu.ds, s.cpu.regs, Word("interrupt_number", s.vector),
                      code, s.cpu.eip, s.cpu.cs, s.cpu.eflags>>
    BY DEF FrameIntact
  <2>1. ~ InStub
    BY DEF InStub
  <2>2. /\ Len(stack) = 7 * Len(saved)
        /\ \A d \in 1 .. Len(saved) : FrameAt(stack, 7 * (d - 1), saved[d])
    BY <2>1 DEF Inv, Frames
  <2>3. stack \in Seq(Words) /\ saved \in Seq(Interrupted)
    BY DEF Inv, Types
  <2>4. ASSUME NEW d \in DOMAIN saved
        PROVE  SubSeq(stack, 7 * (d - 1) + 1, 7 * d) =
                 <<saved[d].cpu.ds, saved[d].cpu.regs,
                   Word("interrupt_number", saved[d].vector), CodeOf(saved[d]),
                   saved[d].cpu.eip, saved[d].cpu.cs, saved[d].cpu.eflags>>
    <3>1. d \in 1 .. Len(saved) /\ Len(saved) \in Nat
      BY <2>3
    <3>2. PICK i : i = 7 * (d - 1)
      OBVIOUS
    <3>3. i \in Nat /\ i + 7 <= Len(stack) /\ 7 * d = i + 7
      BY <2>2, <3>1, <3>2
    <3>4. SubSeq(stack, i + 1, i + 7) =
            <<stack[i + 1], stack[i + 2], stack[i + 3], stack[i + 4],
              stack[i + 5], stack[i + 6], stack[i + 7]>>
      BY <2>3, <3>3, SevenWords
    <3>5. FrameAt(stack, i, saved[d])
      BY <2>2, <3>1, <3>2
    <3>6. <<stack[i + 1], stack[i + 2], stack[i + 3], stack[i + 4],
            stack[i + 5], stack[i + 6], stack[i + 7]>> =
          <<saved[d].cpu.ds, saved[d].cpu.regs,
            Word("interrupt_number", saved[d].vector), CodeOf(saved[d]),
            saved[d].cpu.eip, saved[d].cpu.cs, saved[d].cpu.eflags>>
      BY <3>5, Zenon DEF FrameAt
    <3> QED
      BY <3>2, <3>3, <3>4, <3>6
  <2> QED
    BY <2>2, <2>4, Zenon DEF FrameSize, CodeOf
<1> QED
  BY <1>1, InvHolds, PTL

\* OneAtATime, for every set of lines: where the kernel has interrupts enabled,
\* the acknowledgements of irq_handler have left nothing in service.
THEOREM AlwaysOneAtATime == Spec => []OneAtATime
<1>1. Inv => OneAtATime
  <2> SUFFICES ASSUME Inv, InterruptsOn
               PROVE  saved = <<>> /\ \A chip \in DOMAIN pic : pic[chip].isr = {}
    BY DEF OneAtATime
  <2>1. Flags(TRUE) # Flags(FALSE) /\ cpu.eflags = Flags(TRUE)
    BY DEF Flags, Word, InterruptsOn
  <2>2. saved = <<>>
    BY <2>1 DEF Inv, Nesting
  <2>3. cpu.eip \in MainCode
    BY <2>1, <2>2 DEF Inv, Remapped, MainCpu
  <2>4. /\ pic \in [{"master", "slave"} -> Chip]
        /\ pic["master"].isr = {} /\ pic["slave"].isr = {}
    BY <2>3, MainFacts
  <2> QED
    BY <2>2, <2>4
<1> QED
  BY <1>1, InvHolds, PTL

\* Entering a handler never removes an interrupt from the history.
LEMMA EnterGrows ==
  ASSUME Types, NEW v, NEW code, Enter(v, code)
  PROVE  ~ (Len(saved') < Len(saved))
<1>1. PICK r : r = [cpu |-> cpu, vector |-> v, code |-> code]
  OBVIOUS
<1>2. saved' = <<r>> \o saved \/ saved' = saved
  BY <1>1, EnterIs DEF Pushed, Reset
<1>3. saved \in Seq(Interrupted) /\ Len(saved) \in Nat
  BY DEF Types
<1>4. Len(<<r>> \o saved) = 1 + Len(saved)
  BY <1>3
<1> QED
  BY <1>2, <1>3, <1>4

\* Resumes, for every nesting: the common stubs return to the place, flags,
\* segments and registers that were interrupted and leave nothing behind.
THEOREM HandlersResume == Spec => Resumes
<1> DEFINE Resume == Len(saved') < Len(saved) =>
                       /\ cpu' = saved[1].cpu
                       /\ Len(stack') = FrameSize * Len(saved')
<1>1. Inv /\ [Next]_vars => [Resume]_vars
  <2> SUFFICES ASSUME Inv, [Next]_vars, Len(saved') < Len(saved)
               PROVE  cpu' = saved[1].cpu /\ Len(stack') = FrameSize * Len(saved')
    OBVIOUS
  <2>1. Types /\ saved \in Seq(Interrupted) /\ Len(saved) \in Nat
    BY DEF Inv, Types
  <2>2. saved' # saved
    BY <2>1
  <2>3. \A v, code : ~ Enter(v, code)
    BY <2>1, EnterGrows
  <2>4. stub_return
    <3>1. ~ accept
      BY <2>3, Zenon DEF accept
    <3>2. \A n : ~ exception(n)
      BY <2>3, Zenon DEF exception, Fault
    <3>3. ~ printk_finished
      BY <2>2, <2>3 DEF printk_finished, Fault
    <3>4. ~ (UNCHANGED vars) /\ \A x : ~ Raise(x) /\ ~ register_isr_handler(x)
      BY <2>2 DEF vars, Raise, register_isr_handler
    <3>5. /\ ~ gdt_init /\ ~ clear_idt /\ ~ init_isr /\ ~ init_irq /\ ~ idt_flush
          /\ ~ enable_interrupts /\ ~ check_magic /\ ~ scheduler_schedule
      BY <2>2 DEF gdt_init, clear_idt, init_isr, init_irq, idt_flush,
                 enable_interrupts, check_magic, scheduler_schedule
    <3>6. /\ ~ stub /\ ~ interrupt_handler /\ ~ irq_handler /\ ~ irq_handler_master
          /\ ~ irq_callback
      BY <2>2 DEF stub, interrupt_handler, irq_handler, irq_handler_master,
                 irq_callback
    <3> QED
      BY <3>1, <3>2, <3>3, <3>4, <3>5, <3>6, Zenon DEF Next, CPU
  <2>5. Len(stack') = 7 * Len(saved') /\ cpu' = saved[1].cpu
    BY <2>4, ReturnEffect
  <2> QED
    BY <2>5 DEF FrameSize
<1> QED
  BY <1>1, InvHolds, PTL DEF Spec, Resumes
=============================================================================
