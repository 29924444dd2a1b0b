----------------------------- MODULE Interrupts -----------------------------
(***************************************************************************)
(* Segments, exceptions and interrupts: gdt.c, interrupts.c, the stubs of  *)
(* interrupts_assembler.s, and the calls of kernel_main that set them up.  *)
(*                                                                         *)
(* A word of the stack or of a register is a pair of its role and its      *)
(* value; the eight registers of pusha are one word and so are the four    *)
(* data segment registers, which always hold the same selector.  The CPU   *)
(* and the two 8259 interrupt controllers are external.                    *)
(***************************************************************************)
EXTENDS Integers, Sequences

CONSTANTS
  Lines,           \* interrupt lines with a device: 0 .. 7 master, 8 .. 15 slave
  Exceptions,      \* exceptions that the code may raise
  MaxRaises,       \* bound on the interrupts that devices raise
  MaxExceptions    \* bound on the exceptions that are raised

\* Exception 17, for which isr17 pushes a dummy on top of the CPU's error code,
\* needs alignment checks, which nothing enables.
ASSUME InterruptsAssumption ==
  /\ Lines \subseteq (0 .. 15) \ {2}
  /\ Exceptions \subseteq (0 .. 31) \ {17}
  /\ MaxRaises \in Nat /\ MaxExceptions \in Nat

VARIABLES
  cpu,                 \* eip, cs, eflags, ds, regs; each holds a word
  stack,               \* what interrupts under way have pushed, top first
  gdt,                 \* selector -> descriptor
  idt,                 \* [loaded, gates]: lidt was executed; vectors with a gate
  exception_handlers,  \* exceptions with a registered handler
  pic,                 \* the two interrupt controllers
  raises,              \* interrupts raised so far
  faults,              \* exceptions raised so far
  saved                \* history: what each interrupt under way interrupted

tables == <<gdt, idt, exception_handlers>>
vars == <<cpu, stack, tables, pic, raises, faults, saved>>

Word(role, value) == <<role, value>>
Flags(on) == Word("eflags", on)          \* the interrupt flag IF
Code(label) == Word("eip", label)

At(label) == cpu.eip = Code(label)
InterruptsOn == cpu.eflags = Flags(TRUE)

\* The calls of kernel_main that change this state, in their order.
Calls == <<"gdt_init", "clear_idt", "init_isr", "init_irq", "idt_flush",
           "enable_interrupts", "check_magic", "scheduler_schedule",
           "printk_finished", "loop">>

After(label) ==
  Code(Calls[1 + CHOOSE k \in DOMAIN Calls : Calls[k] = label])

InKernelMain == \E k \in DOMAIN Calls : At(Calls[k])

Init ==
  /\ cpu = [eip |-> Code("gdt_init"), cs |-> Word("cs", "boot"),
            eflags |-> Flags(FALSE), ds |-> Word("ds", "boot"),
            regs |-> Word("regs", "kernel_main")]
  /\ stack = <<>> /\ saved = <<>>
  /\ gdt = [sel \in {"boot"} |-> [dpl |-> 0, type |-> "data"]]
  /\ idt = [loaded |-> FALSE, gates |-> {}]
  /\ exception_handlers = {}
  /\ pic = [chip \in {"master", "slave"} |->
             [irr |-> {}, isr |-> {}, imr |-> {}, icw |-> 0, base |-> 8]]
  /\ raises = 0 /\ faults = 0

-----------------------------------------------------------------------------
(* The interrupt controllers.  Line 2 of the master is the slave.          *)

\* A write of a byte to the command or data port of one of the two.  0x11
\* begins the initialisation: three more bytes follow on the data port, the
\* first of which is the vector of line 0.  Later bytes there are the mask.
Written(c, w) ==
  CASE w.port = "command" /\ w.byte = "0x11" ->
         [c EXCEPT !.icw = 2, !.irr = {}, !.isr = {}, !.imr = {}]
    [] w.port = "command" /\ w.byte = "0x20" ->
         [c EXCEPT !.isr = @ \ {l \in @ : \A k \in @ : l <= k}]
    [] w.port = "data" /\ c.icw = 2 -> [c EXCEPT !.icw = 3, !.base = w.byte]
    [] w.port = "data" /\ c.icw = 3 -> [c EXCEPT !.icw = 4]
    [] w.port = "data" /\ c.icw = 4 -> [c EXCEPT !.icw = 0]
    [] OTHER -> [c EXCEPT !.imr = w.byte]

outb(p, w) == [p EXCEPT ![w.chip] = Written(@, w)]

Write(chip, port, byte) == [chip |-> chip, port |-> port, byte |-> byte]
EOI(p, chip) == outb(p, Write(chip, "command", "0x20"))

\* Lines of a chip that may interrupt: requested, not masked, and of a higher
\* priority than everything in service.
Ready(p, chip) ==
  {l \in p[chip].irr \ p[chip].imr : \A k \in p[chip].isr : l < k}

\* The slave's output is a request on line 2 of the master.
Cascaded(p) ==
  [p EXCEPT !["master"].irr =
     IF Ready(p, "slave") # {} THEN @ \cup {2} ELSE @ \ {2}]

First(S) == CHOOSE l \in S : \A k \in S : l <= k

Pending(l) ==
  IF l < 8 THEN l \in pic["master"].irr ELSE l - 8 \in pic["slave"].irr

\* A device raises its line.
Raise(l) ==
  /\ raises < MaxRaises /\ ~ Pending(l)
  /\ raises' = raises + 1
  /\ pic' = IF l < 8 THEN [pic EXCEPT !["master"].irr = @ \cup {l}]
                     ELSE [pic EXCEPT !["slave"].irr = @ \cup {l - 8}]
  /\ UNCHANGED <<cpu, stack, tables, faults, saved>>

-----------------------------------------------------------------------------
(* The CPU takes interrupts and exceptions.                                *)

\* Through an interrupt gate: eflags, cs, eip and for some exceptions an error
\* code are pushed, IF is cleared.  Without a gate the CPU resets.
Enter(vector, code) ==
  IF idt.loaded /\ vector \in idt.gates
  THEN /\ stack' = code \o <<cpu.eip, cpu.cs, cpu.eflags>> \o stack
       /\ cpu' = [cpu EXCEPT !.eip = Word("stub", vector),
                             !.cs = Word("cs", "0x08"), !.eflags = Flags(FALSE)]
       /\ saved' = <<[cpu |-> cpu, vector |-> vector, code |-> code]>> \o saved
  ELSE /\ cpu' = [cpu EXCEPT !.eip = Code("reset"), !.eflags = Flags(FALSE)]
       /\ UNCHANGED <<stack, saved>>

\* The CPU asks for the vector.  A line that is withdrawn at that moment is
\* answered with line 7, which is then not in service.
accept ==
  LET p == Cascaded(pic)
  IN  /\ InterruptsOn /\ Ready(p, "master") # {}
      /\ LET l     == First(Ready(p, "master"))
             chip  == IF l = 2 THEN "slave" ELSE "master"
             k     == First(Ready(p, chip))
             held  == IF l = 2 THEN [pic EXCEPT !["master"].isr = @ \cup {2}]
                               ELSE pic
         IN  \E withdrawn \in BOOLEAN :
               /\ pic' = [held EXCEPT
                            ![chip].irr = @ \ {k},
                            ![chip].isr = IF withdrawn THEN @ ELSE @ \cup {k}]
               /\ Enter(pic[chip].base + IF withdrawn THEN 7 ELSE k, <<>>)
      /\ UNCHANGED <<tables, raises, faults>>

\* Exceptions for which the CPU pushes an error code.
HasCode(n) == n \in {8, 17} \cup 10 .. 14

Fault(n, value) ==
  Enter(n, IF HasCode(n) THEN <<Word("error_code", value)>> ELSE <<>>)

\* An instruction of kernel_main or of a handler faults.
exception(n) ==
  /\ InKernelMain \/ At("irq_handler") \/ At("irq_handler_master")
       \/ At("irq_callback") \/ At("interrupt_handler")
  /\ faults < MaxExceptions
  /\ faults' = faults + 1
  /\ Fault(n, 1)
  /\ UNCHANGED <<tables, pic, raises>>

-----------------------------------------------------------------------------
(* The stubs.                                                              *)

\* Mutant: isr14 pushes a dummy like its neighbours 15 and 16.
PushesDummy_PageFault(n) == n \notin {8, 10, 11, 12, 13}

\* The stubs that push 0 for the error code; irq0 .. irq15 all do.
PushesDummy(n) == n \notin {8} \cup 10 .. 14

\* isr<n> or irq<n - 32>, and the common stub up to its call.
stub ==
  /\ cpu.eip[1] = "stub"
  /\ LET n == cpu.eip[2]
         dummy == IF PushesDummy(n) THEN <<Word("error_code", 0)>> ELSE <<>>
     IN  /\ stack' = <<cpu.ds, cpu.regs, Word("interrupt_number", n)>>
                       \o dummy \o stack
         /\ cpu' = [cpu EXCEPT
                      !.eip = Code(IF n < 32 THEN "interrupt_handler"
                                   ELSE "irq_handler"),
                      !.ds = Word("ds", "0x10"),
                      !.regs = Word("regs", "handler")]
  /\ UNCHANGED <<tables, pic, raises, faults, saved>>

\* Mutant: only one of the two words behind the registers is removed.
stub_return_OneWord ==
  /\ At("return")
  /\ cpu' = [ds |-> stack[1], regs |-> stack[2],
             eip |-> stack[4], cs |-> stack[5], eflags |-> stack[6]]
  /\ stack' = SubSeq(stack, 7, Len(stack))
  /\ saved' = Tail(saved)
  /\ UNCHANGED <<tables, pic, raises, faults>>

\* The common stubs behind the call: the registers are popped, the interrupt
\* number and the error code dropped, iret pops the rest.
stub_return ==
  /\ At("return")
  /\ cpu' = [ds |-> stack[1], regs |-> stack[2],
             eip |-> stack[5], cs |-> stack[6], eflags |-> stack[7]]
  /\ stack' = SubSeq(stack, 8, Len(stack))
  /\ saved' = Tail(saved)
  /\ UNCHANGED <<tables, pic, raises, faults>>

-----------------------------------------------------------------------------
(* The handlers in C; regs points to the top of the stack.                 *)

interrupt_number == stack[3][2]
Goto(label) == cpu' = [cpu EXCEPT !.eip = Code(label)]

interrupt_handler ==
  /\ At("interrupt_handler")
  /\ Goto(IF interrupt_number \in exception_handlers THEN "return" ELSE "abort")
  /\ UNCHANGED <<stack, tables, pic, raises, faults, saved>>

\* Mutant: interrupt 40 is taken for one of the master's.
irq_handler_AboveForty ==
  /\ At("irq_handler")
  /\ pic' = IF interrupt_number > 40 THEN EOI(pic, "slave") ELSE pic
  /\ Goto("irq_handler_master")
  /\ UNCHANGED <<stack, tables, raises, faults, saved>>

irq_handler ==
  /\ At("irq_handler")
  /\ pic' = IF interrupt_number >= 40 THEN EOI(pic, "slave") ELSE pic
  /\ Goto("irq_handler_master")
  /\ UNCHANGED <<stack, tables, raises, faults, saved>>

irq_handler_master ==
  /\ At("irq_handler_master")
  /\ pic' = EOI(pic, "master")
  /\ Goto("irq_callback")
  /\ UNCHANGED <<stack, tables, raises, faults, saved>>

\* A registered handler (keyboard_callback, see Console) runs and returns; it
\* changes nothing of this state.
irq_callback ==
  /\ At("irq_callback")
  /\ Goto("return")
  /\ UNCHANGED <<stack, tables, pic, raises, faults, saved>>

-----------------------------------------------------------------------------
(* kernel_main.                                                            *)

Step(label) == cpu' = [cpu EXCEPT !.eip = After(label)]

gdt_set_gate(plevel, type) == [dpl |-> plevel, type |-> type]

gdt_create_tss_entry == [dpl |-> 0, type |-> "tss"]

\* The kernel's code and data segments.
gdt_flush(c) == [c EXCEPT !.cs = Word("cs", "0x08"), !.ds = Word("ds", "0x10")]

gdt_init ==
  /\ At("gdt_init")
  /\ gdt' = [sel \in {"0x00", "0x08", "0x10", "0x18", "0x20", "0x28"} |->
       CASE sel = "0x00" -> gdt_set_gate(0, "null")
         [] sel = "0x08" -> gdt_set_gate(0, "code")
         [] sel = "0x10" -> gdt_set_gate(0, "data")
         [] sel = "0x18" -> gdt_set_gate(3, "code")
         [] sel = "0x20" -> gdt_set_gate(3, "data")
         [] sel = "0x28" -> gdt_create_tss_entry]
  /\ cpu' = [gdt_flush(cpu) EXCEPT !.eip = After("gdt_init")]
  /\ UNCHANGED <<stack, idt, exception_handlers, pic,
                 raises, faults, saved>>

clear_idt ==
  /\ At("clear_idt") /\ Step("clear_idt")
  /\ idt' = [idt EXCEPT !.gates = {}]
  /\ UNCHANGED <<stack, gdt, exception_handlers, pic,
                 raises, faults, saved>>

init_isr ==
  /\ At("init_isr") /\ Step("init_isr")
  /\ exception_handlers' = {}
  /\ idt' = [idt EXCEPT !.gates = @ \cup 0 .. 31]
  /\ UNCHANGED <<stack, gdt, pic, raises, faults, saved>>

\* The ten bytes, a pair for the two controllers in each line; the last pair
\* is the masks.
outb_pair(p, port, master, slave) ==
  outb(outb(p, Write("master", port, master)), Write("slave", port, slave))

\* Mutant: the master's line 2 is masked, as if it were an unused device.
init_irq_outb_MasksSlave(p) ==
  LET p1 == outb_pair(p, "command", "0x11", "0x11")
      p2 == outb_pair(p1, "data", 32, 40)
      p3 == outb_pair(p2, "data", 4, 2)
      p4 == outb_pair(p3, "data", 1, 1)
  IN  outb_pair(p4, "data", {2}, {})

init_irq_outb(p) ==
  LET p1 == outb_pair(p, "command", "0x11", "0x11")
      p2 == outb_pair(p1, "data", 32, 40)
      p3 == outb_pair(p2, "data", 4, 2)
      p4 == outb_pair(p3, "data", 1, 1)
  IN  outb_pair(p4, "data", {}, {})

init_irq ==
  /\ At("init_irq") /\ Step("init_irq")
  /\ pic' = init_irq_outb(pic)
  /\ idt' = [idt EXCEPT !.gates = @ \cup 32 .. 47]
  /\ UNCHANGED <<stack, gdt, exception_handlers, raises,
                 faults, saved>>

idt_flush ==
  /\ At("idt_flush") /\ Step("idt_flush")
  /\ idt' = [idt EXCEPT !.loaded = TRUE]
  /\ UNCHANGED <<stack, gdt, exception_handlers, pic,
                 raises, faults, saved>>

enable_interrupts ==
  /\ At("enable_interrupts")
  /\ cpu' = [cpu EXCEPT !.eip = After("enable_interrupts"),
                        !.eflags = Flags(TRUE)]
  /\ UNCHANGED <<stack, tables, pic, raises, faults, saved>>

\* With a wrong magic number kernel_main returns, and boot.s executes cli and
\* loops.
check_magic ==
  /\ At("check_magic")
  /\ \/ Step("check_magic")
     \/ cpu' = [cpu EXCEPT !.eip = Code("hang"), !.eflags = Flags(FALSE)]
  /\ UNCHANGED <<stack, tables, pic, raises, faults, saved>>

\* No process can run and the call returns, or run_process_in_user_mode
\* executes cli, loads the data segment registers and returns.
scheduler_schedule ==
  /\ At("scheduler_schedule")
  /\ \/ Step("scheduler_schedule")
     \/ cpu' = [cpu EXCEPT !.eip = After("scheduler_schedule"),
                           !.eflags = Flags(FALSE), !.ds = Word("ds", "0x18")]
  /\ UNCHANGED <<stack, tables, pic, raises, faults, saved>>

DataWritable == gdt[cpu.ds[2]].type = "data"

\* printk writes to the screen through ds.
printk_finished ==
  /\ At("printk_finished")
  /\ IF DataWritable THEN Step("printk_finished") /\ UNCHANGED <<stack, saved>>
     ELSE Fault(13, 0)
  /\ UNCHANGED <<tables, pic, raises, faults>>

\* Any part of the kernel may register a handler that returns.
register_isr_handler(n) ==
  /\ InKernelMain
  /\ exception_handlers' = exception_handlers \cup {n}
  /\ n \notin exception_handlers
  /\ UNCHANGED <<cpu, stack, gdt, idt, pic, raises, faults,
                 saved>>

-----------------------------------------------------------------------------

CPU ==
  \/ gdt_init \/ clear_idt \/ init_isr \/ init_irq \/ idt_flush
  \/ enable_interrupts \/ check_magic \/ scheduler_schedule
  \/ printk_finished
  \/ stub \/ stub_return
  \/ interrupt_handler \/ irq_handler \/ irq_handler_master \/ irq_callback
  \/ accept

Next ==
  \/ CPU
  \/ \E l \in Lines : Raise(l)
  \/ \E n \in Exceptions : exception(n)
  \/ \E n \in Exceptions : register_isr_handler(n)

\* The CPU executes the next instruction or takes an interrupt; devices and
\* faults owe nothing.
Spec == Init /\ [][Next]_vars /\ WF_vars(CPU)

-----------------------------------------------------------------------------
(* Properties.                                                             *)

\* Words of registers_t, in the order in which the handlers read them.
FrameSize == 7

\* Every registers_t on the stack, however the interrupts are nested, says
\* what happened: the vector, the CPU's error code or 0, and where and with
\* which flags and segments the CPU was interrupted.  The CPU pushes an error
\* code for some exceptions only; the stubs of the others must make up for it.
FrameIntact ==
  cpu.eip[1] = "eip" =>
    /\ Len(stack) = FrameSize * Len(saved)
    /\ \A d \in DOMAIN saved :
         LET s == saved[d]
             code == IF s.code = <<>> THEN Word("error_code", 0) ELSE s.code[1]
         IN  SubSeq(stack, FrameSize * (d - 1) + 1, FrameSize * d) =
               <<s.cpu.ds, s.cpu.regs, Word("interrupt_number", s.vector), code,
                 s.cpu.eip, s.cpu.cs, s.cpu.eflags>>

\* When a handler returns the CPU is as it was when it was interrupted: the
\* place, the interrupt flag, the segments and the registers; interrupts and
\* exceptions that came on top of it have left nothing on the stack.
Resumes ==
  [][Len(saved') < Len(saved) =>
       /\ cpu' = saved[1].cpu
       /\ Len(stack') = FrameSize * Len(saved')]_vars

\* Interrupts are enabled only where no handler is under way, and then neither
\* controller has a line in service, which would block all lines below it:
\* also after interrupts of the slave, which need two acknowledgements, and
\* after interrupts that were withdrawn, where an acknowledgement has no line
\* to end.  Console relies on it when it executes a handler in one step.
OneAtATime ==
  InterruptsOn =>
    saved = <<>> /\ \A chip \in DOMAIN pic : pic[chip].isr = {}

Stopped == At("abort") \/ At("hang") \/ At("reset")

\* An interrupt that is requested while interrupts are enabled is taken, or
\* the kernel comes to one of its stops.
Served ==
  \A l \in Lines : (Pending(l) /\ InterruptsOn) ~> (~ Pending(l) \/ Stopped)

\* What scheduler_assembler.s:23 says it loads: the data segment registers
\* select a data segment.
DataSegment == DataWritable

=============================================================================
