------------------------------- MODULE Kernel -------------------------------
(***************************************************************************)
(* The running kernel: kmain's boot sequence and main loop, the interrupt  *)
(* path (stubs, irq_dispatch, pic_eoi), the PIT tick and the keyboard ring *)
(* of module Keyboard, on one CPU with two cascaded 8259s.                 *)
(*                                                                         *)
(* A step is a mainline step, the delivery of an interrupt, the handler,   *)
(* its end-of-interrupt, or a device raising its line.  Devices act at any *)
(* time; the CPU takes a pending interrupt before its next instruction     *)
(* whenever interrupts are enabled.                                        *)
(***************************************************************************)
EXTENDS Keyboard, InterruptFrame

CONSTANTS
    U64,            \* number of values of s_ticks (2^64)
    UptimePeriod,   \* ticks between two uptime lines (100)
    DeviceLines,    \* lines other than 0 and 1 that a device may raise
    DriverLines,    \* lines that some driver masks and unmasks
    Sleeps,         \* arguments with which the loop calls pit_sleep
    SpuriousLines   \* lines that an 8259 may report without a request

ASSUME KernelAssumption ==
    /\ U64 \in Nat /\ UptimePeriod \in Nat \ {0} /\ UptimePeriod + 1 < U64
    /\ DeviceLines \subseteq 3 .. 15
    /\ DriverLines \subseteq 2 .. 15
    /\ Sleeps \subseteq 0 .. U64 - 1
    /\ SpuriousLines \subseteq {7, 15}

Lines   == 0 .. 15
Cascade == 2
NoByte  == -1

VARIABLES
    boot,       \* the next step of kmain's boot sequence
    intr,       \* RFLAGS.IF
    cpu,        \* "main", "handler", "eoi" or "panic"
    regs,       \* the registers
    stack,      \* what an interrupt has pushed
    halted,     \* the CPU sleeps in hlt
    irr, isr,   \* lines latched and lines in service, of both 8259s
    imr,        \* lines masked
    remapped,   \* do the lines have the vectors 32 .. 47?
    gates,      \* the vectors whose gate is present
    handlers,   \* irq_handlers
    s_ticks, last_uptime,
    start, ticks,   \* pit_sleep's locals
    slept,      \* history: the ticks since pit_sleep was called
    obf,        \* the byte in the keyboard controller's output buffer
    early,      \* history: did it arrive before pic_remap?
    paced       \* lines that may be raised before the next mainline step

cpuVars    == <<intr, cpu, regs, stack, halted>>
latchVars  == <<irr, isr>>
picVars    == <<imr, remapped>>
wiringVars == <<gates, handlers>>
sleepVars  == <<start, ticks, slept>>
clockVars  == <<s_ticks, last_uptime, sleepVars>>
byteVars   == <<obf, early>>
kernelVars == <<keyboardVars, boot, cpuVars, latchVars, picVars, wiringVars,
                clockVars, byteVars, paced>>

-----------------------------------------------------------------------------
(* The 8259 pair (external)                                                *)

\* The order in which the 8259s serve lines: the slave sits on line 2.
Rank(l) == IF l < 2 THEN l ELSE IF l >= 8 THEN l - 5 ELSE l + 9

First(S) == CHOOSE l \in S : \A k \in S : Rank(l) <= Rank(k)

\* Latched lines that reach the CPU's INTR pin.
Pending ==
    {l \in irr \ imr : /\ l >= 8 => Cascade \notin imr
                       /\ \A s \in isr : Rank(l) < Rank(s)}

\* A non-specific EOI retires the highest-priority line in service.
Retire(S, chip) ==
    IF S \cap chip = {} THEN S ELSE S \ {First(S \cap chip)}

Interruptible == intr /\ cpu = "main"

\* What the interrupted code has in its registers: values all different.
Mine == [r \in Registers |->
            CHOOSE n \in 1 .. Len(interrupt_frame) : interrupt_frame[n] = r]

\* The firmware's vectors overlap those of the exceptions.
VectorOf(l) ==
    IF remapped THEN IDT_IRQ_BASE + l ELSE IF l < 8 THEN 8 + l ELSE 104 + l

\* Taking line l: the CPU and the stub build the frame.  Without a vector of
\* its own and a gate the CPU ends up in an exception, where it halts.
Enter(l) ==
    /\ stack' = Entered(regs, VectorOf(l), 0)
    /\ cpu' = IF VectorOf(l) \in gates \ 0 .. IDT_EXCEPTION_COUNT - 1
              THEN "handler" ELSE "panic"
    /\ intr' = FALSE
    /\ halted' = FALSE
    /\ UNCHANGED regs

\* The line that irq_dispatch derives from the frame.
irq == Field(stack, "vector") - IDT_IRQ_BASE

Deliver ==
    /\ Interruptible
    /\ Pending # {}
    /\ LET l == First(Pending)
       IN  /\ Enter(l)
           /\ irr' = irr \ {l}
           /\ isr' = isr \cup {l} \cup (IF l >= 8 THEN {Cascade} ELSE {})
    /\ UNCHANGED <<keyboardVars, boot, picVars, wiringVars, clockVars,
                   byteVars, paced>>

\* The request went away before the CPU asked which it was: the 8259 answers
\* line 7 (or 15 through the cascade) with no line of that chip in service.
Spurious(l) ==
    /\ Interruptible
    /\ l \in paced
    /\ l = 15 => Cascade \notin imr
    /\ Enter(l)
    /\ isr' = isr \cup (IF l = 15 THEN {Cascade} ELSE {})
    /\ paced' = paced \ {l}
    /\ UNCHANGED <<keyboardVars, boot, irr, picVars, wiringVars, clockVars,
                   byteVars>>

-----------------------------------------------------------------------------
(* Devices (external)                                                      *)

\* Devices are slow: a line is raised at most once between two mainline
\* steps.
Raise(l) ==
    /\ l \in paced
    /\ irr' = irr \cup {l}
    /\ paced' = paced \ {l}
    /\ UNCHANGED <<keyboardVars, boot, cpuVars, isr, picVars, wiringVars,
                   clockVars>>

PitEdge == Raise(0) /\ UNCHANGED byteVars

\* The controller passes on a byte only once the last one was read.
KeyByte ==
    /\ obf = NoByte
    /\ Raise(1)
    /\ obf' \in PlainKeys
    /\ early' = ~ remapped

OtherEdge == \E l \in DeviceLines : Raise(l) /\ UNCHANGED byteVars

-----------------------------------------------------------------------------
(* The interrupt path: irq_common, irq_dispatch, pic_eoi                   *)

Sleeping == pc \in {"sleep", "sleep_hlt"}

pit_on_tick ==
    /\ s_ticks' = (s_ticks + 1) % U64
    /\ slept' = IF Sleeping /\ slept < U64 - 1 THEN slept + 1 ELSE slept
    /\ UNCHANGED <<keyboardVars, byteVars, last_uptime, start, ticks>>

\* inb(0x60) empties the output buffer; an empty one repeats its last byte,
\* which may be any.
KeyboardInterrupt ==
    /\ \E code \in (IF obf = NoByte THEN PlainKeys ELSE {obf}) :
           keyboard_on_irq(code)
    /\ obf' = NoByte
    /\ early' = FALSE
    /\ UNCHANGED <<loopVars, keyVars, clockVars>>

\* What a C function may leave different (external: the System V ABI).
Scratch == {"rax", "rcx", "rdx", "rsi", "rdi", "r8", "r9", "r10", "r11"}

\* irq_dispatch up to the EOI; a line without a handler just gets the EOI.
\* A vector outside 32 .. 47 is never passed to it: it returns early there.
irq_dispatch ==
    /\ cpu = "handler"
    /\ irq \in Lines
    /\ cpu' = "eoi"
    /\ regs' = [r \in Registers |-> IF r \in Scratch THEN 0 ELSE regs[r]]
    /\ \/ handlers[irq] = "pit" /\ pit_on_tick
       \/ handlers[irq] = "kbd" /\ KeyboardInterrupt
       \/ /\ handlers[irq] = "none"
          /\ UNCHANGED <<keyboardVars, clockVars, byteVars>>
    /\ UNCHANGED <<boot, intr, stack, halted, latchVars, picVars, wiringVars,
                   paced>>

\* Mutant: a line of the slave is acknowledged at the slave only.
pic_eoiOneChip(line) ==
    IF line >= 8 THEN Retire(isr, 8 .. 15) ELSE Retire(isr, 0 .. 7)

\* Mutant: the master is never acknowledged.
pic_eoiSlaveOnly(line) == IF line >= 8 THEN Retire(isr, 8 .. 15) ELSE isr

\* pic_eoi: what stays in service.
pic_eoi(line) ==
    Retire(IF line >= 8 THEN Retire(isr, 8 .. 15) ELSE isr, 0 .. 7)

\* The EOI; irq_common restores the registers, and iretq the interrupted
\* code with its IF.
EndOfInterrupt ==
    /\ cpu = "eoi"
    /\ isr' = pic_eoi(irq)
    /\ cpu' = "main"
    /\ intr' = TRUE
    /\ regs' = Restored(stack)
    /\ stack' = <<>>
    /\ UNCHANGED <<keyboardVars, boot, halted, irr, picVars, wiringVars,
                   clockVars, byteVars, paced>>

-----------------------------------------------------------------------------
(* kmain                                                                   *)

\* A mainline instruction executes: the CPU is awake and nothing is pending.
Mainline ==
    /\ cpu = "main"
    /\ ~ halted
    /\ ~ (intr /\ Pending # {})
    /\ paced' = {0, 1} \cup DeviceLines \cup SpuriousLines

\* The line's bit in the mask of its chip.
pic_mask(l)   == imr' = imr \cup {l}
pic_unmask(l) == imr' = imr \ {l}

idt_set_gate(vectors) == gates' = gates \cup vectors

irq_register_handler(l, handler) ==
    handlers' = [handlers EXCEPT ![l] = handler]

\* Mutant: the timer line is left masked.
BootOrderNoTimer ==
    <<"idt_init", "pic_remap", "idt_install_irqs", "pit_init",
      "keyboard_init", "unmask_keyboard", "sti">>

\* Mutant: interrupts are enabled before the gates are there.
BootOrderEarlySti ==
    <<"idt_init", "pic_remap", "pit_init", "keyboard_init", "unmask_timer",
      "unmask_keyboard", "sti", "idt_install_irqs">>

\* The calls of kmain that touch the state of this module.
BootOrder ==
    <<"idt_init", "pic_remap", "idt_install_irqs", "pit_init",
      "keyboard_init", "unmask_timer", "unmask_keyboard", "sti">>

BootCall(name) == boot \in DOMAIN BootOrder /\ BootOrder[boot] = name

IdtInit ==
    /\ BootCall("idt_init")
    /\ idt_set_gate(0 .. IDT_EXCEPTION_COUNT - 1)
    /\ UNCHANGED <<keyboardVars, intr, latchVars, picVars, handlers, obf>>

\* ICW1 forgets the edges latched so far; the vectors move to 32; everything
\* is masked.
pic_remap ==
    /\ BootCall("pic_remap")
    /\ irr' = {} /\ isr' = {}
    /\ remapped' = TRUE
    /\ imr' = Lines
    /\ UNCHANGED <<keyboardVars, intr, wiringVars, obf>>

idt_install_irqs ==
    /\ BootCall("idt_install_irqs")
    /\ idt_set_gate(IDT_IRQ_BASE .. IDT_IRQ_BASE + IDT_IRQ_COUNT - 1)
    /\ UNCHANGED <<keyboardVars, intr, latchVars, picVars, handlers, obf>>

pit_init ==
    /\ BootCall("pit_init")
    /\ irq_register_handler(0, "pit")
    /\ UNCHANGED <<keyboardVars, intr, latchVars, picVars, gates, obf>>

\* Mutant: the driver empties the controller, but not the latched request.
LeavesByteDrains == obf' = NoByte

\* The driver does not look at the controller.
LeavesByte == UNCHANGED obf

keyboard_init ==
    /\ BootCall("keyboard_init")
    /\ k_head' = 0 /\ k_tail' = 0
    /\ k_shift' = 0 /\ k_caps' = 0 /\ k_e0' = 0
    /\ irq_register_handler(1, "kbd")
    /\ pic_unmask(1)
    /\ LeavesByte
    /\ UNCHANGED <<k_buf, loopVars, keyVars, intr, latchVars, remapped, gates>>

Unmask(name, l) ==
    /\ BootCall(name)
    /\ pic_unmask(l)
    /\ UNCHANGED <<keyboardVars, intr, latchVars, remapped, wiringVars, obf>>

Sti ==
    /\ BootCall("sti")
    /\ intr' = TRUE
    /\ UNCHANGED <<keyboardVars, latchVars, picVars, wiringVars, obf>>

Boot ==
    /\ Mainline
    /\ \/ IdtInit
       \/ pic_remap
       \/ idt_install_irqs
       \/ pit_init
       \/ keyboard_init
       \/ Unmask("unmask_timer", 0)
       \/ Unmask("unmask_keyboard", 1)
       \/ Sti
    /\ boot' = boot + 1
    /\ UNCHANGED <<cpu, regs, stack, halted, clockVars, early>>

Booted == boot > Len(BootOrder)

\* hlt: sleep until an interrupt has been served, then go on at `to`.
Hlt(from, to) ==
    /\ Booted /\ Mainline
    /\ pc = from
    /\ halted' = TRUE
    /\ pc' = to
    /\ UNCHANGED <<irqVars, c, slot, keyVars, boot, intr, cpu, regs, stack,
                   latchVars, picVars, wiringVars, clockVars, byteVars>>

\* Mutant: the comparison is not on the unsigned difference.
StillSleepingNaive == s_ticks < start + ticks

StillSleeping == (s_ticks - start) % U64 < ticks

\* pit_sleep is called instead of hlt.
SleepStart ==
    /\ Booted /\ Mainline
    /\ pc = "hlt"
    /\ ticks' \in Sleeps
    /\ start' = s_ticks
    /\ slept' = 0
    /\ pc' = "sleep"
    /\ UNCHANGED <<irqVars, c, slot, keyVars, boot, cpuVars, latchVars,
                   picVars, wiringVars, s_ticks, last_uptime, byteVars>>

\* The condition of its loop; when it returns its locals are gone.
SleepCheck ==
    /\ Booted /\ Mainline
    /\ pc = "sleep"
    /\ \/ StillSleeping /\ pc' = "sleep_hlt" /\ UNCHANGED sleepVars
       \/ /\ ~ StillSleeping /\ pc' = "uptime"
          /\ start' = 0 /\ ticks' = 0 /\ slept' = 0
    /\ UNCHANGED <<irqVars, c, slot, keyVars, boot, cpuVars, latchVars,
                   picVars, wiringVars, s_ticks, last_uptime, byteVars>>

pit_sleep ==
    \/ SleepStart
    \/ SleepCheck
    \/ Hlt("sleep_hlt", "sleep")

\* Mutant: the comparison is not on the unsigned difference.
UptimeDueNaive(now) == now >= last_uptime + UptimePeriod

UptimeDue(now) == (now - last_uptime) % U64 >= UptimePeriod

\* Read the tick counter; print the uptime if it is due.
Uptime ==
    /\ Booted /\ Mainline
    /\ pc = "uptime"
    /\ last_uptime' = IF UptimeDue(s_ticks) THEN s_ticks ELSE last_uptime
    /\ pc' = "poll"
    /\ UNCHANGED <<irqVars, c, slot, keyVars, boot, cpuVars, latchVars,
                   picVars, wiringVars, s_ticks, sleepVars, byteVars>>

\* keyboard_has_key says no: back to hlt.
NoKey ==
    /\ Booted /\ Mainline
    /\ pc = "poll"
    /\ k_head = k_tail
    /\ pc' = "hlt"
    /\ UNCHANGED <<irqVars, c, slot, keyVars, boot, cpuVars, latchVars,
                   picVars, wiringVars, clockVars, byteVars>>

\* One access of the code that drains the ring.
Drain ==
    /\ Booted /\ Mainline
    /\ Consume
    /\ UNCHANGED <<boot, cpuVars, latchVars, picVars, wiringVars, clockVars,
                   byteVars>>

\* Some later driver opts its line in, or out, between two statements of
\* the loop: there is one thread.
Driver ==
    /\ Booted /\ Mainline
    /\ pc \in {"hlt", "uptime", "poll"}
    /\ \/ \E l \in DriverLines \cap imr : pic_unmask(l)
       \/ \E l \in DriverLines \ imr : pic_mask(l)
    /\ UNCHANGED <<keyboardVars, boot, cpuVars, latchVars, remapped,
                   wiringVars, clockVars, byteVars>>

-----------------------------------------------------------------------------
\* stage 2 enters kmain with interrupts off; the BIOS left its own masks.
KernelInit ==
    /\ RingInit
    /\ pc = "hlt"
    /\ boot = 1
    /\ intr = FALSE /\ cpu = "main" /\ halted = FALSE
    /\ regs = Mine /\ stack = <<>>
    /\ irr = {} /\ isr = {} /\ imr = {} /\ remapped = FALSE
    /\ gates = {} /\ handlers = [l \in Lines |-> "none"]
    /\ s_ticks = 0 /\ last_uptime = 0
    /\ start = 0 /\ ticks = 0 /\ slept = 0
    /\ obf = NoByte /\ early = FALSE
    /\ paced = {0, 1} \cup DeviceLines

Cpu ==
    \/ Boot
    \/ Hlt("hlt", "uptime")
    \/ pit_sleep
    \/ Uptime
    \/ NoKey
    \/ Drain
    \/ Deliver
    \/ irq_dispatch
    \/ EndOfInterrupt

KernelNext ==
    \/ Cpu
    \/ PitEdge
    \/ KeyByte
    \/ OtherEdge
    \/ \E l \in SpuriousLines : Spurious(l)
    \/ Driver

\* The CPU keeps executing and the PIT keeps ticking; no key is ever owed.
KernelSpec ==
    /\ KernelInit /\ [][KernelNext]_kernelVars
    /\ WF_kernelVars(Cpu) /\ WF_kernelVars(PitEdge)

-----------------------------------------------------------------------------
(* Properties                                                              *)

\* Types.
KernelTypeOK ==
    /\ k_head \in Index /\ k_tail \in Index
    /\ pc \in {"hlt", "sleep", "sleep_hlt", "uptime", "poll", "dequeue",
               "take", "advance", "late", "echo"}
    /\ boot \in 1 .. Len(BootOrder) + 1
    /\ intr \in BOOLEAN /\ halted \in BOOLEAN
    /\ cpu \in {"main", "handler", "eoi", "panic"}
    /\ irr \subseteq Lines /\ isr \subseteq Lines /\ imr \subseteq Lines
    /\ {s_ticks, last_uptime, start, ticks, slept} \subseteq 0 .. U64 - 1
    /\ obf \in PlainKeys \cup {NoByte}

\* No interrupt reaches the CPU before its vector, its gate and, if a device
\* raised it, its handler are in place: the order of kmain.c:64-69.
NoStrayInterrupt ==
    /\ cpu # "panic"
    /\ cpu = "handler" /\ irq \in {0, 1} => handlers[irq] # "none"

\* A non-specific EOI always retires the line that was served, spurious
\* interrupts and lines of the slave included: while a handler runs only its
\* own line is in service, and none once it returned.  A line left in
\* service would block itself and everything below it for ever.
InService ==
    /\ cpu = "main" => isr = {}
    /\ cpu \in {"handler", "eoi"} => isr \subseteq {irq} \cup
           (IF irq >= 8 THEN {Cascade} ELSE {})

\* keyboard_on_irq finds a byte in the controller every time it runs, so it
\* never decodes a stale one (keyboard.h:8-10).
NoStaleByte == cpu = "handler" /\ handlers[irq] = "kbd" => obf # NoByte

\* A key that was decoded is printed, although an interrupt between the last
\* keyboard_has_key and hlt leaves it waiting while the CPU sleeps: the next
\* timer tick wakes the loop.
KeysEchoed == Waiting > 0 ~> pc = "echo"

\* A byte of the keyboard is read: nothing masks, blocks or starves line 1.
\* Only a byte that came before pic_remap never is: ICW1 forgets its edge,
\* nobody looks at the controller, and no further byte can come.
BytesRead == Booted /\ obf # NoByte /\ ~ early ~> obf = NoByte

\* The uptime line is printed again and again, also after s_ticks wraps, and
\* although ticks that arrive while the loop runs wake nobody; only keys that
\* never stop can hold the loop up.
UptimePrinted ==
    <>[][obf = NoByte => obf' = NoByte]_kernelVars
        => []<><<last_uptime' # last_uptime>>_kernelVars

\* An interrupt gives the mainline code back exactly the registers, flags
\* and stack it had, whatever the handler did to them (isr.asm:149-154).
Resumed == cpu = "main" => regs = Mine /\ stack = <<>>

\* pit_sleep returns after no less than the ticks asked for, also when the
\* counter wraps meanwhile, and after at most one more: a tick between its
\* comparison and hlt is noticed at the next one (pit.c:88-91).
SleepExact ==
    pc = "sleep" /\ cpu = "main" /\ ~ halted /\ ~ StillSleeping =>
        slept \in ticks .. ticks + 1

\* pit_sleep returns: the timer always wakes its hlt.
SleepReturns == Sleeping ~> ~ Sleeping

=============================================================================
