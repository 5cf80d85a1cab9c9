---------------------------- MODULE KernelProofs ----------------------------
(***************************************************************************)
(* Proofs about the running kernel, for every set of device lines, driver  *)
(* lines and spurious lines, every width of the tick counter, every        *)
(* argument of pit_sleep and every size of the keyboard ring.              *)
(***************************************************************************)
EXTENDS Kernel, KeyboardProofs, InterruptFrameProofs, WellFoundedInduction,
        NaturalsInduction

-----------------------------------------------------------------------------
(* The 8259s                                                               *)

\* Of the lines that ask for service, one comes first.
LEMMA FirstIn ==
    ASSUME NEW S, S \subseteq Lines, S # {}
    PROVE  First(S) \in S
<1> DEFINE R == {ss \in Nat \X Nat : ss[1] < ss[2]}
           T == {Rank(l) : l \in S}
<1>1. \A l \in Lines : Rank(l) \in Nat
    BY DEF Lines, Rank
<1>2. IsWellFoundedOn(R, Nat)
    <2>1. R = OpToRel(<, Nat)
        BY Zenon DEF OpToRel
    <2>2. QED
        BY <2>1, NatLessThanWellFounded, Zenon
<1>3. T \subseteq Nat /\ T # {}
    BY <1>1
<1>4. PICK x \in T : \A y \in T : ~ (<<y, x>> \in R)
    <2> HIDE DEF R, T
    <2>1. QED
        BY <1>2, <1>3, WFMin, Zenon
<1>5. \A y \in T : x <= y
    <2>1. \A y \in T : ~ (y < x)
        BY <1>3, <1>4
    <2>2. QED
        BY <1>3, <2>1
<1>6. \E l \in S : \A k \in S : Rank(l) <= Rank(k)
    BY <1>5
<1>7. QED
    BY <1>6, Zenon DEF First

\* A line alone is the first.
LEMMA FirstAlone == ASSUME NEW l \in Lines PROVE First({l}) = l
<1>1. First({l}) \in {l}
    BY FirstIn
<1>2. QED
    BY <1>1

\* The EOI of a chip with at most one line in service clears the chip.
LEMMA RetireAlone ==
    ASSUME NEW S, NEW chip, NEW l \in Lines, S \cap chip \subseteq {l}
    PROVE  Retire(S, chip) = S \ chip
<1>1. CASE S \cap chip = {}
    BY <1>1 DEF Retire
<1>2. CASE S \cap chip = {l}
    <2>1. Retire(S, chip) = S \ {l}
        BY <1>2, FirstAlone DEF Retire
    <2>2. QED
        BY <1>2, <2>1
<1>3. QED
    BY <1>1, <1>2

\* What is in service while the handler of line l runs.
Served(l) == {l} \cup (IF l >= 8 THEN {Cascade} ELSE {})

\* Its EOI leaves nothing in service.
LEMMA EoiClears ==
    ASSUME NEW l \in Lines, isr \subseteq Served(l)
    PROVE  pic_eoi(l) = {}
<1>1. CASE l >= 8
    <2>1. isr \subseteq {l, 2} /\ l \in 8 .. 15
        BY <1>1 DEF Served, Cascade, Lines
    <2>2. Retire(isr, 8 .. 15) = isr \ 8 .. 15
        BY <2>1, RetireAlone DEF Lines
    <2>3. (isr \ 8 .. 15) \subseteq {2}
        BY <2>1
    <2>4. Retire(isr \ 8 .. 15, 0 .. 7) = (isr \ 8 .. 15) \ 0 .. 7
        <3>1. 2 \in Lines /\ (isr \ 8 .. 15) \cap 0 .. 7 \subseteq {2}
            BY <2>3 DEF Lines
        <3>2. QED
            BY <3>1, RetireAlone
    <2>5. QED
        BY <1>1, <2>2, <2>3, <2>4 DEF pic_eoi
<1>2. CASE ~ (l >= 8)
    <2>1. isr \subseteq {l} /\ l \in 0 .. 7
        BY <1>2 DEF Served, Lines
    <2>2. Retire(isr, 0 .. 7) = isr \ 0 .. 7
        BY <2>1, RetireAlone DEF Lines
    <2>3. QED
        BY <1>2, <2>1, <2>2 DEF pic_eoi
<1>3. QED
    BY <1>1, <1>2

-----------------------------------------------------------------------------
(* The frame of an interrupt of the mainline code                          *)

\* What line l pushes.
FrameOf(l) == Entered(Mine, IDT_IRQ_BASE + l, 0)

\* irq_dispatch finds the line in it, and irq_common the registers.
LEMMA FrameOfLine ==
    ASSUME NEW l \in Lines
    PROVE  /\ Field(FrameOf(l), "vector") - IDT_IRQ_BASE = l
           /\ Restored(FrameOf(l)) = Mine
<1> DEFINE S == {Mine[r] : r \in Registers}
<1>1. Mine \in [Registers -> S]
    <2>1. Mine = [r \in Registers |-> Mine[r]]
        BY DEF Mine
    <2> DEFINE M == Mine
    <2> HIDE DEF M
    <2>2. QED
        BY <2>1
<1> HIDE DEF S
<1>2. Field(FrameOf(l), "vector") = IDT_IRQ_BASE + l
    <2> DEFINE v == IDT_IRQ_BASE + l
    <2> HIDE DEF v
    <2>1. Field(Entered(Mine, v, 0), "vector") = v
        BY <1>1, FrameFields
    <2>2. QED
        BY <2>1 DEF FrameOf, v
<1>3. Restored(FrameOf(l)) = Mine
    BY <1>1, FrameRestored, Zenon DEF FrameOf
<1>4. QED
    BY <1>2, <1>3 DEF IDT_IRQ_BASE, Lines

-----------------------------------------------------------------------------
(* Arithmetic of the tick counter                                          *)

\* The ticks from one reading of the counter to a later one, at most U64 - 1.
Elapsed(now, then) == IF now >= then THEN now - then ELSE now - then + U64

\* The two remainders the PIT driver takes.
LEMMA ClockArithmetic ==
    /\ U64 \in Nat /\ U64 > 2
    /\ \A x \in 0 .. U64 - 1 :
           (x + 1) % U64 = IF x + 1 = U64 THEN 0 ELSE x + 1
    /\ \A x \in 0 .. U64 - 1, y \in 0 .. U64 - 1 :
           (x - y) % U64 = Elapsed(x, y)
<1> DEFINE N == U64
<1>1. N \in Nat /\ N > 2
    BY KernelAssumption
<1>2. \A x \in Int : /\ x \in 0 .. N - 1 => x % N = x
                     /\ x = N => x % N = 0
                     /\ x \in -N .. -1 => x % N = x + N
    <2> HIDE DEF N
    <2> SUFFICES ASSUME NEW x \in Int
                 PROVE  /\ x \in 0 .. N - 1 => x % N = x
                        /\ x = N => x % N = 0
                        /\ x \in -N .. -1 => x % N = x + N
        OBVIOUS
    <2>1. x \in 0 .. N - 1 => x % N = x
        BY <1>1, SMT
    <2>2. x = N => x % N = 0
        BY <1>1, SMT
    <2>3. x \in -N .. -1 => x % N = x + N
        BY <1>1, SMT
    <2>4. QED
        BY <2>1, <2>2, <2>3
<1>3. \A x \in 0 .. N - 1 : (x + 1) % N = IF x + 1 = N THEN 0 ELSE x + 1
    BY <1>1, <1>2, SMT
<1>4. \A x \in 0 .. N - 1, y \in 0 .. N - 1 : (x - y) % N = Elapsed(x, y)
    BY <1>1, <1>2, SMT DEF Elapsed
<1>5. QED
    BY <1>1, <1>3, <1>4

-----------------------------------------------------------------------------
(* The inductive invariant                                                 *)

\* How far the boot sequence has put the wiring in place.
WiringInv ==
    /\ handlers \in [Lines -> {"none", "pit", "kbd"}]
    /\ \A l \in Lines : /\ handlers[l] = "pit" => l = 0
                        /\ handlers[l] = "kbd" => l = 1
    /\ boot > 2 => remapped
    /\ boot > 3 => \A l \in Lines : IDT_IRQ_BASE + l \in gates
    /\ boot > 4 => handlers[0] = "pit"
    /\ boot > 5 => handlers[1] = "kbd"
    /\ boot > 6 => 0 \notin imr

\* Interrupts are on in the mainline code once booted, and in no handler; a
\* handler has the frame of one line, and nothing else is in service.
CpuInv ==
    /\ intr <=> boot = 9 /\ cpu = "main"
    /\ boot < 9 => cpu = "main"
    /\ cpu # "panic"
    /\ cpu = "main" => isr = {} /\ regs = Mine /\ stack = <<>>
    /\ cpu # "main" => \E l \in Lines : stack = FrameOf(l) /\ isr \subseteq Served(l)

\* A request of line 1, latched or served, stands for a byte not yet read,
\* and for one byte there is one request.
ByteInv ==
    /\ 1 \in irr => obf # NoByte
    /\ cpu = "handler" /\ irq = 1 => obf # NoByte /\ 1 \notin irr

KernelInv == KernelTypeOK /\ WiringInv /\ CpuInv /\ ByteInv

\* The state that only the boot sequence, the interrupts, the devices and
\* the drivers touch.
coreVars == <<boot, intr, cpu, regs, stack, irr, isr, imr, remapped, gates,
              handlers, obf>>

\* The boot sequence, call by call.
LEMMA BootCalls ==
    /\ Len(BootOrder) = 8
    /\ BootCall("idt_init") => boot = 1
    /\ BootCall("pic_remap") => boot = 2
    /\ BootCall("idt_install_irqs") => boot = 3
    /\ BootCall("pit_init") => boot = 4
    /\ BootCall("keyboard_init") => boot = 5
    /\ BootCall("unmask_timer") => boot = 6
    /\ BootCall("unmask_keyboard") => boot = 7
    /\ BootCall("sti") => boot = 8
BY DEF BootCall, BootOrder

\* While a handler runs, irq is the line whose frame is on the stack.
LEMMA IrqServed ==
    ASSUME CpuInv, cpu # "main"
    PROVE  irq \in Lines /\ stack = FrameOf(irq) /\ isr \subseteq Served(irq)
<1>1. PICK l \in Lines : stack = FrameOf(l) /\ isr \subseteq Served(l)
    BY DEF CpuInv
<1>2. irq = l
    BY <1>1, FrameOfLine DEF irq
<1>3. QED
    BY <1>1, <1>2

\* Initially.
LEMMA KernelInitInv == KernelInit => KernelInv
<1> SUFFICES ASSUME KernelInit PROVE KernelInv
    OBVIOUS
<1>1. KernelTypeOK
    <2>1. 0 \in Index /\ 0 \in 0 .. U64 - 1 /\ 1 \in 1 .. Len(BootOrder) + 1
        BY KeyboardAssumption, KernelAssumption, BootCalls DEF Index
    <2>2. QED
        BY <2>1 DEF KernelInit, RingInit, KernelTypeOK, Lines
<1>2. WiringInv
    BY DEF KernelInit, WiringInv, Lines
<1>3. CpuInv
    BY DEF KernelInit, CpuInv
<1>4. ByteInv
    BY DEF KernelInit, ByteInv
<1>5. QED
    BY <1>1, <1>2, <1>3, <1>4 DEF KernelInv

\* A step that leaves the core alone.
LEMMA QuietStep ==
    ASSUME KernelInv, UNCHANGED coreVars, KernelTypeOK'
    PROVE  KernelInv'
<1>1. UNCHANGED <<boot, intr, cpu, regs, stack, irr, isr, imr, remapped, gates,
                  handlers, obf>>
    BY DEF coreVars
<1>2. irq' = irq
    BY <1>1 DEF irq
<1>3. WiringInv'
    BY <1>1 DEF KernelInv, WiringInv
<1>4. CpuInv'
    BY <1>1 DEF KernelInv, CpuInv
<1>5. ByteInv'
    BY <1>1, <1>2 DEF KernelInv, ByteInv
<1>6. QED
    BY <1>3, <1>4, <1>5 DEF KernelInv

\* The ring's indices after any access of the consumer or byte of the keyboard.
LEMMA IndicesStay ==
    ASSUME KernelTypeOK,
           Consume \/ \E code \in PlainKeys \cup {obf} : keyboard_on_irq(code)
    PROVE  k_head' \in Index /\ k_tail' \in Index
<1>1. k_head \in Index /\ k_tail \in Index
    BY DEF KernelTypeOK
<1>2. (k_head + 1) % KBD_BUF_SIZE \in Index /\ (k_tail + 1) % KBD_BUF_SIZE \in Index
    BY <1>1, Remainders
<1>3. CASE Consume
    BY <1>1, <1>2, <1>3 DEF Consume, keyboard_has_key, DequeueCheck, LoadChar,
        AdvanceLast, AdvanceFirst, AdvanceTail, NextTail, LateLoad, Echo,
        irqVars, ringVars
<1>4. ASSUME NEW code, keyboard_on_irq(code)
      PROVE  k_head' \in Index /\ k_tail' \in Index
    BY <1>1, <1>2, <1>4 DEF keyboard_on_irq, enqueue, irqVars, ringVars
<1>5. QED
    BY <1>3, <1>4

\* kmain's loop and pit_sleep, one mainline step at a time.
LEMMA LoopKeepsInv ==
    ASSUME KernelInv,
           Hlt("hlt", "uptime") \/ pit_sleep \/ Uptime \/ NoKey \/ Drain
    PROVE  KernelInv'
<1> SUFFICES UNCHANGED coreVars /\ KernelTypeOK'
    BY QuietStep
<1>1. KernelTypeOK
    BY DEF KernelInv
<1>2. 0 \in 0 .. U64 - 1
    BY KernelAssumption
<1>3. ASSUME NEW from, NEW to \in {"uptime", "sleep"}, Hlt(from, to)
      PROVE  UNCHANGED coreVars /\ KernelTypeOK'
    <2>1. /\ UNCHANGED <<k_head, k_tail, boot, intr, cpu, regs, stack, irr, isr,
                         imr, remapped, gates, handlers, s_ticks, last_uptime,
                         start, ticks, slept, obf>>
          /\ halted' = TRUE /\ pc' = to
        BY <1>3 DEF Hlt, irqVars, ringVars, latchVars, picVars, wiringVars,
            clockVars, sleepVars, byteVars
    <2>2. QED
        BY <1>1, <2>1 DEF KernelTypeOK, coreVars
<1>4. CASE SleepStart
    <2>1. /\ UNCHANGED <<k_head, k_tail, boot, intr, cpu, regs, stack, halted, irr,
                         isr, imr, remapped, gates, handlers, s_ticks,
                         last_uptime, obf>>
          /\ start' = s_ticks /\ slept' = 0 /\ pc' = "sleep" /\ ticks' \in Sleeps
        BY <1>4 DEF SleepStart, irqVars, ringVars, cpuVars, latchVars, picVars,
            wiringVars, byteVars
    <2>2. ticks' \in 0 .. U64 - 1
        BY <2>1, KernelAssumption
    <2>3. QED
        BY <1>1, <1>2, <2>1, <2>2 DEF KernelTypeOK, coreVars
<1>5. CASE SleepCheck
    <2>1. /\ UNCHANGED <<k_head, k_tail, boot, intr, cpu, regs, stack, halted, irr,
                         isr, imr, remapped, gates, handlers, s_ticks,
                         last_uptime, obf>>
          /\ pc' \in {"sleep_hlt", "uptime"}
          /\ \/ start' = start /\ ticks' = ticks /\ slept' = slept
             \/ start' = 0 /\ ticks' = 0 /\ slept' = 0
        BY <1>5 DEF SleepCheck, irqVars, ringVars, cpuVars, latchVars, picVars,
            wiringVars, byteVars, sleepVars
    <2>2. QED
        BY <1>1, <1>2, <2>1 DEF KernelTypeOK, coreVars
<1>6. CASE Uptime
    <2>1. /\ UNCHANGED <<k_head, k_tail, boot, intr, cpu, regs, stack, halted, irr,
                         isr, imr, remapped, gates, handlers, s_ticks, start,
                         ticks, slept, obf>>
          /\ pc' = "poll" /\ last_uptime' \in {s_ticks, last_uptime}
        BY <1>6 DEF Uptime, irqVars, ringVars, cpuVars, latchVars, picVars,
            wiringVars, byteVars, sleepVars
    <2>2. QED
        BY <1>1, <2>1 DEF KernelTypeOK, coreVars
<1>7. CASE NoKey
    <2>1. /\ UNCHANGED <<k_head, k_tail, boot, intr, cpu, regs, stack, halted, irr,
                         isr, imr, remapped, gates, handlers, s_ticks,
                         last_uptime, start, ticks, slept, obf>>
          /\ pc' = "hlt"
        BY <1>7 DEF NoKey, irqVars, ringVars, cpuVars, latchVars, picVars,
            wiringVars, byteVars, clockVars, sleepVars
    <2>2. QED
        BY <1>1, <2>1 DEF KernelTypeOK, coreVars
<1>8. CASE Drain
    <2>1. /\ UNCHANGED <<boot, intr, cpu, regs, stack, halted, irr, isr, imr,
                         remapped, gates, handlers, s_ticks, last_uptime, start,
                         ticks, slept, obf>>
          /\ Consume
        BY <1>8 DEF Drain, cpuVars, latchVars, picVars, wiringVars, byteVars,
            clockVars, sleepVars
    <2>2. k_head' \in Index /\ k_tail' \in Index
        BY <1>1, <2>1, IndicesStay
    <2>3. pc' \in {"dequeue", "take", "advance", "late", "echo", "poll"}
        BY <2>1 DEF Consume, keyboard_has_key, DequeueCheck, LoadChar, AdvanceLast,
            AdvanceFirst, AdvanceTail, LateLoad, Echo
    <2>4. QED
        BY <1>1, <2>1, <2>2, <2>3 DEF KernelTypeOK, coreVars
<1>9. QED
    BY <1>3, <1>4, <1>5, <1>6, <1>7, <1>8 DEF pit_sleep

\* The calls of kmain's boot sequence.
LEMMA BootKeepsInv ==
    ASSUME KernelInv, Boot
    PROVE  KernelInv'
<1>1. KernelTypeOK /\ WiringInv /\ CpuInv /\ ByteInv
    BY DEF KernelInv
<1>2. /\ boot' = boot + 1 /\ boot \in 1 .. 8 /\ cpu = "main"
      /\ UNCHANGED <<cpu, regs, stack, halted, s_ticks, last_uptime, start,
                     ticks, slept>>
    BY BootCalls DEF Boot, Mainline, IdtInit, pic_remap, idt_install_irqs,
        pit_init, keyboard_init, Unmask, Sti, clockVars, sleepVars
<1>3. /\ UNCHANGED pc /\ UNCHANGED obf
      /\ k_head' \in Index /\ k_tail' \in Index
      /\ irr' \subseteq irr /\ isr' = {} /\ imr' \subseteq Lines
    <2>1. isr = {} /\ imr \subseteq Lines
        BY <1>1, <1>2 DEF CpuInv, KernelTypeOK
    <2>2. 0 \in Index /\ k_head \in Index /\ k_tail \in Index
        BY <1>1, KeyboardAssumption DEF KernelTypeOK, Index
    <2>3. CASE keyboard_init
        BY <2>1, <2>2, <2>3 DEF keyboard_init, LeavesByte, pic_unmask, loopVars,
            latchVars
    <2>4. CASE pic_remap
        BY <2>1, <2>2, <2>4 DEF pic_remap, keyboardVars, irqVars, ringVars, loopVars
    <2>5. CASE IdtInit \/ idt_install_irqs \/ pit_init
        BY <2>1, <2>2, <2>5 DEF IdtInit, idt_install_irqs, pit_init, keyboardVars,
            irqVars, ringVars, loopVars, latchVars, picVars
    <2>6. CASE Unmask("unmask_timer", 0) \/ Unmask("unmask_keyboard", 1) \/ Sti
        BY <2>1, <2>2, <2>6 DEF Unmask, pic_unmask, Sti, keyboardVars, irqVars,
            ringVars, loopVars, latchVars, picVars
    <2>7. QED
        BY <2>3, <2>4, <2>5, <2>6 DEF Boot
<1>4. intr' \in BOOLEAN /\ (intr' <=> boot = 8)
    <2>1. intr = FALSE
        BY <1>1, <1>2 DEF CpuInv, KernelTypeOK
    <2>2. CASE Sti
        BY <2>2, BootCalls DEF Sti
    <2>3. CASE ~ Sti
        <3>1. intr' = intr
            BY <2>3 DEF Boot, IdtInit, pic_remap, idt_install_irqs, pit_init,
                keyboard_init, Unmask
        <3>2. boot # 8
            BY <2>3, BootCalls DEF Boot, IdtInit, pic_remap, idt_install_irqs,
                pit_init, keyboard_init, Unmask
        <3>3. QED
            BY <2>1, <3>1, <3>2
    <2>4. QED
        BY <2>2, <2>3
<1>5. KernelTypeOK'
    BY <1>1, <1>2, <1>3, <1>4, BootCalls DEF KernelTypeOK
<1>6. CpuInv'
    BY <1>1, <1>2, <1>3, <1>4 DEF CpuInv
<1>7. ByteInv'
    BY <1>1, <1>2, <1>3 DEF ByteInv
<1>8. WiringInv'
    <2>1. ASSUME NEW l \in {0, 1}, NEW h \in {"pit", "kbd"},
                 handlers' = [handlers EXCEPT ![l] = h]
          PROVE  /\ handlers' \in [Lines -> {"none", "pit", "kbd"}]
                 /\ handlers'[l] = h
                 /\ \A k \in Lines : k # l => handlers'[k] = handlers[k]
        BY <1>1, <2>1 DEF WiringInv, Lines
    <2>2. CASE IdtInit
        BY <1>1, <1>2, <2>2, BootCalls DEF WiringInv, IdtInit, idt_set_gate, picVars
    <2>3. CASE pic_remap
        BY <1>1, <1>2, <2>3, BootCalls DEF WiringInv, pic_remap, wiringVars
    <2>4. CASE idt_install_irqs
        <3>1. \A l \in Lines : IDT_IRQ_BASE + l \in gates'
            BY <2>4 DEF idt_install_irqs, idt_set_gate, Lines, IDT_IRQ_BASE,
                IDT_IRQ_COUNT
        <3>2. QED
            BY <1>1, <1>2, <2>4, <3>1, BootCalls DEF WiringInv, idt_install_irqs,
                picVars
    <2>5. CASE pit_init
        <3>1. handlers' = [handlers EXCEPT ![0] = "pit"]
            BY <2>5 DEF pit_init, irq_register_handler
        <3>2. boot = 4 /\ UNCHANGED <<gates, imr, remapped>>
            BY <2>5, BootCalls DEF pit_init, picVars
        <3>3. QED
            BY <1>1, <1>2, <2>1, <3>1, <3>2 DEF WiringInv, Lines
    <2>6. CASE keyboard_init
        <3>1. handlers' = [handlers EXCEPT ![1] = "kbd"]
            BY <2>6 DEF keyboard_init, irq_register_handler
        <3>2. boot = 5 /\ UNCHANGED <<gates, remapped>>
            BY <2>6, BootCalls DEF keyboard_init
        <3>3. QED
            BY <1>1, <1>2, <2>1, <3>1, <3>2 DEF WiringInv, Lines
    <2>7. CASE Unmask("unmask_timer", 0)
        BY <1>1, <1>2, <2>7, BootCalls DEF WiringInv, Unmask, pic_unmask, wiringVars
    <2>8. CASE Unmask("unmask_keyboard", 1)
        BY <1>1, <1>2, <2>8, BootCalls DEF WiringInv, Unmask, pic_unmask, wiringVars
    <2>9. CASE Sti
        BY <1>1, <1>2, <2>9, BootCalls DEF WiringInv, Sti, wiringVars, picVars
    <2>10. QED
        BY <2>2, <2>3, <2>4, <2>5, <2>6, <2>7, <2>8, <2>9 DEF Boot
<1>9. QED
    BY <1>5, <1>6, <1>7, <1>8 DEF KernelInv

\* Entering the handler of line l, with what is then in service.
LEMMA EnterKeepsInv ==
    ASSUME KernelInv, Interruptible, NEW l \in Lines, Enter(l),
           irr' \subseteq irr, isr' \subseteq Served(l),
           l = 1 => 1 \in irr /\ 1 \notin irr',
           UNCHANGED <<k_head, k_tail, pc, boot, imr, remapped, gates, handlers,
                       s_ticks, last_uptime, start, ticks, slept, obf>>
    PROVE  KernelInv' /\ cpu' = "handler" /\ irq' = l
<1>1. KernelTypeOK /\ WiringInv /\ CpuInv /\ ByteInv
    BY DEF KernelInv
<1>2. cpu = "main" /\ boot = 9 /\ isr = {} /\ regs = Mine
    BY <1>1 DEF Interruptible, CpuInv
<1>3. VectorOf(l) = IDT_IRQ_BASE + l
    BY <1>1, <1>2 DEF VectorOf, WiringInv
<1>4. VectorOf(l) \in gates \ 0 .. IDT_EXCEPTION_COUNT - 1
    BY <1>1, <1>2, <1>3 DEF WiringInv, Lines, IDT_IRQ_BASE, IDT_EXCEPTION_COUNT
<1>5. /\ cpu' = "handler" /\ stack' = FrameOf(l) /\ intr' = FALSE
      /\ halted' = FALSE
    BY <1>2, <1>3, <1>4 DEF Enter, FrameOf
<1>6. irq' = l
    BY <1>5, FrameOfLine DEF irq
<1>7. KernelTypeOK'
    <2>1. Served(l) \subseteq Lines
        BY DEF Served, Lines, Cascade
    <2>2. QED
        BY <1>1, <1>5, <2>1 DEF KernelTypeOK
<1>8. WiringInv'
    BY <1>1 DEF WiringInv
<1>9. CpuInv'
    BY <1>2, <1>5 DEF CpuInv
<1>10. ByteInv'
    BY <1>1, <1>6 DEF ByteInv
<1>11. QED
    BY <1>5, <1>6, <1>7, <1>8, <1>9, <1>10 DEF KernelInv

\* A latched line reaches the CPU.
LEMMA DeliverKeepsInv ==
    ASSUME KernelInv, Deliver
    PROVE  KernelInv' /\ cpu' = "handler" /\ irq' \in irr /\ irr' = irr \ {irq'}
<1> DEFINE l == First(Pending)
<1>1. irr \subseteq Lines /\ isr = {}
    BY DEF KernelInv, KernelTypeOK, Deliver, Interruptible, CpuInv
<1>2. l \in Pending
    <2>1. Pending \subseteq Lines /\ Pending # {}
        BY <1>1 DEF Pending, Deliver
    <2>2. QED
        BY <2>1, FirstIn
<1>3. l \in irr /\ l \in Lines
    BY <1>1, <1>2 DEF Pending
<1>4. /\ Interruptible /\ Enter(l) /\ irr' = irr \ {l}
      /\ isr' = isr \cup {l} \cup (IF l >= 8 THEN {Cascade} ELSE {})
      /\ UNCHANGED <<k_head, k_tail, pc, boot, imr, remapped, gates, handlers,
                     s_ticks, last_uptime, start, ticks, slept, obf>>
    BY DEF Deliver, keyboardVars, irqVars, ringVars, loopVars, picVars,
        wiringVars, clockVars, sleepVars, byteVars
<1> HIDE DEF l
<1>5. isr' \subseteq Served(l)
    BY <1>1, <1>4 DEF Served
<1>6. QED
    BY <1>3, <1>4, <1>5, EnterKeepsInv

\* A spurious request: nothing of its own chip is in service.
LEMMA SpuriousKeepsInv ==
    ASSUME KernelInv, NEW l \in SpuriousLines, Spurious(l)
    PROVE  KernelInv' /\ cpu' = "handler" /\ irq' \in {7, 15}
<1>1. l \in {7, 15}
    BY KernelAssumption
<1>2. isr = {}
    BY DEF KernelInv, Spurious, Interruptible, CpuInv
<1>3. /\ Interruptible /\ Enter(l) /\ irr' = irr
      /\ isr' \subseteq Served(l)
      /\ UNCHANGED <<k_head, k_tail, pc, boot, imr, remapped, gates, handlers,
                     s_ticks, last_uptime, start, ticks, slept, obf>>
    BY <1>1, <1>2 DEF Spurious, Served, Cascade, keyboardVars, irqVars, ringVars,
        loopVars, picVars, wiringVars, clockVars, sleepVars, byteVars
<1>4. QED
    BY <1>1, <1>3, EnterKeepsInv DEF Lines

\* irq_dispatch up to the EOI: the keyboard's handler takes the byte that
\* its request stands for.
LEMMA DispatchKeepsInv ==
    ASSUME KernelInv, irq_dispatch
    PROVE  KernelInv'
<1>1. KernelTypeOK /\ WiringInv /\ CpuInv /\ ByteInv
    BY DEF KernelInv
<1>2. /\ cpu = "handler" /\ cpu' = "eoi" /\ irq \in Lines
      /\ UNCHANGED <<boot, intr, stack, halted, irr, isr, imr, remapped, gates,
                     handlers>>
    BY DEF irq_dispatch, latchVars, picVars, wiringVars
<1>3. /\ k_head' \in Index /\ k_tail' \in Index /\ pc' = pc
      /\ {s_ticks', last_uptime', start', ticks', slept'} \subseteq 0 .. U64 - 1
      /\ obf' \in {obf, NoByte}
      /\ obf' # obf => irq = 1
    <2>1. CASE handlers[irq] = "pit" /\ pit_on_tick
        <3>1. s_ticks' \in 0 .. U64 - 1
            <4>1. /\ s_ticks \in 0 .. U64 - 1 /\ U64 \in Nat
                  /\ s_ticks' = (s_ticks + 1) % U64
                BY <1>1, <2>1, ClockArithmetic DEF pit_on_tick, KernelTypeOK
            <4>2. s_ticks' = IF s_ticks + 1 = U64 THEN 0 ELSE s_ticks + 1
                BY <4>1, ClockArithmetic
            <4>3. QED
                BY <4>1, <4>2
        <3>2. slept' \in 0 .. U64 - 1
            <4>1. /\ slept \in 0 .. U64 - 1 /\ U64 \in Nat
                  /\ slept' = slept \/ (slept < U64 - 1 /\ slept' = slept + 1)
                BY <1>1, <2>1, ClockArithmetic DEF pit_on_tick, KernelTypeOK
            <4>2. QED
                BY <4>1
        <3>3. UNCHANGED <<k_head, k_tail, pc, last_uptime, start, ticks, obf>>
            BY <2>1 DEF pit_on_tick, keyboardVars, irqVars, ringVars, loopVars,
                byteVars
        <3>4. QED
            BY <1>1, <3>1, <3>2, <3>3 DEF KernelTypeOK
    <2>2. CASE handlers[irq] = "kbd" /\ KeyboardInterrupt
        <3>1. irq = 1
            BY <1>1, <1>2, <2>2 DEF WiringInv
        <3>2. k_head' \in Index /\ k_tail' \in Index
            BY <1>1, <2>2, IndicesStay DEF KeyboardInterrupt
        <3>3. UNCHANGED <<pc, s_ticks, last_uptime, start, ticks, slept>>
              /\ obf' = NoByte
            BY <2>2 DEF KeyboardInterrupt, loopVars, clockVars, sleepVars
        <3>4. QED
            BY <1>1, <3>1, <3>2, <3>3 DEF KernelTypeOK
    <2>3. CASE handlers[irq] = "none" /\ UNCHANGED <<keyboardVars, clockVars, byteVars>>
        <3>1. UNCHANGED <<k_head, k_tail, pc, s_ticks, last_uptime, start, ticks,
                          slept, obf>>
            BY <2>3 DEF keyboardVars, irqVars, ringVars, loopVars, clockVars,
                sleepVars, byteVars
        <3>2. QED
            BY <1>1, <3>1 DEF KernelTypeOK
    <2>4. QED
        BY <2>1, <2>2, <2>3 DEF irq_dispatch
<1>4. KernelTypeOK'
    BY <1>1, <1>2, <1>3 DEF KernelTypeOK
<1>5. WiringInv'
    BY <1>1, <1>2 DEF WiringInv
<1>6. CpuInv'
    BY <1>1, <1>2 DEF CpuInv
<1>7. ByteInv'
    BY <1>1, <1>2, <1>3 DEF ByteInv
<1>8. QED
    BY <1>4, <1>5, <1>6, <1>7 DEF KernelInv

\* The EOI, the pops and iretq.
LEMMA EoiKeepsInv ==
    ASSUME KernelInv, EndOfInterrupt
    PROVE  KernelInv'
<1>1. KernelTypeOK /\ WiringInv /\ CpuInv /\ ByteInv
    BY DEF KernelInv
<1>2. /\ cpu = "eoi" /\ cpu' = "main" /\ intr' = TRUE /\ stack' = <<>>
      /\ isr' = pic_eoi(irq) /\ regs' = Restored(stack)
      /\ UNCHANGED <<k_head, k_tail, pc, boot, halted, irr, imr, remapped, gates,
                     handlers, s_ticks, last_uptime, start, ticks, slept, obf>>
    BY DEF EndOfInterrupt, keyboardVars, irqVars, ringVars, loopVars, picVars,
        wiringVars, clockVars, sleepVars, byteVars
<1>3. irq \in Lines /\ stack = FrameOf(irq) /\ isr \subseteq Served(irq)
    BY <1>1, <1>2, IrqServed
<1>4. isr' = {} /\ regs' = Mine
    <2>1. pic_eoi(irq) = {}
        BY <1>3, EoiClears
    <2>2. Restored(FrameOf(irq)) = Mine
        BY <1>3, FrameOfLine
    <2>3. QED
        BY <1>2, <1>3, <2>1, <2>2
<1>5. boot = 9
    BY <1>1, <1>2, BootCalls DEF CpuInv, KernelTypeOK
<1>6. KernelTypeOK'
    BY <1>1, <1>2, <1>4 DEF KernelTypeOK
<1>7. WiringInv'
    BY <1>1, <1>2 DEF WiringInv
<1>8. CpuInv'
    BY <1>2, <1>4, <1>5 DEF CpuInv
<1>9. ByteInv'
    BY <1>1, <1>2 DEF ByteInv
<1>10. QED
    BY <1>6, <1>7, <1>8, <1>9 DEF KernelInv

\* A device raises its line; only the keyboard raises line 1, with a byte.
LEMMA DeviceKeepsInv ==
    ASSUME KernelInv, PitEdge \/ KeyByte \/ OtherEdge
    PROVE  KernelInv'
<1>1. KernelTypeOK /\ WiringInv /\ CpuInv /\ ByteInv
    BY DEF KernelInv
<1>2. PICK l \in Lines : Raise(l) /\ \/ l # 1 /\ obf' = obf
                                     \/ /\ l = 1 /\ obf = NoByte
                                        /\ obf' \in PlainKeys
    <2>1. \A l \in DeviceLines : l \in Lines /\ l # 1
        BY KernelAssumption DEF Lines
    <2>2. 0 \in Lines /\ 1 \in Lines
        BY DEF Lines
    <2>3. CASE PitEdge
        BY <2>2, <2>3 DEF PitEdge, byteVars
    <2>4. CASE KeyByte
        BY <2>2, <2>4 DEF KeyByte
    <2>5. CASE OtherEdge
        BY <2>1, <2>5 DEF OtherEdge, byteVars
    <2>6. QED
        BY <2>3, <2>4, <2>5
<1>3. /\ irr' = irr \cup {l}
      /\ UNCHANGED <<k_head, k_tail, pc, boot, intr, cpu, regs, stack, halted, isr,
                     imr, remapped, gates, handlers, s_ticks, last_uptime, start,
                     ticks, slept>>
    BY <1>2 DEF Raise, keyboardVars, irqVars, ringVars, loopVars, cpuVars, picVars,
        wiringVars, clockVars, sleepVars
<1>4. irq' = irq
    BY <1>3 DEF irq
<1>5. NoByte \notin PlainKeys
    BY KeyboardAssumption DEF NoByte
<1>6. KernelTypeOK'
    BY <1>1, <1>2, <1>3 DEF KernelTypeOK
<1>7. WiringInv'
    BY <1>1, <1>3 DEF WiringInv
<1>8. CpuInv'
    BY <1>1, <1>3 DEF CpuInv
<1>9. ByteInv'
    BY <1>1, <1>2, <1>3, <1>4, <1>5 DEF ByteInv
<1>10. QED
    BY <1>6, <1>7, <1>8, <1>9 DEF KernelInv

\* A driver masks or unmasks its line, which is never the timer's.
LEMMA DriverKeepsInv ==
    ASSUME KernelInv, Driver
    PROVE  KernelInv'
<1>1. KernelTypeOK /\ WiringInv /\ CpuInv /\ ByteInv
    BY DEF KernelInv
<1>2. UNCHANGED <<k_head, k_tail, pc, boot, intr, cpu, regs, stack, halted, irr,
                  isr, remapped, gates, handlers, s_ticks, last_uptime, start,
                  ticks, slept, obf>>
    BY DEF Driver, keyboardVars, irqVars, ringVars, loopVars, cpuVars, latchVars,
        wiringVars, clockVars, sleepVars, byteVars
<1>3. imr' \subseteq Lines /\ (0 \notin imr => 0 \notin imr')
    <2>1. imr \subseteq Lines /\ \A l \in DriverLines : l \in Lines /\ l # 0
        BY <1>1, KernelAssumption DEF KernelTypeOK, Lines
    <2>2. PICK l \in DriverLines : imr' = imr \ {l} \/ imr' = imr \cup {l}
        BY DEF Driver, pic_mask, pic_unmask
    <2>3. QED
        BY <2>1, <2>2
<1>4. irq' = irq
    BY <1>2 DEF irq
<1>5. KernelTypeOK'
    BY <1>1, <1>2, <1>3 DEF KernelTypeOK
<1>6. WiringInv'
    BY <1>1, <1>2, <1>3 DEF WiringInv
<1>7. CpuInv'
    BY <1>1, <1>2 DEF CpuInv
<1>8. ByteInv'
    BY <1>1, <1>2, <1>4 DEF ByteInv
<1>9. QED
    BY <1>5, <1>6, <1>7, <1>8 DEF KernelInv

\* Every step keeps the invariant.
LEMMA KernelNextInv == KernelInv /\ [KernelNext]_kernelVars => KernelInv'
<1> SUFFICES ASSUME KernelInv, [KernelNext]_kernelVars PROVE KernelInv'
    OBVIOUS
<1>1. CASE UNCHANGED kernelVars
    <2>1. UNCHANGED coreVars /\ UNCHANGED <<k_head, k_tail, pc, halted, s_ticks,
              last_uptime, start, ticks, slept>>
        BY <1>1 DEF kernelVars, coreVars, keyboardVars, irqVars, ringVars, loopVars,
            cpuVars, latchVars, picVars, wiringVars, clockVars, sleepVars, byteVars
    <2>2. KernelTypeOK'
        BY <2>1 DEF KernelInv, KernelTypeOK, coreVars
    <2>3. QED
        BY <2>1, <2>2, QuietStep
<1>2. CASE Cpu
    BY <1>2, BootKeepsInv, LoopKeepsInv, DeliverKeepsInv, DispatchKeepsInv,
        EoiKeepsInv DEF Cpu
<1>3. CASE \E l \in SpuriousLines : Spurious(l)
    BY <1>3, SpuriousKeepsInv
<1>4. QED
    BY <1>1, <1>2, <1>3, DeviceKeepsInv, DriverKeepsInv DEF KernelNext

\* So it is an invariant of the kernel.
LEMMA KernelInvHolds == KernelSpec => []KernelInv
BY KernelInitInv, KernelNextInv, PTL DEF KernelSpec

\* Types, with the ring's indices and the tick counter in range.
THEOREM KernelTypes == KernelSpec => []KernelTypeOK
<1>1. KernelInv => KernelTypeOK
    BY DEF KernelInv
<1>2. QED
    BY <1>1, KernelInvHolds, PTL

\* No interrupt finds its gate, its vector or the handler of its line
\* missing, whatever lines devices raise during the boot and after it.
THEOREM KernelNoStrayInterrupt == KernelSpec => []NoStrayInterrupt
<1>1. KernelInv => NoStrayInterrupt
    <2> SUFFICES ASSUME KernelInv PROVE NoStrayInterrupt
        OBVIOUS
    <2>1. boot \in 1 .. 9 /\ WiringInv /\ CpuInv
        BY BootCalls DEF KernelInv, KernelTypeOK
    <2>2. cpu = "handler" => boot = 9
        BY <2>1 DEF CpuInv
    <2>3. cpu = "handler" /\ irq \in {0, 1} => handlers[irq] # "none"
        BY <2>1, <2>2 DEF WiringInv
    <2>4. QED
        BY <2>1, <2>3 DEF NoStrayInterrupt, CpuInv
<1>2. QED
    BY <1>1, KernelInvHolds, PTL

\* A non-specific EOI retires exactly the line that was served, for every
\* set of lines of both chips and with spurious requests.
THEOREM KernelInService == KernelSpec => []InService
<1>1. KernelInv => InService
    <2> SUFFICES ASSUME KernelInv PROVE InService
        OBVIOUS
    <2>1. CpuInv
        BY DEF KernelInv
    <2>2. cpu = "main" => isr = {}
        BY <2>1 DEF CpuInv
    <2>3. cpu \in {"handler", "eoi"} => isr \subseteq Served(irq)
        BY <2>1, IrqServed
    <2>4. QED
        BY <2>2, <2>3 DEF InService, Served
<1>2. QED
    BY <1>1, KernelInvHolds, PTL

\* The keyboard handler never reads the controller when it holds no byte.
THEOREM KernelNoStaleByte == KernelSpec => []NoStaleByte
<1>1. KernelInv => NoStaleByte
    <2> SUFFICES ASSUME KernelInv, cpu = "handler", handlers[irq] = "kbd"
                 PROVE  obf # NoByte
        BY DEF NoStaleByte
    <2>1. irq \in Lines
        BY IrqServed DEF KernelInv
    <2>2. irq = 1
        BY <2>1 DEF KernelInv, WiringInv
    <2>3. QED
        BY <2>2 DEF KernelInv, ByteInv
<1>2. QED
    BY <1>1, KernelInvHolds, PTL

\* The mainline code never notices an interrupt in its registers or stack.
THEOREM KernelResumed == KernelSpec => []Resumed
<1>1. KernelInv => Resumed
    BY DEF KernelInv, CpuInv, Resumed
<1>2. QED
    BY <1>1, KernelInvHolds, PTL

-----------------------------------------------------------------------------
(* pit_sleep                                                               *)

One(p) == IF p THEN 1 ELSE 0

\* The ticks that can still be counted before the next mainline step: one
\* the PIT may raise, one latched and one whose handler is running.
Coming == One(0 \in paced) + One(0 \in irr) + One(cpu = "handler" /\ irq = 0)

\* slept counts the ticks since the call, and before each comparison at most
\* one tick more than asked for can have been counted.  A sleep of U64 - 2
\* ticks or more is bounded by the width of the counter alone.
SleepInv ==
    /\ Sleeping => boot = 9
    /\ Sleeping /\ slept < U64 - 1 => Elapsed(s_ticks, start) = slept
    /\ pc = "sleep_hlt" /\ ticks < U64 - 2 => slept + Coming <= ticks
    /\ pc = "sleep" /\ ticks < U64 - 2 => slept + Coming <= ticks + 1

\* Coming is a small number.
LEMMA ComingNat == Coming \in 0 .. 3 /\ Coming' \in 0 .. 3
BY DEF Coming, One

\* A mainline step of the booted kernel finds no tick under way, and lets
\* the PIT raise one more.
LEMMA MainlineComing ==
    ASSUME KernelInv, Mainline, boot = 9, UNCHANGED <<cpu, irr, stack>>
    PROVE  0 \notin irr /\ Coming = One(0 \in paced) /\ Coming' = 1
<1>1. cpu = "main" /\ intr /\ isr = {} /\ 0 \notin imr
    BY DEF KernelInv, CpuInv, WiringInv, Mainline
<1>2. Pending = {}
    BY <1>1 DEF Mainline
<1>3. 0 \notin irr
    <2>1. ~ (0 >= 8)
        OBVIOUS
    <2>2. QED
        BY <1>1, <1>2, <2>1 DEF Pending
<1>4. 0 \in paced'
    BY DEF Mainline
<1>5. QED
    BY <1>1, <1>3, <1>4 DEF Coming, One

\* A step in which no tick is counted and none comes into reach.
LEMMA SleepsOn ==
    ASSUME SleepInv, KernelInv, UNCHANGED <<pc, boot, s_ticks, start, ticks, slept>>,
           Coming' <= Coming
    PROVE  SleepInv'
<1>1. slept \in 0 .. U64 - 1 /\ ticks \in 0 .. U64 - 1 /\ U64 \in Nat
    BY ClockArithmetic DEF KernelInv, KernelTypeOK
<1>2. Sleeping' = Sleeping
    BY DEF Sleeping
<1>3. Elapsed(s_ticks, start)' = Elapsed(s_ticks, start)
    BY DEF Elapsed
<1> DEFINE now == Coming
           next == Coming'
<1>a. now \in 0 .. 3 /\ next \in 0 .. 3 /\ next <= now
    BY ComingNat
<1> HIDE DEF now, next
<1>b. ASSUME NEW x \in 0 .. U64, slept + now <= x PROVE slept + next <= x
    BY <1>1, <1>a, <1>b
<1>4. pc = "sleep_hlt" /\ ticks < U64 - 2 => slept + Coming' <= ticks
    <2>1. ticks \in 0 .. U64
        BY <1>1
    <2>2. QED
        BY <1>b, <2>1 DEF SleepInv, now, next
<1>5. pc = "sleep" /\ ticks < U64 - 2 => slept + Coming' <= ticks + 1
    <2>1. ticks + 1 \in 0 .. U64
        BY <1>1
    <2>2. QED
        BY <1>b, <2>1 DEF SleepInv, now, next
<1>6. QED
    BY <1>2, <1>3, <1>4, <1>5 DEF SleepInv

\* A step of an interrupt or a device other than the tick.
LEMMA SleepsThrough ==
    ASSUME SleepInv, KernelInv,
           \/ Deliver
           \/ \E l \in SpuriousLines : Spurious(l)
           \/ EndOfInterrupt
           \/ PitEdge \/ KeyByte \/ OtherEdge
           \/ irq_dispatch /\ handlers[irq] # "pit"
    PROVE  SleepInv'
<1>1. UNCHANGED <<pc, boot, s_ticks, start, ticks, slept>>
    BY DEF Deliver, Spurious, EndOfInterrupt, PitEdge, KeyByte, OtherEdge, Raise,
        irq_dispatch, KeyboardInterrupt, keyboardVars, loopVars, clockVars, sleepVars
<1>2. Coming' <= Coming
    <2>1. CASE Deliver
        <3>1. /\ cpu' = "handler" /\ irq' \in irr /\ irr' = irr \ {irq'}
              /\ cpu = "main" /\ paced' = paced
            BY <2>1, DeliverKeepsInv DEF Deliver, Interruptible
        <3>2. QED
            BY <3>1 DEF Coming, One
    <2>2. CASE \E l \in SpuriousLines : Spurious(l)
        <3>1. PICK l \in SpuriousLines : Spurious(l)
            BY <2>2
        <3>2. /\ irq' \in {7, 15} /\ irr' = irr /\ paced' = paced \ {l}
            BY <3>1, SpuriousKeepsInv DEF Spurious
        <3>3. QED
            BY <3>2 DEF Coming, One
    <2>3. CASE EndOfInterrupt
        <3>1. cpu' = "main" /\ irr' = irr /\ paced' = paced
            BY <2>3 DEF EndOfInterrupt
        <3>2. QED
            BY <3>1 DEF Coming, One
    <2>4. CASE PitEdge \/ KeyByte \/ OtherEdge
        <3>1. PICK l : Raise(l)
            BY <2>4 DEF PitEdge, KeyByte, OtherEdge
        <3>2. /\ l \in paced /\ irr' = irr \cup {l} /\ paced' = paced \ {l}
              /\ UNCHANGED <<cpu, stack>>
            BY <3>1 DEF Raise, cpuVars
        <3>3. irq' = irq
            BY <3>2 DEF irq
        <3>4. QED
            BY <3>2, <3>3 DEF Coming, One
    <2>5. CASE irq_dispatch
        <3>1. cpu' = "eoi" /\ irr' = irr /\ paced' = paced
            BY <2>5 DEF irq_dispatch, latchVars
        <3>2. QED
            BY <3>1 DEF Coming, One
    <2>6. QED
        BY <2>1, <2>2, <2>3, <2>4, <2>5
<1>3. QED
    BY <1>1, <1>2, SleepsOn

\* The tick: one less to come, one more counted.
LEMMA SleepsTick ==
    ASSUME SleepInv, KernelInv, irq_dispatch, handlers[irq] = "pit"
    PROVE  SleepInv'
<1>1. /\ slept \in 0 .. U64 - 1 /\ ticks \in 0 .. U64 - 1 /\ U64 \in Nat /\ U64 > 2
      /\ start \in 0 .. U64 - 1 /\ s_ticks \in 0 .. U64 - 1
    BY ClockArithmetic DEF KernelInv, KernelTypeOK
<1>2. pit_on_tick /\ cpu = "handler" /\ cpu' = "eoi" /\ irr' = irr /\ paced' = paced
      /\ boot' = boot
    BY DEF irq_dispatch, latchVars
<1>3. irq = 0
    BY DEF irq_dispatch, KernelInv, WiringInv
<1>4. Coming' = Coming - 1
    BY <1>2, <1>3 DEF Coming, One
<1>5. /\ UNCHANGED <<pc, start, ticks>>
      /\ s_ticks' = (s_ticks + 1) % U64
      /\ slept' = IF Sleeping /\ slept < U64 - 1 THEN slept + 1 ELSE slept
    BY <1>2 DEF pit_on_tick, keyboardVars, loopVars
<1>6. s_ticks' = IF s_ticks + 1 = U64 THEN 0 ELSE s_ticks + 1
    BY <1>1, <1>5, ClockArithmetic
<1>7. Sleeping /\ slept' < U64 - 1 => Elapsed(s_ticks', start) = slept'
    BY <1>1, <1>5, <1>6 DEF SleepInv, Elapsed
<1>8. pc = "sleep_hlt" /\ ticks < U64 - 2 => slept' + Coming' <= ticks
    BY <1>1, <1>4, <1>5, ComingNat DEF SleepInv, Sleeping
<1>9. pc = "sleep" /\ ticks < U64 - 2 => slept' + Coming' <= ticks + 1
    BY <1>1, <1>4, <1>5, ComingNat DEF SleepInv, Sleeping
<1>10. QED
    BY <1>2, <1>5, <1>7, <1>8, <1>9 DEF SleepInv, Sleeping

\* The steps of pit_sleep itself.
LEMMA SleepsCheck ==
    ASSUME SleepInv, KernelInv, pit_sleep
    PROVE  SleepInv'
<1>1. /\ slept \in 0 .. U64 - 1 /\ ticks \in 0 .. U64 - 1 /\ U64 \in Nat /\ U64 > 2
      /\ start \in 0 .. U64 - 1 /\ s_ticks \in 0 .. U64 - 1
    BY ClockArithmetic DEF KernelInv, KernelTypeOK
<1>2. /\ Mainline /\ boot = 9 /\ boot' = boot
      /\ UNCHANGED <<cpu, irr, stack, s_ticks>>
    <2>1. Booted /\ Mainline
        BY DEF pit_sleep, SleepStart, SleepCheck, Hlt
    <2>2. boot = 9
        BY <2>1, BootCalls DEF Booted, KernelInv, KernelTypeOK
    <2>3. QED
        BY <2>1, <2>2 DEF pit_sleep, SleepStart, SleepCheck, Hlt, cpuVars, latchVars,
            clockVars
<1>3. Coming' = 1
    BY <1>2, MainlineComing
<1>4. CASE SleepStart
    <2>1. ticks' \in Sleeps /\ start' = s_ticks /\ slept' = 0 /\ pc' = "sleep"
        BY <1>4 DEF SleepStart
    <2>2. ticks' \in 0 .. U64 - 1
        BY <2>1, KernelAssumption
    <2>3. Elapsed(s_ticks', start') = 0
        BY <1>1, <1>2, <2>1 DEF Elapsed
    <2>4. 0 + 1 <= ticks' + 1
        <3>1. ASSUME NEW t \in 0 .. U64 - 1 PROVE 0 + 1 <= t + 1
            BY KernelAssumption
        <3>2. QED
            BY <2>2, <3>1, Zenon
    <2>5. QED
        BY <1>2, <1>3, <2>1, <2>3, <2>4 DEF SleepInv
<1>5. CASE SleepCheck
    <2>1. CASE StillSleeping
        <3>1. pc = "sleep" /\ pc' = "sleep_hlt" /\ UNCHANGED <<start, ticks, slept>>
            BY <1>5, <2>1 DEF SleepCheck, sleepVars
        <3>2. Elapsed(s_ticks, start) < ticks
            BY <1>1, <2>1, ClockArithmetic DEF StillSleeping
        <3>3. ticks < U64 - 2 => slept < U64 - 1 /\ slept + 1 <= ticks
            BY <1>1, <3>1, <3>2, ComingNat DEF SleepInv, Sleeping
        <3>4. slept < U64 - 1 => Elapsed(s_ticks, start) = slept
            BY <3>1 DEF SleepInv, Sleeping
        <3>5. QED
            BY <1>1, <1>2, <1>3, <3>1, <3>3, <3>4 DEF SleepInv, Sleeping
    <2>2. CASE ~ StillSleeping
        <3>1. pc' = "uptime"
            BY <1>5, <2>2 DEF SleepCheck
        <3>2. QED
            BY <3>1 DEF SleepInv, Sleeping
    <2>3. QED
        BY <2>1, <2>2
<1>6. CASE Hlt("sleep_hlt", "sleep")
    <2>1. pc = "sleep_hlt" /\ pc' = "sleep" /\ UNCHANGED <<start, ticks, slept>>
        BY <1>6 DEF Hlt, clockVars, sleepVars
    <2>2. ticks < U64 - 2 => slept <= ticks
        BY <1>1, <2>1, ComingNat DEF SleepInv
    <2>3. slept < U64 - 1 => Elapsed(s_ticks, start) = slept
        BY <2>1 DEF SleepInv, Sleeping
    <2>4. QED
        BY <1>1, <1>2, <1>3, <2>1, <2>2, <2>3 DEF SleepInv, Sleeping
<1>7. QED
    BY <1>4, <1>5, <1>6 DEF pit_sleep

\* pit_sleep returns after the ticks asked for or one more, for every width
\* of the counter and every argument, also when the counter wraps meanwhile.
THEOREM KernelSleepExact == KernelSpec => []SleepExact
<1>1. KernelInit => SleepInv
    BY DEF KernelInit, SleepInv, Sleeping
<1>2. SleepInv /\ KernelInv /\ [KernelNext]_kernelVars => SleepInv'
    <2> SUFFICES ASSUME SleepInv, KernelInv, [KernelNext]_kernelVars PROVE SleepInv'
        OBVIOUS
    <2>1. ASSUME pc' \notin {"sleep", "sleep_hlt"} PROVE SleepInv'
        BY <2>1 DEF SleepInv, Sleeping
    <2>2. CASE Boot
        <3>1. boot \in 1 .. 8 /\ pc' = pc
            BY <2>2, BootCalls DEF Boot, IdtInit, pic_remap, idt_install_irqs,
                pit_init, keyboard_init, Unmask, Sti, keyboardVars, loopVars
        <3>2. QED
            BY <2>1, <3>1 DEF SleepInv, Sleeping
    <2>3. CASE Hlt("hlt", "uptime") \/ Uptime \/ NoKey \/ Drain
        <3>1. pc' \notin {"sleep", "sleep_hlt"}
            BY <2>3 DEF Hlt, Uptime, NoKey, Drain, Consume, keyboard_has_key,
                DequeueCheck, LoadChar, AdvanceLast, AdvanceFirst, AdvanceTail,
                LateLoad, Echo
        <3>2. QED
            BY <2>1, <3>1
    <2>4. CASE Driver
        <3>1. pc' = pc /\ pc \in {"hlt", "uptime", "poll"}
            BY <2>4 DEF Driver, keyboardVars, loopVars
        <3>2. QED
            BY <2>1, <3>1
    <2>5. CASE UNCHANGED kernelVars
        <3>1. UNCHANGED <<pc, boot, s_ticks, start, ticks, slept, paced, irr, cpu, stack>>
            BY <2>5 DEF kernelVars, keyboardVars, loopVars, clockVars, sleepVars,
                latchVars, cpuVars
        <3>2. Coming' <= Coming
            BY <3>1, ComingNat DEF Coming, One, irq
        <3>3. QED
            BY <3>1, <3>2, SleepsOn
    <2>6. QED
        BY <2>2, <2>3, <2>4, <2>5, SleepsCheck, SleepsTick, SleepsThrough
            DEF KernelNext, Cpu
<1>3. KernelInv /\ SleepInv => SleepExact
    <2> SUFFICES ASSUME KernelInv, SleepInv, pc = "sleep", ~ StillSleeping
                 PROVE  slept \in ticks .. ticks + 1
        BY DEF SleepExact
    <2>1. /\ slept \in 0 .. U64 - 1 /\ ticks \in 0 .. U64 - 1 /\ U64 \in Nat
          /\ start \in 0 .. U64 - 1 /\ s_ticks \in 0 .. U64 - 1
        BY ClockArithmetic DEF KernelInv, KernelTypeOK
    <2>2. Elapsed(s_ticks, start) >= ticks
        BY <2>1, ClockArithmetic DEF StillSleeping, Elapsed
    <2>3. slept < U64 - 1 => Elapsed(s_ticks, start) = slept
        BY DEF SleepInv, Sleeping
    <2>4. ticks < U64 - 2 => slept <= ticks + 1
        BY <2>1, ComingNat DEF SleepInv
    <2>5. QED
        BY <2>1, <2>2, <2>3, <2>4
<1>4. QED
    BY <1>1, <1>2, <1>3, KernelInvHolds, PTL DEF KernelSpec

=============================================================================
