--------------------------- MODULE InterruptFrame ---------------------------
(***************************************************************************)
(* The stack of an interrupt: what the CPU and the stubs of                *)
(* kernel/arch/x86_64/isr.asm push, how struct interrupt_frame of          *)
(* include/idt.h reads it, and what irq_common pops.  A stack is a         *)
(* sequence of words with the top last.                                    *)
(***************************************************************************)
EXTENDS Integers, Sequences

IDT_EXCEPTION_COUNT == 32
IDT_IRQ_BASE        == 32
IDT_IRQ_COUNT       == 16

Vectors == 0 .. IDT_IRQ_BASE + IDT_IRQ_COUNT - 1

\* What a trap saves by itself, and what irq_common saves, as pushed.
TrapRegs == <<"ss", "rsp", "rflags", "cs", "rip">>
PushOrder ==
    <<"rax", "rbx", "rcx", "rdx", "rsi", "rdi", "rbp", "r8", "r9", "r10",
      "r11", "r12", "r13", "r14", "r15">>

Registers == {TrapRegs[k] : k \in DOMAIN TrapRegs}
             \cup {PushOrder[k] : k \in DOMAIN PushOrder}

\* The vectors for which the CPU pushes an error code.
HasErrorCode(v) == v \in {8, 17, 21} \cup 10 .. 14

CpuPushes(regs, v, error) ==
    [k \in DOMAIN TrapRegs |-> regs[TrapRegs[k]]]
        \o (IF HasErrorCode(v) THEN <<error>> ELSE <<>>)

\* Mutant: the stub of #AC pushes a dummy on top of the CPU's error code.
isr_stubTwoCodes(v) ==
    IF v \in {8, 21} \cup 10 .. 14 THEN <<v>> ELSE <<0, v>>

\* ISR_ERR, ISR_NOERR and IRQ_NOERR: the vector, on top of an error code.
isr_stub(v) == IF v \in {8, 17, 21} \cup 10 .. 14 THEN <<v>> ELSE <<0, v>>

\* The stack on which exception_handler or irq_dispatch is called.
Entered(regs, v, error) ==
    CpuPushes(regs, v, error) \o isr_stub(v)
        \o [k \in DOMAIN PushOrder |-> regs[PushOrder[k]]]

\* struct interrupt_frame, from the address in RDI upwards.
interrupt_frame ==
    <<"r15", "r14", "r13", "r12", "r11", "r10", "r9", "r8", "rbp", "rdi",
      "rsi", "rdx", "rcx", "rbx", "rax", "vector", "error", "rip", "cs",
      "rflags", "rsp", "ss">>

Field(stack, name) ==
    LET k == CHOOSE n \in DOMAIN interrupt_frame : interrupt_frame[n] = name
    IN  stack[Len(stack) + 1 - k]

\* Mutant: two pops are swapped.
PopOrderSwapped ==
    <<"r15", "r14", "r13", "r12", "r11", "r10", "r9", "r8", "rbp", "rsi",
      "rdi", "rdx", "rcx", "rbx", "rax">>

\* The pops of irq_common.
PopOrder ==
    <<"r15", "r14", "r13", "r12", "r11", "r10", "r9", "r8", "rbp", "rdi",
      "rsi", "rdx", "rcx", "rbx", "rax">>

\* What add rsp, 16 leaves for iretq.
Trapped(stack) == SubSeq(stack, 1, Len(stack) - Len(PopOrder) - 2)

\* The registers after the pops, add rsp, 16 and iretq.
Restored(stack) ==
    [r \in Registers |->
        IF \E k \in DOMAIN PopOrder : PopOrder[k] = r
        THEN stack[Len(stack) + 1 - (CHOOSE k \in DOMAIN PopOrder :
                                         PopOrder[k] = r)]
        ELSE Trapped(stack)[CHOOSE k \in DOMAIN TrapRegs : TrapRegs[k] = r]]

=============================================================================
