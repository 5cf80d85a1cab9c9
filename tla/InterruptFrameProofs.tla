------------------------ MODULE InterruptFrameProofs ------------------------
(***************************************************************************)
(* Proofs about the stack of an interrupt, for every vector, every error   *)
(* code and every value of the registers: the C code finds the vector, the *)
(* error code and each register in the field of that name, and the way out *)
(* undoes the way in.                                                      *)
(***************************************************************************)
EXTENDS InterruptFrame, SequenceTheorems, TLAPS

\* The error code as the frame shows it: 0 where the CPU pushes none.
CodeShown(v, error) == IF HasErrorCode(v) THEN error ELSE 0

\* The registers as irq_common and the CPU push them.
LEMMA Orders ==
    /\ DOMAIN TrapRegs = 1 .. 5 /\ DOMAIN PushOrder = 1 .. 15
    /\ Len(PopOrder) = 15 /\ DOMAIN PopOrder = 1 .. 15
    /\ \A k \in 1 .. 15 : PopOrder[k] = PushOrder[16 - k]
    /\ \A r \in Registers : \/ \E k \in 1 .. 15 : PopOrder[k] = r
                            \/ \E k \in 1 .. 5 : TrapRegs[k] = r
    /\ \A k \in 1 .. 15 : PushOrder[k] \in Registers
    /\ \A k \in 1 .. 5 : TrapRegs[k] \in Registers
<1>1. DOMAIN TrapRegs = 1 .. 5
    BY DEF TrapRegs
<1>2. DOMAIN PushOrder = 1 .. 15
    BY DEF PushOrder
<1>3. Len(PopOrder) = 15 /\ DOMAIN PopOrder = 1 .. 15
    BY DEF PopOrder
<1>4. \A k \in 1 .. 15 : PopOrder[k] = PushOrder[16 - k]
    BY DEF PopOrder, PushOrder
<1>5. \A k \in 1 .. 15 : PushOrder[k] = PopOrder[16 - k] /\ 16 - k \in 1 .. 15
    BY DEF PopOrder, PushOrder
<1>6. QED
    BY <1>1, <1>2, <1>3, <1>4, <1>5 DEF Registers

\* Two words pushed one after the other.
LEMMA TwoWords == ASSUME NEW x, NEW y PROVE <<x>> \o <<y>> = <<x, y>>
<1> DEFINE T == {x, y}
           P == <<x>> \o <<y>>
<1>1. /\ <<x>> \in Seq(T) /\ <<y>> \in Seq(T) /\ <<x, y>> \in Seq(T)
      /\ Len(<<x>>) = 1 /\ Len(<<y>>) = 1 /\ Len(<<x, y>>) = 2
    OBVIOUS
<1>2. P \in Seq(T) /\ Len(P) = 2 /\ P[1] = x /\ P[2] = y
    BY <1>1, ConcatProperties
<1> HIDE DEF P, T
<1>3. \A k \in 1 .. 2 : P[k] = <<x, y>>[k]
    BY <1>2
<1>4. QED
    BY <1>1, <1>2, <1>3, SeqEqual DEF P

\* The frame as struct interrupt_frame describes it, bottom first.
LaidOut(E, regs, v, code, T) ==
    /\ E \in Seq(T) /\ Len(E) = 22
    /\ \A k \in 1 .. 5 : E[k] = regs[TrapRegs[k]]
    /\ E[6] = code
    /\ E[7] = v
    /\ \A k \in 1 .. 15 : E[7 + k] = regs[PushOrder[k]]

\* Every entry builds a frame of 22 words, laid out the same way whether or
\* not the CPU pushed an error code.
LEMMA EnteredLayout ==
    ASSUME NEW S, NEW regs \in [Registers -> S], NEW v, NEW error
    PROVE  LaidOut(Entered(regs, v, error), regs, v, CodeShown(v, error),
                   S \cup {v, error, 0})
<1> DEFINE A == [k \in DOMAIN TrapRegs |-> regs[TrapRegs[k]]]
           C == CpuPushes(regs, v, error) \o isr_stub(v)
           B == [k \in DOMAIN PushOrder |-> regs[PushOrder[k]]]
           E == Entered(regs, v, error)
           T == S \cup {v, error, 0}
           M == <<CodeShown(v, error), v>>
<1>1. A \in Seq(T) /\ Len(A) = 5 /\ \A k \in 1 .. 5 : A[k] = regs[TrapRegs[k]]
    <2>1. A \in [1 .. 5 -> T]
        BY Orders
    <2>2. QED
        BY <2>1, Orders
<1>2. B \in Seq(T) /\ Len(B) = 15 /\ \A k \in 1 .. 15 : B[k] = regs[PushOrder[k]]
    <2>1. B \in [1 .. 15 -> T]
        BY Orders
    <2>2. QED
        BY <2>1, Orders
<1>3. M \in Seq(T) /\ Len(M) = 2 /\ M[1] = CodeShown(v, error) /\ M[2] = v
    BY DEF CodeShown
<1>4. C = A \o M
    <2> HIDE DEF A, T
    <2>1. CASE HasErrorCode(v)
        <3>1. C = (A \o <<error>>) \o <<v>>
            BY <2>1 DEF CpuPushes, isr_stub, HasErrorCode, A
        <3>2. <<error>> \in Seq(T) /\ <<v>> \in Seq(T)
            BY DEF T
        <3>3. <<error>> \o <<v>> = <<error, v>>
            BY TwoWords, Zenon
        <3>4. M = <<error, v>>
            BY <2>1 DEF CodeShown
        <3> HIDE DEF C, M
        <3>5. QED
            <4>1. (A \o <<error>>) \o <<v>> = A \o (<<error>> \o <<v>>)
                BY <1>1, <3>2, ConcatAssociative
            <4>2. QED
                BY <3>1, <3>3, <3>4, <4>1
    <2>2. CASE ~ HasErrorCode(v)
        <3>1. C = (A \o <<>>) \o <<0, v>>
            BY <2>2 DEF CpuPushes, isr_stub, HasErrorCode, A
        <3>2. A \o <<>> = A /\ <<0, v>> = M
            BY <1>1, <2>2, ConcatEmptySeq DEF CodeShown
        <3>3. QED
            BY <3>1, <3>2
    <2>3. QED
        BY <2>1, <2>2
<1>5. E = C \o B
    BY DEF Entered
<1> HIDE DEF A, B, C, E, M, T
<1>6. /\ C \in Seq(T) /\ Len(C) = 7
      /\ \A k \in 1 .. 5 : C[k] = A[k]
      /\ C[6] = M[1] /\ C[7] = M[2]
    <2>1. /\ C \in Seq(T) /\ Len(C) = Len(A) + Len(M)
          /\ \A i \in 1 .. Len(A) + Len(M) :
                 C[i] = IF i <= Len(A) THEN A[i] ELSE M[i - Len(A)]
        BY <1>1, <1>3, <1>4, ConcatProperties, Zenon
    <2>2. \A i \in 1 .. 7 : C[i] = IF i <= 5 THEN A[i] ELSE M[i - 5]
        BY <1>1, <1>3, <2>1
    <2>3. QED
        BY <1>1, <1>3, <2>1, <2>2
<1>7. /\ E \in Seq(T) /\ Len(E) = 22
      /\ \A k \in 1 .. 7 : E[k] = C[k]
      /\ \A k \in 1 .. 15 : E[7 + k] = B[k]
    <2>1. /\ E \in Seq(T) /\ Len(E) = Len(C) + Len(B)
          /\ \A i \in 1 .. Len(C) + Len(B) :
                 E[i] = IF i <= Len(C) THEN C[i] ELSE B[i - Len(C)]
        <3>a. C \in Seq(T) /\ B \in Seq(T)
            BY <1>2, <1>6
        <3>1. /\ C \o B \in Seq(T) /\ Len(C \o B) = Len(C) + Len(B)
              /\ \A i \in 1 .. Len(C) + Len(B) :
                     (C \o B)[i] = IF i <= Len(C) THEN C[i] ELSE B[i - Len(C)]
            BY <3>a, ConcatProperties
        <3>2. QED
            BY <1>5, <3>1, Zenon
    <2>2. Len(C) = 7 /\ Len(B) = 15 /\ Len(C) + Len(B) = 22
        BY <1>2, <1>6
    <2>3. \A i \in 1 .. 22 : E[i] = IF i <= 7 THEN C[i] ELSE B[i - 7]
        BY <2>1, <2>2, Zenon
    <2>4. ASSUME NEW k \in 1 .. 15 PROVE E[7 + k] = B[k]
        <3>1. 7 + k \in 1 .. 22 /\ ~ (7 + k <= 7) /\ (7 + k) - 7 = k
            OBVIOUS
        <3>2. QED
            BY <2>3, <3>1, Zenon
    <2>5. ASSUME NEW k \in 1 .. 7 PROVE E[k] = C[k]
        <3>1. k \in 1 .. 22 /\ k <= 7
            OBVIOUS
        <3>2. QED
            BY <2>3, <3>1, Zenon
    <2>6. QED
        BY <2>1, <2>2, <2>4, <2>5, Zenon
<1>8. \A k \in 1 .. 5 : E[k] = regs[TrapRegs[k]]
    <2> TAKE k \in 1 .. 5
    <2>1. k \in 1 .. 7
        OBVIOUS
    <2>2. QED
        BY <1>1, <1>6, <1>7, <2>1, Zenon
<1>9. 6 \in 1 .. 7 /\ 7 \in 1 .. 7
    OBVIOUS
<1>10. QED
    BY <1>2, <1>3, <1>6, <1>7, <1>8, <1>9, Zenon DEF E, T, LaidOut

\* struct interrupt_frame names the words in the order they were pushed.
LEMMA FrameOrder ==
    /\ DOMAIN interrupt_frame = 1 .. 22
    /\ \A n \in 1 .. 15 : interrupt_frame[n] = PushOrder[16 - n]
    /\ \A n \in 18 .. 22 : interrupt_frame[n] = TrapRegs[23 - n]
    /\ interrupt_frame[16] = "vector" /\ interrupt_frame[17] = "error"
    /\ "vector" \notin Registers /\ "error" \notin Registers
    /\ \A r \in Registers : \E n \in 1 .. 22 : interrupt_frame[n] = r
<1>1. DOMAIN interrupt_frame = 1 .. 22
    BY DEF interrupt_frame
<1>2. \A n \in 1 .. 15 : interrupt_frame[n] = PushOrder[16 - n]
    BY DEF interrupt_frame, PushOrder
<1>3. \A n \in 18 .. 22 : interrupt_frame[n] = TrapRegs[23 - n]
    BY DEF interrupt_frame, TrapRegs
<1>4. interrupt_frame[16] = "vector" /\ interrupt_frame[17] = "error"
    BY DEF interrupt_frame
<1>5. \A k \in 1 .. 15 : PushOrder[k] \notin {"vector", "error"}
                         /\ interrupt_frame[16 - k] = PushOrder[k]
    BY DEF PushOrder, interrupt_frame
<1>6. \A k \in 1 .. 5 : TrapRegs[k] \notin {"vector", "error"}
                        /\ interrupt_frame[23 - k] = TrapRegs[k]
    BY DEF TrapRegs, interrupt_frame
<1>7. \A r \in Registers : \/ \E k \in 1 .. 15 : PushOrder[k] = r
                           \/ \E k \in 1 .. 5 : TrapRegs[k] = r
    BY Orders DEF Registers
<1>8. "vector" \notin Registers /\ "error" \notin Registers
    BY <1>5, <1>6, <1>7
<1>9. \A r \in Registers : \E n \in 1 .. 22 : interrupt_frame[n] = r
    <2> TAKE r \in Registers
    <2>1. CASE \E k \in 1 .. 15 : PushOrder[k] = r
        <3>1. PICK k \in 1 .. 15 : PushOrder[k] = r
            BY <2>1
        <3>2. 16 - k \in 1 .. 22
            OBVIOUS
        <3>3. QED
            BY <1>5, <3>1, <3>2, Zenon
    <2>2. CASE \E k \in 1 .. 5 : TrapRegs[k] = r
        <3>1. PICK k \in 1 .. 5 : TrapRegs[k] = r
            BY <2>2
        <3>2. 23 - k \in 1 .. 22
            OBVIOUS
        <3>3. QED
            BY <1>6, <3>1, <3>2, Zenon
    <2>3. QED
        BY <1>7, <2>1, <2>2
<1>10. QED
    BY <1>1, <1>2, <1>3, <1>4, <1>8, <1>9

\* irq_dispatch and exception_handler read the vector, the error code and
\* every register where the stubs and the CPU put them, for every vector.
THEOREM FrameFields ==
    ASSUME NEW S, NEW regs \in [Registers -> S], NEW v, NEW error
    PROVE  /\ Field(Entered(regs, v, error), "vector") = v
           /\ Field(Entered(regs, v, error), "error") = CodeShown(v, error)
           /\ \A r \in Registers : Field(Entered(regs, v, error), r) = regs[r]
<1> DEFINE E == Entered(regs, v, error)
           At(name) == CHOOSE n \in DOMAIN interrupt_frame :
                           interrupt_frame[n] = name
<1>1. LaidOut(E, regs, v, CodeShown(v, error), S \cup {v, error, 0})
    BY EnteredLayout, Zenon
<1> HIDE DEF E
<1>2. /\ Len(E) = 22 /\ E[7] = v /\ E[6] = CodeShown(v, error)
      /\ \A k \in 1 .. 5 : E[k] = regs[TrapRegs[k]]
      /\ \A k \in 1 .. 15 : E[7 + k] = regs[PushOrder[k]]
    BY <1>1, Zenon DEF LaidOut
<1>3. \A name : Field(E, name) = E[Len(E) + 1 - At(name)]
    BY Zenon DEF Field
<1>4. ASSUME NEW name, \E n \in 1 .. 22 : interrupt_frame[n] = name
      PROVE  At(name) \in 1 .. 22 /\ interrupt_frame[At(name)] = name
    <2>1. \E n \in DOMAIN interrupt_frame : interrupt_frame[n] = name
        BY <1>4, FrameOrder
    <2>2. QED
        BY <2>1, FrameOrder, Zenon
<1> HIDE DEF At
<1>5. At("vector") = 16 /\ At("error") = 17
    <2>1. /\ At("vector") \in 1 .. 22 /\ interrupt_frame[At("vector")] = "vector"
          /\ At("error") \in 1 .. 22 /\ interrupt_frame[At("error")] = "error"
        BY <1>4, FrameOrder
    <2>2. \A n \in 1 .. 22 : /\ interrupt_frame[n] = "vector" => n = 16
                             /\ interrupt_frame[n] = "error" => n = 17
        BY DEF interrupt_frame
    <2>3. QED
        BY <2>1, <2>2
<1>6. ASSUME NEW r \in Registers PROVE E[Len(E) + 1 - At(r)] = regs[r]
    <2> DEFINE n == At(r)
    <2>1. n \in 1 .. 22 /\ interrupt_frame[n] = r
        BY <1>4, FrameOrder
    <2> HIDE DEF n
    <2>2. n # 16 /\ n # 17
        BY <2>1, FrameOrder
    <2>3. CASE n \in 1 .. 15
        <3>1. Len(E) + 1 - n = 7 + (16 - n) /\ 16 - n \in 1 .. 15
            BY <1>2, <2>3
        <3>2. r = PushOrder[16 - n]
            BY <2>1, <2>3, FrameOrder
        <3>3. E[7 + (16 - n)] = regs[PushOrder[16 - n]]
            BY <1>2, <3>1, Zenon
        <3>4. QED
            BY <3>1, <3>2, <3>3 DEF n
    <2>4. CASE n \in 18 .. 22
        <3>1. Len(E) + 1 - n = 23 - n /\ 23 - n \in 1 .. 5
            BY <1>2, <2>4
        <3>2. r = TrapRegs[23 - n]
            BY <2>1, <2>4, FrameOrder
        <3>3. E[23 - n] = regs[TrapRegs[23 - n]]
            BY <1>2, <3>1, Zenon
        <3>4. QED
            BY <3>1, <3>2, <3>3 DEF n
    <2>5. QED
        BY <2>1, <2>2, <2>3, <2>4
<1>7. Field(E, "vector") = v /\ Field(E, "error") = CodeShown(v, error)
    <2>1. Field(E, "vector") = E[Len(E) + 1 - 16]
        BY <1>3, <1>5, Zenon
    <2>2. Field(E, "error") = E[Len(E) + 1 - 17]
        BY <1>3, <1>5, Zenon
    <2>3. QED
        BY <1>2, <2>1, <2>2
<1>8. \A r \in Registers : Field(E, r) = regs[r]
    BY <1>3, <1>6, Zenon
<1>9. QED
    BY <1>7, <1>8 DEF E

\* The pops, add rsp, 16 and iretq give back every register, for every
\* vector: the error code, pushed by the CPU or by the stub, is skipped.
THEOREM FrameRestored ==
    ASSUME NEW S, NEW regs \in [Registers -> S], NEW v, NEW error
    PROVE  Restored(Entered(regs, v, error)) = regs
<1> DEFINE E == Entered(regs, v, error)
<1> DEFINE T == S \cup {v, error, 0}
<1>1. LaidOut(E, regs, v, CodeShown(v, error), T)
    BY EnteredLayout, Zenon
<1> HIDE DEF E, T
<1>2. /\ E \in Seq(T) /\ Len(E) = 22
      /\ \A k \in 1 .. 5 : E[k] = regs[TrapRegs[k]]
      /\ \A k \in 1 .. 15 : E[7 + k] = regs[PushOrder[k]]
    BY <1>1, Zenon DEF LaidOut
<1>3. \A k \in 1 .. 15 : E[Len(E) + 1 - k] = regs[PopOrder[k]]
    <2> TAKE k \in 1 .. 15
    <2>1. Len(E) + 1 - k = 7 + (16 - k) /\ 16 - k \in 1 .. 15
        <3>1. Len(E) = 22
            BY <1>2, Zenon
        <3>2. 22 + 1 - k = 7 + (16 - k) /\ 16 - k \in 1 .. 15
            OBVIOUS
        <3>3. QED
            BY <3>1, <3>2, Zenon
    <2>2. PopOrder[k] = PushOrder[16 - k]
        BY Orders, Zenon
    <2>3. E[7 + (16 - k)] = regs[PushOrder[16 - k]]
        BY <1>2, <2>1, Zenon
    <2>4. QED
        BY <2>1, <2>2, <2>3
<1>4. \A k \in 1 .. 5 : Trapped(E)[k] = regs[TrapRegs[k]]
    <2>1. Trapped(E) = SubSeq(E, 1, 5)
        BY <1>2, Orders DEF Trapped
    <2>2. \A k \in 1 .. 5 : SubSeq(E, 1, 5)[k] = E[k]
        BY <1>2, SubSeqProperties
    <2>3. QED
        BY <1>2, <2>1, <2>2
<1>5. ASSUME NEW r \in Registers PROVE Restored(E)[r] = regs[r]
    <2>1. CASE \E k \in DOMAIN PopOrder : PopOrder[k] = r
        <3> DEFINE k == CHOOSE k \in DOMAIN PopOrder : PopOrder[k] = r
        <3>1. k \in 1 .. 15 /\ PopOrder[k] = r
            BY <2>1, Orders
        <3>2. Restored(E)[r] = E[Len(E) + 1 - k]
            BY <2>1 DEF Restored
        <3> HIDE DEF k
        <3>3. QED
            BY <1>3, <3>1, <3>2
    <2>2. CASE ~ \E k \in DOMAIN PopOrder : PopOrder[k] = r
        <3> DEFINE k == CHOOSE k \in DOMAIN TrapRegs : TrapRegs[k] = r
        <3>1. k \in 1 .. 5 /\ TrapRegs[k] = r
            BY <2>2, Orders
        <3>2. Restored(E)[r] = Trapped(E)[k]
            BY <2>2 DEF Restored
        <3> HIDE DEF k
        <3>3. QED
            BY <1>4, <3>1, <3>2
    <2>3. QED
        BY <2>1, <2>2
<1>6. Restored(E) = regs
    <2>1. Restored(E) = [r \in Registers |-> Restored(E)[r]]
        BY DEF Restored
    <2>2. regs = [r \in Registers |-> regs[r]]
        OBVIOUS
    <2>3. QED
        BY <1>5, <2>1, <2>2
<1>7. QED
    BY <1>6 DEF E

=============================================================================
