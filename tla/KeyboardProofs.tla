--------------------------- MODULE KeyboardProofs ---------------------------
(***************************************************************************)
(* Proofs about the keyboard driver, for every size of the ring, every     *)
(* pair of tables and every set of keys: the ring implements BoundedFifo.  *)
(***************************************************************************)
EXTENDS Keyboard, SequenceTheorems, TLAPS

-----------------------------------------------------------------------------
(* Characters                                                              *)

\* No key gives NUL.
LEMMA CharsNotNul == NUL \notin Chars
<1>1. \A k \in DOMAIN Unshifted : Unshifted[k] \in 1 .. 127
                                  /\ Shifted[k] \in 1 .. 127
    BY KeyboardAssumption
<1>2. QED
    BY <1>1 DEF Chars, NUL, Upper, IsLetter

\* The decoder gives one of them.
LEMMA TranslateChars ==
    ASSUME NEW code \in DOMAIN Unshifted
    PROVE  Translate(code) \in Chars
BY DEF Translate, Chars

-----------------------------------------------------------------------------
(* The ring                                                                *)

\* The index after x, and the n-th index from x on, without the remainder.
After(x) == IF x + 1 = KBD_BUF_SIZE THEN 0 ELSE x + 1

Ahead(x, n) == IF x + n < KBD_BUF_SIZE THEN x + n ELSE x + n - KBD_BUF_SIZE

Gap(h, t) == IF h >= t THEN h - t ELSE h - t + KBD_BUF_SIZE

Filled == IF k_head >= k_tail THEN k_head - k_tail
                              ELSE k_head - k_tail + KBD_BUF_SIZE

\* The three remainders the driver takes.
LEMMA Remainders ==
    /\ \A x \in Index : (x + 1) % KBD_BUF_SIZE = After(x) /\ After(x) \in Index
    /\ \A x \in Index, n \in 0 .. KBD_BUF_SIZE :
           (x + n) % KBD_BUF_SIZE = Ahead(x, n) /\ Ahead(x, n) \in Index
    /\ \A h \in Index, t \in Index :
           (h - t) % KBD_BUF_SIZE = Gap(h, t) /\ Gap(h, t) \in Index
<1> DEFINE N == KBD_BUF_SIZE
<1>1. N \in Nat /\ N > 1
    BY KeyboardAssumption
<1>2. \A x \in Int : /\ x \in 0 .. N - 1 => x % N = x
                     /\ x \in N .. 2 * N - 1 => x % N = x - N
                     /\ x \in -N .. -1 => x % N = x + N
    <2> HIDE DEF N
    <2> SUFFICES ASSUME NEW x \in Int
                 PROVE  /\ x \in 0 .. N - 1 => x % N = x
                        /\ x \in N .. 2 * N - 1 => x % N = x - N
                        /\ x \in -N .. -1 => x % N = x + N
        OBVIOUS
    <2>1. x \in 0 .. N - 1 => x % N = x
        BY <1>1, SMT
    <2>2. x \in N .. 2 * N - 1 => x % N = x - N
        BY <1>1, SMT
    <2>3. x \in -N .. -1 => x % N = x + N
        BY <1>1, SMT
    <2>4. QED
        BY <2>1, <2>2, <2>3
<1>3. \A x \in Index : (x + 1) % N = After(x) /\ After(x) \in Index
    BY <1>1, <1>2, SMT DEF Index, After
<1>4. \A x \in Index, n \in 0 .. N :
          (x + n) % N = Ahead(x, n) /\ Ahead(x, n) \in Index
    BY <1>1, <1>2, SMT DEF Index, Ahead
<1>5. \A h \in Index, t \in Index :
          (h - t) % N = Gap(h, t) /\ Gap(h, t) \in Index
    BY <1>1, <1>2, SMT DEF Index, Gap
<1>6. QED
    BY <1>3, <1>4, <1>5

\* What a ring holds, without remainders.
LEMMA ContentsFilled ==
    ASSUME NEW b, NEW h \in Index, NEW t \in Index
    PROVE  [n \in 1 .. (h - t) % KBD_BUF_SIZE |-> b[(t + n - 1) % KBD_BUF_SIZE]]
               = [n \in 1 .. Gap(h, t) |-> b[Ahead(t, n - 1)]]
<1>1. (h - t) % KBD_BUF_SIZE = Gap(h, t) /\ Gap(h, t) \in 0 .. KBD_BUF_SIZE - 1
    BY Remainders DEF Index
<1>2. ASSUME NEW n \in 1 .. Gap(h, t)
      PROVE  (t + n - 1) % KBD_BUF_SIZE = Ahead(t, n - 1)
    <2>1. n - 1 \in 0 .. KBD_BUF_SIZE /\ t + n - 1 = t + (n - 1)
        BY <1>1, KeyboardAssumption DEF Index
    <2>2. QED
        BY <2>1, Remainders
<1>3. QED
    BY <1>1, <1>2

-----------------------------------------------------------------------------
(* The inductive invariant                                                 *)

\* Only characters wait; the consumer is past its check only while something
\* waits; what it has loaded is still in the slot, and the slot it has still
\* to load is the one kept empty.
LoopInv ==
    /\ \A n \in 1 .. Filled : k_buf[Ahead(k_tail, n - 1)] \in Chars
    /\ pc \in {"dequeue", "take", "advance"} => k_head # k_tail
    /\ pc = "advance" => c = k_buf[k_tail]
    /\ pc = "late" => k_tail = After(slot) /\ k_buf[slot] \in Chars
    /\ pc = "echo" => c \in Chars

KeyboardInv == KeyboardTypeOK /\ LoopInv

\* One byte changes the modifiers within their types, and the ring at most
\* by putting in a character.
LEMMA IrqStep ==
    ASSUME KeyboardTypeOK, NEW code \in 0 .. 255, keyboard_on_irq(code)
    PROVE  /\ k_shift' \in {0, 1} /\ k_caps' \in {0, 1} /\ k_e0' \in {0, 1}
           /\ UNCHANGED ringVars \/ \E ch \in Chars : enqueue(ch)
<1>1. k_shift' \in {0, 1} /\ k_caps' \in {0, 1} /\ k_e0' \in {0, 1}
    BY DEF KeyboardTypeOK, keyboard_on_irq, modVars, irqVars
<1>2. UNCHANGED ringVars \/ \E ch \in Chars : enqueue(ch)
    <2>1. CASE /\ ~ Swallows
               /\ code \in DOMAIN Unshifted
               /\ enqueue(Translate(code))
               /\ UNCHANGED modVars
        BY <2>1, TranslateChars
    <2>2. QED
        BY <2>1 DEF keyboard_on_irq, irqVars
<1>3. QED
    BY <1>1, <1>2

\* A full ring drops the character, any other appends it, and the slot that
\* a late load still needs is not written.
LEMMA EnqueueStep ==
    ASSUME KeyboardInv, NEW ch \in Chars, enqueue(ch), UNCHANGED loopVars
    PROVE  /\ k_buf' \in [Index -> Chars \cup {NUL}]
           /\ k_head' \in Index /\ k_tail' = k_tail
           /\ LoopInv'
           /\ \/ Filled = KBD_BUF_SIZE - 1 /\ UNCHANGED ringVars
              \/ /\ Filled < KBD_BUF_SIZE - 1
                 /\ Filled' = Filled + 1
                 /\ k_buf'[Ahead(k_tail, Filled)] = ch
                 /\ \A n \in 1 .. Filled :
                        k_buf'[Ahead(k_tail, n - 1)] = k_buf[Ahead(k_tail, n - 1)]
           /\ pc = "late" => k_buf'[slot] = k_buf[slot]
<1>1. /\ KeyboardTypeOK /\ LoopInv
      /\ KBD_BUF_SIZE \in Nat /\ KBD_BUF_SIZE > 1
      /\ k_head \in 0 .. KBD_BUF_SIZE - 1 /\ k_tail \in 0 .. KBD_BUF_SIZE - 1
      /\ slot \in 0 .. KBD_BUF_SIZE - 1
      /\ k_buf \in [Index -> Chars \cup {NUL}]
      /\ (k_head + 1) % KBD_BUF_SIZE = After(k_head)
    BY KeyboardAssumption, Remainders DEF KeyboardInv, KeyboardTypeOK, Index
<1>2. CASE Full
    <2>1. UNCHANGED ringVars
        BY <1>2 DEF enqueue
    <2>2. Filled = KBD_BUF_SIZE - 1
        BY <1>1, <1>2 DEF Full, After, Filled
    <2>3. UNCHANGED <<k_buf, k_head, k_tail, pc, c, slot>>
        BY <2>1 DEF ringVars, loopVars
    <2>4. LoopInv'
        BY <1>1, <2>3 DEF LoopInv, Filled
    <2>5. QED
        BY <1>1, <2>1, <2>2, <2>3, <2>4 DEF Index
<1>3. CASE ~ Full
    <2>1. /\ k_buf' = [k_buf EXCEPT ![k_head] = ch]
          /\ k_head' = After(k_head) /\ k_tail' = k_tail
          /\ k_tail # After(k_head)
          /\ UNCHANGED <<pc, c, slot>>
        BY <1>1, <1>3 DEF enqueue, Full, loopVars
    <2>2. /\ Filled < KBD_BUF_SIZE - 1 /\ Filled \in Nat
          /\ Filled' = Filled + 1
          /\ Ahead(k_tail, Filled) = k_head
        BY <1>1, <2>1 DEF Filled, After, Ahead
    <2>3. \A n \in 1 .. Filled : Ahead(k_tail, n - 1) \in 0 .. KBD_BUF_SIZE - 1
                                 /\ Ahead(k_tail, n - 1) # k_head
        BY <1>1 DEF Filled, Ahead
    <2>4. /\ k_buf'[k_head] = ch
          /\ \A x \in Index : x # k_head => k_buf'[x] = k_buf[x]
          /\ k_buf' \in [Index -> Chars \cup {NUL}]
        BY <1>1, <2>1 DEF Index
    <2>5. \A n \in 1 .. Filled :
              k_buf'[Ahead(k_tail, n - 1)] = k_buf[Ahead(k_tail, n - 1)]
        BY <2>3, <2>4 DEF Index
    <2>6. \A n \in 1 .. Filled' : k_buf'[Ahead(k_tail, n - 1)] \in Chars
        <3> SUFFICES ASSUME NEW n \in 1 .. Filled'
                     PROVE  k_buf'[Ahead(k_tail, n - 1)] \in Chars
            OBVIOUS
        <3>1. CASE n \in 1 .. Filled
            BY <1>1, <2>5, <3>1 DEF LoopInv
        <3>2. CASE n = Filled + 1
            <4>1. n - 1 = Filled
                BY <2>2, <3>2
            <4>2. QED
                BY <2>2, <2>4, <4>1
        <3>3. QED
            BY <2>2, <3>1, <3>2
    <2>7. pc = "late" => slot # k_head /\ k_buf'[slot] = k_buf[slot]
        BY <1>1, <2>1, <2>4 DEF LoopInv, Index
    <2>8. k_head' # k_tail
        BY <2>1
    <2>9. pc = "advance" => k_buf'[k_tail] = k_buf[k_tail]
        BY <1>1, <2>4 DEF LoopInv, Index
    <2>10. LoopInv'
        BY <1>1, <2>1, <2>6, <2>7, <2>8, <2>9 DEF LoopInv, Ahead, After
    <2>11. k_head' \in Index
        BY <1>1, <2>1 DEF After, Index
    <2>12. QED
        BY <2>1, <2>2, <2>4, <2>5, <2>7, <2>10, <2>11
<1>4. QED
    BY <1>2, <1>3

\* The same for the consumer's store of k_tail.
LEMMA AdvanceStep ==
    ASSUME KeyboardInv, k_head # k_tail,
           k_tail' = NextTail, UNCHANGED <<k_buf, k_head>>
    PROVE  /\ k_tail' = After(k_tail) /\ k_tail' \in Index
           /\ Filled > 0 /\ Filled' = Filled - 1
           /\ \A n \in 1 .. Filled' : /\ n + 1 \in 1 .. Filled
                                      /\ Ahead(k_tail', n - 1) = Ahead(k_tail, n)
           /\ Ahead(k_tail, 0) = k_tail
           /\ k_buf[k_tail] \in Chars
           /\ \A n \in 1 .. Filled' : k_buf'[Ahead(k_tail', n - 1)] \in Chars
<1>1. /\ KBD_BUF_SIZE \in Nat /\ KBD_BUF_SIZE > 1
      /\ k_head \in 0 .. KBD_BUF_SIZE - 1 /\ k_tail \in 0 .. KBD_BUF_SIZE - 1
      /\ LoopInv
    BY KeyboardAssumption DEF KeyboardInv, KeyboardTypeOK, Index
<1>2. k_tail' = After(k_tail) /\ k_tail' \in Index
    BY <1>1, Remainders DEF NextTail, Index
<1>3. Filled \in Nat /\ Filled > 0 /\ Filled' = Filled - 1
    BY <1>1, <1>2 DEF Filled, After
<1>4. \A n \in 1 .. Filled' : /\ n + 1 \in 1 .. Filled
                              /\ Ahead(k_tail', n - 1) = Ahead(k_tail, n)
    BY <1>1, <1>2, <1>3 DEF Ahead, After, Filled
<1>5. Ahead(k_tail, 0) = k_tail
    BY <1>1 DEF Ahead
<1>6. k_buf[k_tail] \in Chars
    <2>1. 1 \in 1 .. Filled /\ 1 - 1 = 0
        BY <1>3
    <2>2. QED
        BY <1>1, <1>5, <2>1 DEF LoopInv
<1>7. \A n \in 1 .. Filled' : k_buf'[Ahead(k_tail', n - 1)] \in Chars
    <2> SUFFICES ASSUME NEW n \in 1 .. Filled'
                 PROVE  k_buf'[Ahead(k_tail', n - 1)] \in Chars
        OBVIOUS
    <2>1. n + 1 \in 1 .. Filled /\ (n + 1) - 1 = n
        BY <1>3, <1>4
    <2>2. k_buf[Ahead(k_tail, (n + 1) - 1)] \in Chars
        BY <1>1, <2>1 DEF LoopInv
    <2>3. QED
        BY <1>4, <2>1, <2>2
<1>8. QED
    BY <1>2, <1>3, <1>4, <1>5, <1>6, <1>7

-----------------------------------------------------------------------------
(* The invariant holds                                                     *)

\* Initially the ring is empty.
LEMMA InitInv == KeyboardInit => KeyboardInv
<1> SUFFICES ASSUME KeyboardInit PROVE KeyboardInv
    OBVIOUS
<1>1. KeyboardTypeOK
    <2>1. 0 \in Index
        BY KeyboardAssumption DEF Index
    <2>2. QED
        BY <2>1 DEF KeyboardInit, RingInit, KeyboardTypeOK
<1>2. LoopInv
    BY DEF KeyboardInit, RingInit, LoopInv, Filled
<1>3. QED
    BY <1>1, <1>2 DEF KeyboardInv

\* A byte from the keyboard, whatever byte it is.
LEMMA ByteKeepsInv ==
    ASSUME KeyboardInv, NEW code \in 0 .. 255, keyboard_on_irq(code),
           UNCHANGED loopVars, held' \in SUBSET ShiftKeys, prefix' \in BOOLEAN
    PROVE  KeyboardInv'
<1>1. KeyboardTypeOK /\ LoopInv
    BY DEF KeyboardInv
<1>2. /\ k_shift' \in {0, 1} /\ k_caps' \in {0, 1} /\ k_e0' \in {0, 1}
      /\ UNCHANGED ringVars \/ \E ch \in Chars : enqueue(ch)
    BY <1>1, IrqStep
<1>3. /\ k_buf' \in [Index -> Chars \cup {NUL}]
      /\ k_head' \in Index /\ k_tail' \in Index
      /\ LoopInv'
    <2>1. CASE UNCHANGED ringVars
        <3>1. UNCHANGED <<k_buf, k_head, k_tail, pc, c, slot>>
            BY <2>1 DEF ringVars, loopVars
        <3>2. QED
            BY <1>1, <3>1 DEF LoopInv, Filled, KeyboardTypeOK
    <2>2. CASE \E ch \in Chars : enqueue(ch)
        <3>1. PICK ch \in Chars : enqueue(ch)
            BY <2>2
        <3>2. QED
            BY <1>1, <3>1, EnqueueStep DEF KeyboardTypeOK
    <2>3. QED
        BY <1>2, <2>1, <2>2
<1>4. KeyboardTypeOK'
    BY <1>1, <1>2, <1>3 DEF KeyboardTypeOK, loopVars
<1>5. QED
    BY <1>3, <1>4 DEF KeyboardInv

\* The keyboard sends bytes.
LEMMA KeyCodes ==
    /\ \A key \in PlainKeys : key \in 0 .. 255 /\ key + SC_RELEASE \in 0 .. 255
    /\ SC_EXTENDED \in 0 .. 255
    /\ \A code \in ExtendedKeys : code \in 0 .. 255
BY KeyboardAssumption DEF SC_RELEASE, SC_EXTENDED

\* Any step of the consumer.
LEMMA ConsumeKeepsInv ==
    ASSUME KeyboardInv, Consume
    PROVE  KeyboardInv'
<1>1. KeyboardTypeOK /\ LoopInv
    BY DEF KeyboardInv
<1>2. CASE keyboard_has_key \/ DequeueCheck \/ LoadChar \/ LateLoad \/ Echo
    <2>1. UNCHANGED <<k_buf, k_head, k_tail, k_shift, k_caps, k_e0, held, prefix>>
        BY <1>2 DEF irqVars, ringVars, modVars, keyboard_has_key,
            DequeueCheck, LoadChar, LateLoad, Echo, keyVars
    <2>2. k_head # k_tail => k_buf[k_tail] \in Chars
        <3>1. k_head # k_tail => Filled \in Nat /\ Filled > 0
                                 /\ Ahead(k_tail, 1 - 1) = k_tail
            BY <1>1, KeyboardAssumption DEF KeyboardTypeOK, Index, Filled, Ahead
        <3>2. QED
            BY <1>1, <3>1 DEF LoopInv
    <2>3. 0 \in Index
        BY KeyboardAssumption DEF Index
    <2>4. KeyboardTypeOK'
        <3>1. /\ pc' \in {"poll", "dequeue", "take", "advance", "late", "echo"}
              /\ c' \in Chars \cup {NUL} /\ slot' \in Index
            BY <1>1, <1>2, <2>3 DEF keyboard_has_key, DequeueCheck, LoadChar,
                LateLoad, Echo, KeyboardTypeOK
        <3>2. QED
            BY <1>1, <2>1, <3>1 DEF KeyboardTypeOK
    <2>5. LoopInv'
        BY <1>1, <1>2, <2>1, <2>2 DEF keyboard_has_key, LoopInv, Filled,
            DequeueCheck, LoadChar, LateLoad, Echo, KeyboardTypeOK
    <2>6. QED
        BY <2>4, <2>5 DEF KeyboardInv
<1>3. CASE AdvanceLast
    <2>1. /\ k_tail' = NextTail /\ pc = "advance" /\ pc' = "echo"
          /\ UNCHANGED <<k_buf, k_head, k_shift, k_caps, k_e0, c, slot, held, prefix>>
        BY <1>3 DEF AdvanceLast, AdvanceTail, modVars, keyVars
    <2>2. k_head # k_tail /\ c = k_buf[k_tail]
        BY <1>1, <2>1 DEF LoopInv
    <2>3. QED
        BY <1>1, <2>1, <2>2, AdvanceStep DEF KeyboardInv, KeyboardTypeOK, LoopInv
<1>4. CASE AdvanceFirst
    <2>1. /\ k_tail' = NextTail /\ pc = "take" /\ pc' = "late" /\ slot' = k_tail
          /\ UNCHANGED <<k_buf, k_head, k_shift, k_caps, k_e0, c, held, prefix>>
        BY <1>4 DEF AdvanceFirst, AdvanceTail, modVars, keyVars
    <2>2. k_head # k_tail
        BY <1>1, <2>1 DEF LoopInv
    <2>3. QED
        BY <1>1, <2>1, <2>2, AdvanceStep DEF KeyboardInv, KeyboardTypeOK, LoopInv, After
<1>5. QED
    BY <1>2, <1>3, <1>4 DEF Consume

\* Every step keeps the invariant.
LEMMA NextInv == KeyboardInv /\ [KeyboardNext]_keyboardVars => KeyboardInv'
<1> SUFFICES ASSUME KeyboardInv, [KeyboardNext]_keyboardVars PROVE KeyboardInv'
    OBVIOUS
<1>1. held \in SUBSET ShiftKeys /\ prefix \in BOOLEAN
    BY DEF KeyboardInv, KeyboardTypeOK
<1>2. ASSUME NEW key \in PlainKeys, PressKey(key) PROVE KeyboardInv'
    BY <1>1, <1>2, KeyCodes, ByteKeepsInv DEF PressKey
<1>3. ASSUME NEW key \in PlainKeys, ReleaseKey(key) PROVE KeyboardInv'
    BY <1>1, <1>3, KeyCodes, ByteKeepsInv DEF ReleaseKey
<1>4. CASE Prefix
    BY <1>1, <1>4, KeyCodes, ByteKeepsInv DEF Prefix
<1>5. ASSUME NEW code \in ExtendedKeys, ExtendedKey(code) PROVE KeyboardInv'
    BY <1>1, <1>5, KeyCodes, ByteKeepsInv DEF ExtendedKey
<1>6. CASE Consume
    BY <1>6, ConsumeKeepsInv
<1>7. CASE UNCHANGED keyboardVars
    BY <1>7 DEF keyboardVars, irqVars, ringVars, modVars, loopVars, keyVars,
        KeyboardInv, KeyboardTypeOK, LoopInv, Filled
<1>8. QED
    BY <1>2, <1>3, <1>4, <1>5, <1>6, <1>7 DEF KeyboardNext

\* So it is an invariant.
LEMMA KeyboardInvHolds == KeyboardSpec => []KeyboardInv
BY InitInv, NextInv, PTL DEF KeyboardSpec

\* Every index of the ring that the driver or the consumer forms is inside
\* the ring, and what it keeps there is a character.
THEOREM KeyboardTypes == KeyboardSpec => []KeyboardTypeOK
<1>1. KeyboardInv => KeyboardTypeOK
    BY DEF KeyboardInv
<1>2. QED
    BY <1>1, KeyboardInvHolds, PTL

\* kmain never prints the NUL of an empty ring nor a slot never written, for
\* every size of the ring and either order of the load and the store.
THEOREM KeyboardNoNulEcho == KeyboardSpec => []NoNulEcho
<1>1. KeyboardInv => NoNulEcho
    BY DEF KeyboardInv, LoopInv, NoNulEcho
<1>2. QED
    BY <1>1, KeyboardInvHolds, PTL

-----------------------------------------------------------------------------
(* The modifiers                                                           *)

\* With one Shift key the driver's flag cannot disagree with it.
FlagInv == KeyboardInv /\ FlagsTrackKeys /\ held \subseteq PlainKeys

\* A key pressed or released outside a two-byte sequence.
LEMMA KeyKeepsFlags ==
    ASSUME ~ (ShiftKeys \subseteq PlainKeys), FlagInv, NEW key \in PlainKeys,
           PressKey(key) \/ ReleaseKey(key)
    PROVE  FlagsTrackKeys' /\ held' \subseteq PlainKeys
<1>1. /\ key \in 0 .. 127 /\ key # 96
      /\ DOMAIN Unshifted \subseteq 0 .. 127
      /\ DOMAIN Unshifted \cap ShiftKeys = {}
      /\ SC_CAPS \notin ShiftKeys
    BY KeyboardAssumption DEF SC_EXTENDED, SC_RELEASE, ShiftKeys, SC_CAPS,
        SC_LSHIFT, SC_RSHIFT
<1>2. /\ k_shift \in {0, 1} /\ k_e0 \in {0, 1} /\ held \in SUBSET ShiftKeys
      /\ held \subseteq PlainKeys
      /\ k_shift = 1 <=> held # {}
      /\ k_e0 = 1 <=> prefix
    BY DEF FlagInv, KeyboardInv, KeyboardTypeOK, FlagsTrackKeys
<1>3. ~ prefix /\ prefix' = prefix /\ ~ Swallows
    BY <1>2 DEF PressKey, ReleaseKey, Swallows
<1>4. ASSUME NEW s \in ShiftKeys, NEW r \in ShiftKeys, s \in PlainKeys, r \in PlainKeys
      PROVE  s = r
    BY <1>4 DEF ShiftKeys
<1>5. CASE PressKey(key)
    <2>1. key # SC_EXTENDED /\ key % SC_RELEASE = key /\ ~ (key >= SC_RELEASE)
        BY <1>1 DEF SC_EXTENDED, SC_RELEASE
    <2>2. keyboard_on_irq(key) /\ held' = held \cup ({key} \cap ShiftKeys)
        BY <1>5 DEF PressKey
    <2>3. k_e0' = k_e0
        BY <1>3, <2>1, <2>2 DEF keyboard_on_irq, irqVars, modVars
    <2>4. CASE key \in ShiftKeys
        <3>1. k_shift' = 1
            BY <1>1, <1>3, <2>1, <2>2, <2>4 DEF keyboard_on_irq
        <3>2. QED
            BY <1>2, <1>3, <2>2, <2>3, <2>4, <3>1 DEF FlagsTrackKeys
    <2>5. CASE key \notin ShiftKeys
        <3>1. k_shift' = k_shift
            BY <1>3, <2>1, <2>2, <2>5 DEF keyboard_on_irq, irqVars, modVars
        <3>2. held' = held
            BY <2>2, <2>5
        <3>3. QED
            BY <1>2, <1>3, <2>3, <3>1, <3>2 DEF FlagsTrackKeys
    <2>6. QED
        BY <2>4, <2>5
<1>6. CASE ReleaseKey(key)
    <2> DEFINE code == key + SC_RELEASE
    <2>1. /\ code # SC_EXTENDED /\ code % SC_RELEASE = key /\ code >= SC_RELEASE
          /\ code \notin DOMAIN Unshifted /\ code # SC_CAPS
        BY <1>1 DEF SC_EXTENDED, SC_RELEASE, SC_CAPS
    <2>2. /\ keyboard_on_irq(code) /\ held' = held \ {key}
          /\ key \in ShiftKeys => key \in held
        BY <1>6 DEF ReleaseKey
    <2> HIDE DEF code
    <2>3. k_e0' = k_e0
        BY <1>3, <2>1, <2>2 DEF keyboard_on_irq, irqVars, modVars
    <2>4. CASE key \in ShiftKeys
        <3>1. k_shift' = 0
            BY <1>3, <2>1, <2>2, <2>4 DEF keyboard_on_irq
        <3>2. held' = {}
            BY <1>2, <1>4, <2>2, <2>4
        <3>3. QED
            BY <1>2, <1>3, <2>3, <3>1, <3>2 DEF FlagsTrackKeys
    <2>5. CASE key \notin ShiftKeys
        <3>1. k_shift' = k_shift
            BY <1>3, <2>1, <2>2, <2>5 DEF keyboard_on_irq, irqVars, modVars
        <3>2. held' = held
            BY <1>2, <2>2, <2>5
        <3>3. QED
            BY <1>2, <1>3, <2>3, <3>1, <3>2 DEF FlagsTrackKeys
    <2>6. QED
        BY <2>4, <2>5
<1>7. QED
    BY <1>5, <1>6

\* A prefix byte, and the byte it makes the driver swallow.
LEMMA PrefixKeepsFlags ==
    ASSUME FlagInv, Prefix \/ \E code \in ExtendedKeys : ExtendedKey(code)
    PROVE  FlagsTrackKeys' /\ held' \subseteq PlainKeys
<1>1. /\ DOMAIN Unshifted \subseteq 0 .. 127
      /\ SC_EXTENDED \notin ExtendedKeys /\ SC_EXTENDED # SC_CAPS
      /\ SC_EXTENDED \notin 0 .. 127
    BY KeyboardAssumption DEF SC_EXTENDED, SC_CAPS
<1>2. /\ k_shift \in {0, 1} /\ k_e0 \in {0, 1} /\ held \subseteq PlainKeys
      /\ k_shift = 1 <=> held # {}
      /\ k_e0 = 1 <=> prefix
    BY DEF FlagInv, KeyboardInv, KeyboardTypeOK, FlagsTrackKeys
<1>3. CASE Prefix
    <2>1. k_e0' = 1 /\ k_shift' = k_shift
        BY <1>1, <1>3 DEF Prefix, keyboard_on_irq
    <2>2. QED
        BY <1>2, <1>3, <2>1 DEF Prefix, FlagsTrackKeys
<1>4. ASSUME NEW code \in ExtendedKeys, ExtendedKey(code)
      PROVE  FlagsTrackKeys' /\ held' \subseteq PlainKeys
    <2>1. k_e0' = 0 /\ k_shift' = k_shift
        BY <1>1, <1>2, <1>4 DEF ExtendedKey, keyboard_on_irq, Swallows
    <2>2. QED
        BY <1>2, <1>4, <2>1 DEF ExtendedKey, FlagsTrackKeys
<1>5. QED
    BY <1>3, <1>4

\* The Shift flag is set exactly while the Shift key is down, and the prefix
\* flag exactly between the two bytes of an extended key, for a keyboard on
\* which one Shift key is used: with two, releasing one clears the flag.
THEOREM KeyboardFlags ==
    ~ (ShiftKeys \subseteq PlainKeys) => (KeyboardSpec => []FlagsTrackKeys)
<1> SUFFICES ASSUME ~ (ShiftKeys \subseteq PlainKeys)
             PROVE  KeyboardSpec => []FlagsTrackKeys
    OBVIOUS
<1>1. KeyboardInit => FlagInv
    BY InitInv DEF FlagInv, KeyboardInit, RingInit, FlagsTrackKeys
<1>2. FlagInv /\ [KeyboardNext]_keyboardVars => FlagInv'
    <2> SUFFICES ASSUME FlagInv, [KeyboardNext]_keyboardVars PROVE FlagInv'
        OBVIOUS
    <2>1. KeyboardInv'
        BY NextInv DEF FlagInv
    <2>2. CASE \E key \in PlainKeys : PressKey(key) \/ ReleaseKey(key)
        BY <2>1, <2>2, KeyKeepsFlags DEF FlagInv
    <2>3. CASE Prefix \/ \E code \in ExtendedKeys : ExtendedKey(code)
        BY <2>1, <2>3, PrefixKeepsFlags DEF FlagInv
    <2>4. CASE Consume \/ UNCHANGED keyboardVars
        <3>1. UNCHANGED <<k_shift, k_e0, held, prefix>>
            BY <2>4 DEF Consume, keyboard_has_key, DequeueCheck, LoadChar,
                AdvanceLast, AdvanceFirst, AdvanceTail, LateLoad, Echo,
                keyboardVars, irqVars, modVars, keyVars
        <3>2. QED
            BY <2>1, <3>1 DEF FlagInv, FlagsTrackKeys
    <2>5. QED
        BY <2>2, <2>3, <2>4 DEF KeyboardNext
<1>3. FlagInv => FlagsTrackKeys
    BY DEF FlagInv
<1>4. QED
    BY <1>1, <1>2, <1>3, PTL DEF KeyboardSpec

-----------------------------------------------------------------------------
(* The ring implements a bounded FIFO                                      *)

\* The contents of a ring without remainders, as a sequence.
View(b, h, t) == [n \in 1 .. Gap(h, t) |-> b[Ahead(t, n - 1)]]

\* It is a sequence of characters, as long as the ring is filled.
LEMMA ViewSeq ==
    ASSUME NEW b, NEW h \in Index, NEW t \in Index,
           \A n \in 1 .. Gap(h, t) : b[Ahead(t, n - 1)] \in Chars
    PROVE  /\ View(b, h, t) \in Seq(Chars)
           /\ Len(View(b, h, t)) = Gap(h, t) /\ Gap(h, t) \in Nat
           /\ \A n \in 1 .. Gap(h, t) : View(b, h, t)[n] = b[Ahead(t, n - 1)]
<1>1. Gap(h, t) \in Nat
    BY Remainders, KeyboardAssumption DEF Index
<1>2. View(b, h, t) \in [1 .. Gap(h, t) -> Chars]
    BY DEF View
<1>3. View(b, h, t) \in Seq(Chars)
    BY <1>1, <1>2
<1>4. QED
    BY <1>1, <1>2, <1>3 DEF View

\* What the invariant says of the queue.
LEMMA QueueFacts ==
    ASSUME KeyboardInv
    PROVE  /\ Contents = View(k_buf, k_head, k_tail)
           /\ Contents \in Seq(Chars)
           /\ Len(Contents) = Filled /\ Filled \in Nat
           /\ \A n \in 1 .. Filled : Contents[n] = k_buf[Ahead(k_tail, n - 1)]
<1>1. k_head \in Index /\ k_tail \in Index /\ Filled = Gap(k_head, k_tail)
    BY DEF KeyboardInv, KeyboardTypeOK, Filled, Gap
<1>2. Contents = View(k_buf, k_head, k_tail)
    BY <1>1, ContentsFilled DEF Contents, Waiting, View
<1>3. QED
    BY <1>1, <1>2, ViewSeq DEF KeyboardInv, LoopInv

\* The same after the step.
LEMMA QueueFactsPrimed ==
    ASSUME KeyboardInv'
    PROVE  /\ Contents' = View(k_buf', k_head', k_tail')
           /\ Contents' \in Seq(Chars)
           /\ Len(Contents') = Filled' /\ Filled' \in Nat
           /\ \A n \in 1 .. Filled' : Contents'[n] = k_buf'[Ahead(k_tail', n - 1)]
<1>1. k_head' \in Index /\ k_tail' \in Index /\ Filled' = Gap(k_head', k_tail')
    BY DEF KeyboardInv, KeyboardTypeOK, Filled, Gap
<1>2. Contents' = View(k_buf', k_head', k_tail')
    BY <1>1, ContentsFilled DEF Contents, Waiting, View
<1>3. QED
    BY <1>1, <1>2, ViewSeq DEF KeyboardInv, LoopInv

\* What the consumer has taken and not yet printed, as Fifo is instantiated.
Hand == CASE pc = "late" -> k_buf[slot]
          [] pc = "echo" -> c
          [] OTHER       -> NUL

\* An interrupt that enqueues a character offers it to the FIFO.
LEMMA EnqueueOffers ==
    ASSUME KeyboardInv, KeyboardInv', NEW ch \in Chars, enqueue(ch),
           UNCHANGED loopVars
    PROVE  Fifo!Offer(ch)
<1>1. UNCHANGED <<pc, c, slot>>
    BY DEF loopVars
<1>2. Hand' = Hand
    BY <1>1, EnqueueStep DEF Hand
<1>3. Contents' = IF Len(Contents) < KBD_BUF_SIZE - 1
                  THEN Append(Contents, ch) ELSE Contents
    <2>1. CASE Filled = KBD_BUF_SIZE - 1 /\ UNCHANGED ringVars
        <3>1. Contents' = Contents
            BY <2>1 DEF ringVars, Contents, Waiting
        <3>2. ~ (Len(Contents) < KBD_BUF_SIZE - 1)
            BY <2>1, QueueFacts
        <3>3. QED
            BY <3>1, <3>2
    <2>2. CASE ~ (Filled = KBD_BUF_SIZE - 1 /\ UNCHANGED ringVars)
        <3>1. /\ Filled < KBD_BUF_SIZE - 1
              /\ Filled' = Filled + 1 /\ k_tail' = k_tail
              /\ k_buf'[Ahead(k_tail, Filled)] = ch
              /\ \A n \in 1 .. Filled :
                     k_buf'[Ahead(k_tail, n - 1)] = k_buf[Ahead(k_tail, n - 1)]
            BY <2>2, EnqueueStep
        <3> DEFINE A == Append(Contents, ch)
        <3>2. /\ A \in Seq(Chars) /\ Len(A) = Filled + 1
              /\ \A n \in 1 .. Filled : A[n] = Contents[n]
              /\ A[Filled + 1] = ch
            BY QueueFacts, AppendProperties
        <3>3. Len(Contents') = Filled + 1 /\ Contents' \in Seq(Chars)
            BY <3>1, QueueFactsPrimed
        <3> HIDE DEF A
        <3>4. ASSUME NEW n \in 1 .. Filled + 1 PROVE Contents'[n] = A[n]
            <4>1. Filled \in Nat
                BY QueueFacts
            <4>2. Contents'[n] = k_buf'[Ahead(k_tail, n - 1)]
                BY <3>1, QueueFactsPrimed
            <4>3. CASE n \in 1 .. Filled
                BY <3>1, <3>2, <4>2, <4>3, QueueFacts
            <4>4. CASE n = Filled + 1
                <5>1. n - 1 = Filled
                    BY <4>1, <4>4
                <5>2. QED
                    BY <3>1, <3>2, <4>2, <4>4, <5>1
            <4>5. QED
                BY <4>1, <4>3, <4>4
        <3>5. Contents' = A
            BY <3>2, <3>3, <3>4, SeqEqual
        <3>6. Len(Contents) < KBD_BUF_SIZE - 1
            BY <3>1, QueueFacts
        <3>7. QED
            BY <3>5, <3>6 DEF A
    <2>3. QED
        BY <2>1, <2>2
<1>4. QED
    BY <1>2, <1>3 DEF Fifo!Offer, Hand

\* Whichever access comes first, storing k_tail takes the oldest character.
LEMMA AdvanceTakes ==
    ASSUME KeyboardInv, KeyboardInv', AdvanceLast \/ AdvanceFirst
    PROVE  Fifo!Take
<1>1. /\ k_tail' = NextTail /\ UNCHANGED <<k_buf, k_head, c>>
      /\ pc \in {"advance", "take"}
      /\ \/ pc = "advance" /\ pc' = "echo"
         \/ pc = "take" /\ pc' = "late" /\ slot' = k_tail
    BY DEF AdvanceLast, AdvanceFirst, AdvanceTail
<1>2. k_head # k_tail /\ (pc = "advance" => c = k_buf[k_tail])
    BY <1>1 DEF KeyboardInv, LoopInv
<1>3. Hand = NUL /\ Hand' = k_buf[k_tail]
    BY <1>1, <1>2 DEF Hand
<1>4. /\ Filled > 0 /\ Filled' = Filled - 1
      /\ \A n \in 1 .. Filled' : /\ n + 1 \in 1 .. Filled
                                 /\ Ahead(k_tail', n - 1) = Ahead(k_tail, n)
      /\ Ahead(k_tail, 0) = k_tail
    BY <1>1, <1>2, AdvanceStep
<1>5. Contents # <<>> /\ Head(Contents) = k_buf[k_tail]
    <2>1. Len(Contents) > 0 /\ Contents \in Seq(Chars) /\ 1 \in 1 .. Filled /\ 1 - 1 = 0
        BY <1>4, QueueFacts
    <2>2. Contents[1] = k_buf[k_tail]
        BY <1>4, <2>1, QueueFacts
    <2>3. QED
        BY <2>1, <2>2, EmptySeq
<1>6. Contents' = Tail(Contents)
    <2> DEFINE T == Tail(Contents)
    <2>1. /\ T \in Seq(Chars) /\ Len(T) = Filled - 1
          /\ \A n \in 1 .. Filled - 1 : T[n] = Contents[n + 1]
        BY <1>5, QueueFacts, HeadTailProperties
    <2>2. Contents' \in Seq(Chars) /\ Len(Contents') = Filled - 1
        BY <1>4, QueueFactsPrimed
    <2> HIDE DEF T
    <2>3. ASSUME NEW n \in 1 .. Filled - 1 PROVE Contents'[n] = T[n]
        <3>1. Filled \in Nat /\ n + 1 \in 1 .. Filled /\ (n + 1) - 1 = n
            BY <1>4, QueueFacts
        <3>2. Contents'[n] = k_buf'[Ahead(k_tail, n)]
            BY <1>4, QueueFactsPrimed
        <3>3. Contents[n + 1] = k_buf[Ahead(k_tail, (n + 1) - 1)]
            BY <3>1, QueueFacts
        <3>4. QED
            BY <1>1, <2>1, <3>1, <3>2, <3>3
    <2>4. QED
        BY <2>1, <2>2, <2>3, SeqEqual DEF T
<1>7. QED
    BY <1>3, <1>5, <1>6 DEF Fifo!Take, Hand

\* A step of the consumer that is not the store of k_tail.
LEMMA OthersStutter ==
    ASSUME KeyboardInv,
           keyboard_has_key \/ DequeueCheck \/ LoadChar \/ LateLoad
    PROVE  UNCHANGED Fifo!fifoVars
<1>1. UNCHANGED <<k_buf, k_head, k_tail>>
    BY DEF keyboard_has_key, DequeueCheck, LoadChar, LateLoad, irqVars, ringVars
<1>2. Contents' = Contents
    BY <1>1 DEF Contents, Waiting
<1>3. Hand' = Hand
    <2>1. DequeueCheck => pc' = "take"
        BY DEF DequeueCheck, KeyboardInv, LoopInv
    <2>2. QED
        BY <1>1, <2>1 DEF Hand, keyboard_has_key, DequeueCheck, LoadChar, LateLoad
<1>4. QED
    BY <1>2, <1>3 DEF Fifo!fifoVars, Hand

\* The driver's ring, drained by kmain's loop between interrupts, is a
\* bounded FIFO: no character is lost, repeated, changed or reordered, and
\* one is dropped only when KBD_BUF_SIZE - 1 are waiting.
THEOREM KeyboardImplementsFifo == KeyboardSpec => ImplementsFifo
<1>1. KeyboardInit => Fifo!FInit
    <2> SUFFICES ASSUME KeyboardInit PROVE Fifo!FInit
        OBVIOUS
    <2>1. KeyboardInv /\ Filled = 0
        BY InitInv DEF KeyboardInit, RingInit, Filled
    <2>2. Contents = <<>>
        BY <2>1, QueueFacts, EmptySeq
    <2>3. Hand = NUL
        BY DEF Hand, KeyboardInit
    <2>4. QED
        BY <2>2, <2>3 DEF Fifo!FInit, Hand
<1>2. KeyboardInv /\ KeyboardInv' /\ [KeyboardNext]_keyboardVars
          => [Fifo!FNext]_(Fifo!fifoVars)
    <2> SUFFICES ASSUME KeyboardInv, KeyboardInv', [KeyboardNext]_keyboardVars
                 PROVE  Fifo!FNext \/ UNCHANGED Fifo!fifoVars
        OBVIOUS
    <2>1. ASSUME NEW code \in 0 .. 255, keyboard_on_irq(code), UNCHANGED loopVars
          PROVE  Fifo!FNext \/ UNCHANGED Fifo!fifoVars
        <3>1. CASE UNCHANGED ringVars
            <4>1. UNCHANGED <<Contents, Hand>>
                BY <2>1, <3>1 DEF ringVars, loopVars, Contents, Waiting, Hand
            <4>2. QED
                BY <4>1 DEF Fifo!fifoVars, Hand
        <3>2. CASE \E ch \in Chars : enqueue(ch)
            BY <2>1, <3>2, EnqueueOffers DEF Fifo!FNext
        <3>3. QED
            BY <2>1, <3>1, <3>2, IrqStep DEF KeyboardInv
    <2>2. CASE \/ \E key \in PlainKeys : PressKey(key) \/ ReleaseKey(key)
               \/ Prefix
               \/ \E code \in ExtendedKeys : ExtendedKey(code)
        BY <2>1, <2>2, KeyCodes DEF PressKey, ReleaseKey, Prefix, ExtendedKey
    <2>3. CASE AdvanceLast \/ AdvanceFirst
        BY <2>3, AdvanceTakes DEF Fifo!FNext
    <2>4. CASE keyboard_has_key \/ DequeueCheck \/ LoadChar \/ LateLoad
        BY <2>4, OthersStutter
    <2>5. CASE Echo
        <3>1. Contents' = Contents
            BY <2>5 DEF Echo, irqVars, ringVars, Contents, Waiting
        <3>2. Hand # NUL /\ Hand' = NUL
            BY <2>5, CharsNotNul DEF Echo, Hand, KeyboardInv, LoopInv
        <3>3. Fifo!Give
            BY <3>1, <3>2 DEF Fifo!Give, Hand
        <3>4. QED
            BY <3>3 DEF Fifo!FNext
    <2>6. CASE UNCHANGED keyboardVars
        <3>1. UNCHANGED <<Contents, Hand>>
            BY <2>6 DEF keyboardVars, irqVars, ringVars, loopVars, Contents,
                Waiting, Hand
        <3>2. QED
            BY <3>1 DEF Fifo!fifoVars, Hand
    <2>7. QED
        BY <2>2, <2>3, <2>4, <2>5, <2>6 DEF KeyboardNext, Consume
<1>3. QED
    BY <1>1, <1>2, KeyboardInvHolds, PTL DEF KeyboardSpec, ImplementsFifo, Fifo!FSpec

=============================================================================
