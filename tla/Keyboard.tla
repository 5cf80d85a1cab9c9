------------------------------ MODULE Keyboard ------------------------------
(***************************************************************************)
(* The PS/2 driver, kernel/arch/x86_64/keyboard.c, and the loop of kmain   *)
(* that drains it.                                                         *)
(*                                                                         *)
(* The producer, keyboard_on_irq, runs from an interrupt gate on the only  *)
(* core, so it is one step.  The consumer runs with interrupts on and can  *)
(* be interrupted between any two accesses to the ring, so its code is one *)
(* access per step.  k_head and k_tail are volatile and k_buf is not: the  *)
(* compiler may load k_buf[k_tail] before or after it stores k_tail, and   *)
(* the model takes both orders.                                            *)
(***************************************************************************)
EXTENDS Integers, Sequences

CONSTANTS
    KBD_BUF_SIZE,   \* slots of the ring (128)
    Unshifted,      \* k_unshifted on the codes that have a character
    Shifted,        \* k_shifted on the same codes
    PlainKeys,      \* keys without a prefix that are pressed
    ExtendedKeys    \* second bytes of extended keys

NUL == 0

SC_RELEASE  == 128
SC_EXTENDED == 224
SC_LSHIFT   == 42
SC_RSHIFT   == 54
SC_CAPS     == 58

ShiftKeys == {SC_LSHIFT, SC_RSHIFT}

ASSUME KeyboardAssumption ==
    /\ KBD_BUF_SIZE \in Nat /\ KBD_BUF_SIZE > 1
    /\ Unshifted \in [DOMAIN Unshifted -> 1 .. 127]
    /\ DOMAIN Unshifted \subseteq 0 .. 127 \ (ShiftKeys \cup {SC_CAPS})
    /\ Shifted \in [DOMAIN Unshifted -> 1 .. 127]
    /\ PlainKeys \subseteq 0 .. 127 \ {SC_EXTENDED - SC_RELEASE}
    /\ ExtendedKeys \subseteq 0 .. 255 \ {SC_EXTENDED}

VARIABLES
    k_buf, k_head, k_tail,      \* the ring
    k_shift, k_caps, k_e0,      \* the modifiers
    pc,      \* where the consumer is
    c,       \* its local c: the character it holds
    slot,    \* the index it still has to load from, after storing k_tail
    held,    \* the Shift keys that are down
    prefix   \* has the keyboard sent 0xE0 and not yet the byte after it?

ringVars == <<k_buf, k_head, k_tail>>
modVars  == <<k_shift, k_caps, k_e0>>
irqVars  == <<ringVars, modVars>>
loopVars == <<pc, c, slot>>
keyVars  == <<held, prefix>>
keyboardVars == <<irqVars, loopVars, keyVars>>

Index == 0 .. KBD_BUF_SIZE - 1

-----------------------------------------------------------------------------
(* The producer                                                            *)

\* Mutant: the slot kept empty is used too.
FullTooLate == FALSE

\* The ring is full one slot early, so that full and empty differ.
Full == (k_head + 1) % KBD_BUF_SIZE = k_tail

\* Drop the newest on full.
enqueue(ch) ==
    \/ /\ Full
       /\ UNCHANGED ringVars
    \/ /\ ~ Full
       /\ k_buf' = [k_buf EXCEPT ![k_head] = ch]
       /\ k_head' = (k_head + 1) % KBD_BUF_SIZE
       /\ UNCHANGED k_tail

IsLetter(ch) == ch \in 97 .. 122          \* 'a' to 'z'
Upper(ch)    == ch - 32

\* The characters a key can give.
Chars == {Unshifted[k] : k \in DOMAIN Unshifted}
         \cup {Upper(Unshifted[k]) :
                   k \in {j \in DOMAIN Unshifted : IsLetter(Unshifted[j])}}
         \cup {Shifted[k] : k \in DOMAIN Unshifted}

\* The character for a code: Shift XOR CapsLock uppercases letters, Shift
\* alone picks the symbol of any other key.
Translate(code) ==
    LET base == Unshifted[code]
    IN  IF IsLetter(base)
        THEN IF (k_shift # 0) # (k_caps # 0) THEN Upper(base) ELSE base
        ELSE IF k_shift # 0 THEN Shifted[code] ELSE base

\* Mutant: a prefix byte does not swallow the byte after it.
NeverSwallows == FALSE

\* The byte before this one was the prefix.
Swallows == k_e0 # 0

\* One scancode.  The byte after 0xE0 is swallowed whatever it is; a
\* release changes nothing unless it is a Shift's.
keyboard_on_irq(code) ==
    \/ /\ code = SC_EXTENDED
       /\ k_e0' = 1
       /\ UNCHANGED <<ringVars, k_shift, k_caps>>
    \/ /\ code # SC_EXTENDED
       /\ Swallows
       /\ k_e0' = 0
       /\ UNCHANGED <<ringVars, k_shift, k_caps>>
    \/ /\ code # SC_EXTENDED
       /\ ~ Swallows
       /\ code % SC_RELEASE \in ShiftKeys
       /\ k_shift' = IF code >= SC_RELEASE THEN 0 ELSE 1
       /\ UNCHANGED <<ringVars, k_caps, k_e0>>
    \/ /\ ~ Swallows
       /\ code = SC_CAPS
       /\ k_caps' = 1 - k_caps
       /\ UNCHANGED <<ringVars, k_shift, k_e0>>
    \/ /\ ~ Swallows
       /\ code \in DOMAIN Unshifted
       /\ enqueue(Translate(code))
       /\ UNCHANGED modVars
    \/ /\ ~ Swallows
       /\ code # SC_EXTENDED
       /\ code % SC_RELEASE \notin ShiftKeys
       /\ code # SC_CAPS
       /\ code \notin DOMAIN Unshifted
       /\ UNCHANGED irqVars

-----------------------------------------------------------------------------
(* The keyboard (external): one byte per key pressed, repeated or released,*)
(* two for an extended key.                                                *)

PressKey(key) ==
    /\ ~ prefix
    /\ keyboard_on_irq(key)
    /\ held' = held \cup ({key} \cap ShiftKeys)
    /\ UNCHANGED <<prefix, loopVars>>

ReleaseKey(key) ==
    /\ ~ prefix
    /\ key \in ShiftKeys => key \in held
    /\ keyboard_on_irq(key + SC_RELEASE)
    /\ held' = held \ {key}
    /\ UNCHANGED <<prefix, loopVars>>

Prefix ==
    /\ ~ prefix
    /\ keyboard_on_irq(SC_EXTENDED)
    /\ prefix' = TRUE
    /\ UNCHANGED <<held, loopVars>>

ExtendedKey(code) ==
    /\ prefix
    /\ keyboard_on_irq(code)
    /\ prefix' = FALSE
    /\ UNCHANGED <<held, loopVars>>

-----------------------------------------------------------------------------
(* The consumer: while (keyboard_has_key()) { c = keyboard_dequeue(); ... }*)

keyboard_has_key ==
    /\ pc = "poll"
    /\ k_head # k_tail
    /\ pc' = "dequeue"
    /\ UNCHANGED <<irqVars, c, slot, keyVars>>

\* keyboard_dequeue looks again, and returns 0 if the ring is empty.
DequeueCheck ==
    /\ pc = "dequeue"
    /\ pc' = IF k_head = k_tail THEN "echo" ELSE "take"
    /\ c' = NUL
    /\ UNCHANGED <<irqVars, slot, keyVars>>

LoadChar ==
    /\ pc = "take"
    /\ c' = k_buf[k_tail]
    /\ pc' = "advance"
    /\ UNCHANGED <<irqVars, slot, keyVars>>

\* Mutant: the tail is not wrapped.
NextTailUnwrapped == k_tail + 1

NextTail == (k_tail + 1) % KBD_BUF_SIZE

AdvanceTail(to) ==
    /\ k_tail' = NextTail
    /\ pc' = to
    /\ UNCHANGED <<k_buf, k_head, modVars, c, keyVars>>

AdvanceLast == pc = "advance" /\ AdvanceTail("echo") /\ UNCHANGED slot

AdvanceFirst == pc = "take" /\ AdvanceTail("late") /\ slot' = k_tail

LateLoad ==
    /\ pc = "late"
    /\ c' = k_buf[slot]
    /\ pc' = "echo"
    /\ slot' = 0
    /\ UNCHANGED <<irqVars, keyVars>>

\* console_putchar(c) and serial_echo(c).
Echo ==
    /\ pc = "echo"
    /\ pc' = "poll"
    /\ c' = NUL
    /\ UNCHANGED <<irqVars, slot, keyVars>>

Consume ==
    \/ keyboard_has_key
    \/ DequeueCheck
    \/ LoadChar
    \/ AdvanceLast
    \/ AdvanceFirst
    \/ LateLoad
    \/ Echo

-----------------------------------------------------------------------------
\* keyboard_init; k_buf is in .bss.
RingInit ==
    /\ k_buf = [n \in Index |-> NUL]
    /\ k_head = 0 /\ k_tail = 0
    /\ k_shift = 0 /\ k_caps = 0 /\ k_e0 = 0
    /\ c = NUL /\ slot = 0
    /\ held = {} /\ prefix = FALSE

KeyboardInit == RingInit /\ pc = "poll"

KeyboardNext ==
    \/ \E key \in PlainKeys : PressKey(key) \/ ReleaseKey(key)
    \/ Prefix
    \/ \E code \in ExtendedKeys : ExtendedKey(code)
    \/ Consume

KeyboardSpec == KeyboardInit /\ [][KeyboardNext]_keyboardVars

-----------------------------------------------------------------------------
(* Properties                                                              *)

\* The types of the C declarations: the indices stay inside the ring.
KeyboardTypeOK ==
    /\ k_buf \in [Index -> Chars \cup {NUL}]
    /\ k_head \in Index /\ k_tail \in Index
    /\ k_shift \in {0, 1} /\ k_caps \in {0, 1} /\ k_e0 \in {0, 1}
    /\ pc \in {"poll", "dequeue", "take", "advance", "late", "echo"}
    /\ c \in Chars \cup {NUL}
    /\ slot \in Index
    /\ held \in SUBSET ShiftKeys
    /\ prefix \in BOOLEAN

\* kmain never prints the 0 that keyboard_dequeue returns on an empty ring,
\* nor a slot that was never written, whatever interrupts arrive between
\* keyboard_has_key and the load.
NoNulEcho == pc = "echo" => c \in Chars

\* How many characters wait, and which.
Waiting == (k_head - k_tail) % KBD_BUF_SIZE

Contents == [n \in 1 .. Waiting |-> k_buf[(k_tail + n - 1) % KBD_BUF_SIZE]]

\* The ring is a bounded FIFO of KBD_BUF_SIZE - 1 characters for either order
\* of the consumer's load and store: the slot it still has to load is never
\* the one the next interrupt writes, because of the slot kept empty.
Fifo == INSTANCE BoundedFifo WITH
    Capacity <- KBD_BUF_SIZE - 1,
    None     <- NUL,
    queue    <- Contents,
    hand     <- CASE pc = "late" -> k_buf[slot]
                  [] pc = "echo" -> c
                  [] OTHER       -> NUL

ImplementsFifo == Fifo!FSpec

\* The flags of the driver agree with the keys that are down: k_shift with
\* the Shift keys (keyboard.c:60, "Same codes with Shift held"), k_e0 with
\* the two-byte sequence under way.  Extended keys never count as Shift.
FlagsTrackKeys ==
    /\ k_shift = 1 <=> held # {}
    /\ k_e0 = 1 <=> prefix

=============================================================================
