------------------------------- MODULE Output -------------------------------
(***************************************************************************)
(* Everything the running kernel prints: the main loop of kmain, the       *)
(* logger core/klog.c, the console, the serial port                        *)
(* arch/x86_64/serial.c with a terminal behind it, and the report of       *)
(* exception_handler.                                                      *)
(*                                                                         *)
(* A step prints one character.  `out` and then `mirror` hold what the     *)
(* mainline code still has to print before it goes on; ticks arrive        *)
(* between any two characters, the UART sends and a terminal shows what it *)
(* was given.                                                              *)
(* Characters are ASCII codes; a piece of fixed text is one character.     *)
(***************************************************************************)
EXTENDS Console, InterruptFrame

CONSTANTS
    PIT_HZ,         \* ticks per second (100)
    UptimePeriod,   \* ticks between two uptime lines (100)
    Uptimes,        \* tick counts from which the run starts
    MaxTicks,       \* bound: ticks after that
    Keys,           \* characters the keyboard ring delivers
    MaxShown,       \* bound: length of a line of the terminal
    Faults,         \* exception vectors that may be raised
    Stats,          \* what pmm.c and kmalloc.c report, as numbers
    PROOF_VALUE

ASSUME OutputAssumption ==
    /\ PIT_HZ \in Nat \ {0} /\ UptimePeriod \in Nat \ {0}
    /\ Uptimes \subseteq Nat /\ MaxTicks \in Nat /\ MaxShown \in Nat
    /\ Keys \subseteq 1 .. 127
    /\ Faults \subseteq 0 .. IDT_EXCEPTION_COUNT - 1

CR      == 13
Zero    == 48                   \* '0'
Text    == 42                   \* stands for any piece of fixed text
NoByte  == -1
NoFault == -1

VARIABLES
    out,                    \* characters for the console, and after them
    mirror,                 \* characters for COM1
    s_ticks, last_uptime,
    now, stamp,             \* the two reads of the counter for one line
    at,                     \* the line of kmain's log that comes next
    serial_present,
    thr,                    \* the byte in the UART, or NoByte
    line, col,              \* the terminal's line and its cursor
    shown,                  \* history: what that line should read
    fault, stack            \* the exception, and its stack

printVars  == <<out, mirror>>
portVars   == <<serial_present, thr>>
termVars   == <<line, col>>
timeVars   == <<s_ticks, last_uptime, now, stamp>>
trapVars   == <<fault, stack>>
outputVars  == <<consoleVars, printVars, timeVars, at, portVars, termVars,
                 shown, trapVars>>

-----------------------------------------------------------------------------
(* Formatting                                                              *)

\* Mutant: the digits come out least significant first.
DecimalReversed(v) ==
    LET digits[w \in Nat] ==
            IF w < 10 THEN <<Zero + w>>
                      ELSE <<Zero + (w % 10)>> \o digits[w \div 10]
    IN  digits[v]

\* The digits of v, as klog_dec and klog_prefix print them.
Decimal(v) ==
    LET digits[w \in Nat] ==
            IF w < 10 THEN <<Zero + w>>
                      ELSE Append(digits[w \div 10], Zero + (w % 10))
    IN  digits[v]

HexDigit(n) == IF n < 10 THEN Zero + n ELSE 55 + n         \* 'A' is 65

\* console_puthex64: "0x" and 16 nibbles.
Hex64(v) ==
    LET shifted[k \in 0 .. 15] ==
            IF k = 0 THEN v ELSE shifted[k - 1] \div 16
    IN  <<Text>> \o [k \in 1 .. 16 |-> HexDigit(shifted[16 - k] % 16)]

KLOG_TIME_WIDTH == 12

\* secs.frac in a field of KLOG_TIME_WIDTH, blanks on the left.  frac counts
\* microseconds and gets six digits, most significant first.
TimeField(ticks) ==
    LET secs == Decimal(ticks \div PIT_HZ)
        frac == (ticks % PIT_HZ) * 10000
        div  == <<100000, 10000, 1000, 100, 10, 1>>
        len  == Len(secs) + 7
    IN  (IF len < KLOG_TIME_WIDTH
         THEN [k \in 1 .. KLOG_TIME_WIDTH - len |-> Blank] ELSE <<>>)
            \o secs \o <<46>>
            \o [k \in 1 .. 6 |-> Zero + ((frac \div div[k]) % 10)]

\* "[", the time, "] ", the subsystem and ": ".
klog_prefix(ticks) == <<Text>> \o TimeField(ticks) \o <<Text, Text, Text>>

\* serial_puts, where every caller has looked at serial_present.
serial_puts(chars) ==
    mirror' = IF serial_present THEN chars ELSE <<>>

\* Mutant: the cursor moves back, and the character stays.
serial_echoKeeps(ch) ==
    serial_puts(CASE ch = BS -> <<BS>>
                  [] ch = NL -> <<CR, NL>>
                  [] OTHER   -> <<ch>>)

serial_echo(ch) ==
    serial_puts(CASE ch = BS -> <<BS, Blank, BS>>
                  [] ch = NL -> <<CR, NL>>
                  [] OTHER   -> <<ch>>)

-----------------------------------------------------------------------------
(* One character leaves                                                    *)

ConsoleOut ==
    /\ out # <<>>
    /\ console_putchar(Head(out))
    /\ out' = Tail(out)
    /\ UNCHANGED <<mirror, timeVars, at, portVars, termVars, shown, trapVars>>

\* Mutant: the wrong bit of the line status is polled.
TxEmptyNever == FALSE

\* LSR_TX_EMPTY
TxEmpty == thr = NoByte

\* serial_putchar spins until the UART has room.
SerialOut ==
    /\ out = <<>>
    /\ mirror # <<>>
    /\ TxEmpty
    /\ thr' = Head(mirror)
    /\ mirror' = Tail(mirror)
    /\ UNCHANGED <<consoleVars, out, timeVars, at, serial_present, termVars, shown,
                   trapVars>>

\* The UART sends, and the terminal shows (external): '\n' moves down to an
\* empty line and keeps the column, anything else acts on the line.
Send ==
    /\ thr # NoByte
    /\ thr' = NoByte
    /\ line' = CASE thr \in {BS, CR} -> line
                 [] thr = NL -> [k \in 1 .. col |-> Blank]
                 [] OTHER -> IF col < Len(line)
                             THEN [line EXCEPT ![col + 1] = thr]
                             ELSE Append(line, thr)
    /\ col' = CASE thr = BS -> IF col > 0 THEN col - 1 ELSE 0
                [] thr = CR -> 0
                [] thr = NL -> col
                [] OTHER -> col + 1
    /\ UNCHANGED <<consoleVars, printVars, timeVars, at, serial_present,
                   shown, trapVars>>

-----------------------------------------------------------------------------
(* kmain: what it prints once a line is done                               *)

\* What klog prints after the prefix, in the order of kmain, and whether a
\* line of text goes to COM1 as well.  Interrupts are on from line 10 on.
BootLog ==
    LET dec(k) == <<Text>> \o Decimal(Stats[k])
    IN  <<[msg |-> <<Text>>, mirror |-> FALSE],         \* the banner
          [msg |-> <<Text>>, mirror |-> FALSE],         \* idt_init
          [msg |-> <<Text>>, mirror |-> FALSE],         \* pic_remap
          [msg |-> <<Text>>, mirror |-> FALSE],         \* idt_install_irqs
          [msg |-> <<Text>>, mirror |-> TRUE],          \* serial_init
          [msg |-> <<Text>>, mirror |-> TRUE],          \* pit_init
          [msg |-> <<Text>>, mirror |-> TRUE],          \* keyboard_init
          [msg |-> dec(1) \o dec(2) \o dec(3) \o dec(4) \o <<Text>>
                       \o Decimal(Stats[2] - Stats[4]), mirror |-> FALSE],
          [msg |-> <<Text, Text>> \o dec(5) \o dec(6), mirror |-> FALSE],
          [msg |-> <<Text>>, mirror |-> TRUE],          \* sti
          [msg |-> <<Text>> \o Hex64(PROOF_VALUE), mirror |-> FALSE],
          [msg |-> <<Text>>, mirror |-> FALSE]>>

StiLine == 10
Loop    == Len(BootLog) + 1     \* the main loop is reached
Due     == Len(BootLog) + 2     \* it has an uptime line to print

\* The mainline code runs, and is not in the middle of printing.
Printed == out = <<>> /\ mirror = <<>>

Free(place) == fault = NoFault /\ at = place /\ Printed

\* One line of the log.  klog_prefix reads the tick counter; the text for
\* COM1 ends in a bare '\n', so that the terminal stays in its column.
klog(place, next, msg, mirrored) ==
    /\ Free(place)
    /\ stamp' = s_ticks
    /\ out' = klog_prefix(s_ticks) \o msg \o <<NL>>
    /\ IF mirrored THEN serial_puts(<<Text, NL>>) ELSE UNCHANGED mirror
    /\ shown' = IF mirrored /\ serial_present
                THEN [k \in 1 .. Len(shown) + 1 |-> Blank]
                ELSE shown
    /\ at' = next
    /\ UNCHANGED <<consoleVars, s_ticks, last_uptime, now, portVars, termVars,
                   trapVars>>

\* console_clear is the first call; serial_init and serial_ok come before
\* anything reads their result.
Clear ==
    /\ Free(0)
    /\ console_clear
    /\ serial_present' \in BOOLEAN
    /\ at' = 1
    /\ UNCHANGED <<printVars, timeVars, thr, termVars, shown, trapVars>>

LogBoot ==
    /\ at \in DOMAIN BootLog
    /\ klog(at, at + 1, BootLog[at].msg, BootLog[at].mirror)

\* now = pit_ticks(), and a line is due.
UptimeDue ==
    /\ Free(Loop)
    /\ s_ticks - last_uptime >= UptimePeriod
    /\ now' = s_ticks
    /\ last_uptime' = s_ticks
    /\ at' = Due
    /\ UNCHANGED <<consoleVars, printVars, s_ticks, stamp, portVars, termVars,
                   shown, trapVars>>

\* The two numbers of the uptime line; the loop counts 100 ticks a second.
UptimeSecs   == now \div 100
UptimeTenths == (now \div 10) % 10

\* "uptime <secs>.<tenths>s (ticks 0x<now>)"
LogUptime ==
    klog(Due, Loop,
         <<Text>> \o Decimal(UptimeSecs) \o <<46>> \o Decimal(UptimeTenths)
             \o <<Text>> \o Hex64(now) \o <<Text>>,
         TRUE)

\* What a line editor makes of one more key.
Edited(text, key) ==
    CASE key = NL -> <<>>
      [] key = BS -> IF text = <<>> THEN text
                                    ELSE SubSeq(text, 1, Len(text) - 1)
      [] OTHER -> Append(text, key)

\* One key from the ring goes to the console, then to COM1.
Echo(key) ==
    /\ Free(Loop)
    /\ Len(shown) < MaxShown \/ key \in {BS, NL}
    /\ out' = <<key>>
    /\ serial_echo(key)
    /\ shown' = IF serial_present THEN Edited(shown, key) ELSE shown
    /\ UNCHANGED <<consoleVars, timeVars, at, portVars, termVars, trapVars>>

\* pit_on_tick, between any two steps of the loop.
Tick ==
    /\ at > StiLine
    /\ fault = NoFault
    /\ s_ticks + 1 \in UNION {u .. u + MaxTicks : u \in Uptimes}
    /\ s_ticks' = s_ticks + 1
    /\ UNCHANGED <<consoleVars, printVars, last_uptime, now, stamp, at,
                   portVars, termVars, shown, trapVars>>

-----------------------------------------------------------------------------
(* Exceptions                                                              *)

\* What the faulting instruction left in the registers.
Mine == [r \in Registers |->
            IF \E k \in DOMAIN TrapRegs : TrapRegs[k] = r
            THEN 200 + (CHOOSE k \in DOMAIN TrapRegs : TrapRegs[k] = r)
            ELSE 100 + (CHOOSE k \in DOMAIN PushOrder : PushOrder[k] = r)]

ErrorCode == 18

\* The report of exception_handler; the names of the vectors are text.
Report(s) ==
    <<NL, Text, Text, Text>> \o Hex64(Field(s, "vector")) \o <<Text, NL, Text>>
        \o Hex64(Field(s, "error")) \o <<Text>> \o Hex64(Field(s, "rip"))
        \o <<Text>> \o Hex64(Field(s, "cs"))
        \o <<Text>> \o Hex64(Field(s, "rflags")) \o <<NL, Text, NL>>

\* A fault of the mainline code: isr_common calls exception_handler, which
\* prints and then halts with interrupts off.  Bound: not in the middle of
\* a line, and with nothing typed.
exception_handler(v) ==
    /\ Free(Loop)
    /\ shown = <<>>
    /\ fault' = v
    /\ stack' = Entered(Mine, v, ErrorCode)
    /\ out' = Report(stack')
    /\ UNCHANGED <<consoleVars, mirror, timeVars, at, portVars, termVars, shown>>

-----------------------------------------------------------------------------
\* kmain is entered with the firmware's text on the screen, or has run for a
\* while and the screen was erased back to its first cell.
OutputInit ==
    /\ s_ticks \in Uptimes
    /\ at = IF s_ticks = 0 THEN 0 ELSE Loop
    /\ vga = [n \in Cells |-> IF at = 0 THEN Text ELSE Blank]
    /\ cursor_row = 0 /\ cursor_col = 0 /\ hw = 0
    /\ last_uptime = s_ticks - (s_ticks % UptimePeriod)
    /\ now = last_uptime /\ stamp = last_uptime
    /\ serial_present \in IF s_ticks = 0 THEN {FALSE} ELSE BOOLEAN
    /\ out = <<>> /\ mirror = <<>> /\ thr = NoByte
    /\ line = <<>> /\ col = 0 /\ shown = <<>>
    /\ fault = NoFault /\ stack = <<>>

\* The mainline code, one character or one decision at a time.
Mainline ==
    \/ ConsoleOut
    \/ SerialOut
    \/ Clear
    \/ LogBoot
    \/ UptimeDue
    \/ LogUptime

OutputNext ==
    \/ Mainline
    \/ Send
    \/ Tick
    \/ \E key \in Keys : Echo(key)
    \/ \E v \in Faults : exception_handler(v)

\* The CPU keeps executing and the UART keeps sending; no key, tick or fault
\* is owed.
OutputSpec ==
    /\ OutputInit /\ [][OutputNext]_outputVars
    /\ WF_outputVars(Mainline) /\ WF_outputVars(Send)

-----------------------------------------------------------------------------
(* Properties                                                              *)

\* Types.
OutputTypeOK ==
    /\ CursorOnScreen
    /\ at \in 0 .. Due
    /\ last_uptime <= s_ticks /\ now <= s_ticks /\ stamp <= s_ticks
    /\ thr \in {NoByte} \cup 1 .. 127
    /\ col \in 0 .. Len(line)
    /\ fault \in Faults \cup {NoFault}

\* From console_clear on nothing is left at or behind the cursor, whatever
\* was logged, typed, erased, wrapped and scrolled before, and the visible
\* cursor is where the next character goes (console.c:72-75).
ScreenTidy == at > 0 => NothingBehindCursor

\* The screen is a tape that drops its oldest row when it is full: every
\* character printed does what it should and nothing else, also where it
\* wraps, scrolls or erases across the start of a row.
Screen == INSTANCE Tape WITH
    Width     <- VGA_WIDTH,
    Height    <- VGA_HEIGHT,
    NewLine   <- NL,
    BackSpace <- BS,
    tape      <- Shown,
    input     <- out

ImplementsTape == Screen!TapeSpec

\* The number that a sequence of digits stands for.
Number(digits, base) ==
    LET value[k \in 0 .. Len(digits)] ==
            IF k = 0 THEN 0
            ELSE base * value[k - 1]
                     + (CHOOSE d \in 0 .. base - 1 : HexDigit(d) = digits[k])
    IN  value[Len(digits)]

\* What the log says of the time is true: the field between the brackets
\* reads back as the ticks of klog_prefix, right-aligned up to 99999 s
\* (klog.c:8-11); the uptime line reads back as the counter the loop saw, its
\* seconds and tenths as that counter cut to tenths of a second, with one
\* digit behind the dot; and that counter, read earlier, is not ahead of the
\* time the line shows.
TimesExact ==
    LET field == TimeField(stamp)
        dot   == Len(field) - 6
        first == CHOOSE k \in 1 .. dot : /\ field[k] # Blank
                                         /\ \A j \in 1 .. k - 1 :
                                                field[j] = Blank
    IN  /\ field[dot] = 46
        /\ stamp = Number(SubSeq(field, first, dot - 1), 10) * PIT_HZ
                   + Number(SubSeq(field, dot + 1, Len(field)), 10) \div 10000
        /\ stamp < 100000 * PIT_HZ => Len(field) = KLOG_TIME_WIDTH
        /\ now = Number(Tail(Hex64(now)), 16)
        /\ now \div 10 = 10 * Number(Decimal(UptimeSecs), 10)
                            + Number(Decimal(UptimeTenths), 10)
        /\ Len(Decimal(UptimeTenths)) = 1
        /\ at # Due => now <= stamp

\* Once a terminal has received everything, its line reads what was typed
\* and not erased, with nothing behind the cursor: '\b' takes back exactly
\* one character, also behind a log line that left the cursor in mid-line
\* (kmain.c:43, "Erase on a serial terminal: back, blank, back").
TerminalLine ==
    serial_present /\ Printed /\ thr = NoByte =>
        /\ col = Len(shown)
        /\ SubSeq(line, 1, col) = shown
        /\ \A k \in col + 1 .. Len(line) : line[k] = Blank

\* The report of an exception tells which it was, its error code, and where,
\* whether or not the CPU pushed a code (isr.asm:9-12, idt.h:27-33).
FaultReported ==
    fault # NoFault =>
        /\ Field(stack, "vector") = fault
        /\ Field(stack, "error") = IF HasErrorCode(fault) THEN ErrorCode ELSE 0
        /\ \A r \in {"rip", "cs", "rflags"} : Field(stack, r) = Mine[r]

\* Printing comes to an end: the spin in serial_putchar lasts only while the
\* UART is busy, and never starts without one (serial.c:41-42).
PrintingEnds == ~ Printed ~> Printed

=============================================================================
