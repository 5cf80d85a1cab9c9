# A TLA+ model of the Nadir kernel

Nadir is a small x86_64 kernel: a boot sector and a second stage in assembly
bring the CPU into long mode, `kmain` programs the devices, tests its memory
allocators, enables interrupts, and then sleeps in `hlt`, printing the uptime
and echoing keys. One core, no threads. What makes it hard is that memory is
managed through structures kept inside that memory, that interrupts arrive
between any two instructions of the main loop, and that firmware and devices
answer as they like.

## 1. Inventory

| Component | Source | State | Operations | Used by |
|---|---|---|---|---|
| Boot sector | `boot.asm` | load cursor, retry count, E820 staging buffer and count | `load_kernel`, `query_e820` | BIOS |
| Stage 2 | `entry.asm` | page tables, `.bss`, `memmap_*` | long-mode check, zero `.bss`, copy the map | boot sector |
| PMM | `mm/pmm.c` | bitmap, `g_usable`, `g_free` | `pmm_init`, `pmm_alloc_frame`, `pmm_free_frame` | `kmain`, heap |
| Heap | `mm/kmalloc.c` | free list inside the frames, two counters | `kmalloc_init`, `kmalloc`, `kfree` | `kmain` |
| Keyboard | `keyboard.c` | ring, Shift, CapsLock, 0xE0 flag | `keyboard_on_irq`, `keyboard_has_key`, `keyboard_dequeue` | IRQ 1, main loop |
| PIT | `pit.c` | tick counter | `pit_init`, `pit_on_tick`, `pit_sleep` | IRQ 0, main loop, logger |
| PIC | `pic.c` | masks and latches of two 8259s | `pic_remap`, `pic_eoi`, `pic_mask`, `pic_unmask` | `kmain`, dispatcher |
| Interrupt path | `idt.c`, `isr.asm`, `idt.h` | gates, handler table, the frame on the stack | `idt_init`, `idt_install_irqs`, `irq_register_handler`, `irq_dispatch`, `exception_handler` | CPU |
| Main loop | `kmain.c` | `last_uptime`, `serial_present` | boot order, `hlt` loop, `serial_echo` | stage 2 |
| Console | `console.c` | text buffer, cursor, CRT cursor | `console_clear`, `console_putchar`, `console_puts`, `console_puthex64` | logger, main loop, `exception_handler` |
| Logger | `klog.c` | none | `klog`, `klog_begin`, `klog_str`, `klog_dec`, `klog_hex64`, `klog_end` | main loop |
| Serial port | `serial.c` | the UART | `serial_init`, `serial_ok`, `serial_putchar`, `serial_puts` | main loop |

How they interact. The boot sector stages the BIOS memory map in low memory
and stage 2 copies it to `memmap_entries`; `pmm_init` turns it into the
bitmap; `kmalloc_init` pulls its frames from the PMM once. Interrupt gates run
with interrupts off, so handlers are atomic for the main loop and never nest;
the only state that handlers and the main loop share is the keyboard ring and
the tick counter.

Where it is hard, and what would make each part right:

* **PMM**: overlapping, unordered, unaligned and wrapping ranges. Every frame
  the map makes usable and nothing reserves is free or handed out, never both,
  never lost; the counters agree with the bits.
* **Heap**: long sequences of splits and frees, stale and wild pointers, sizes
  at the rounding boundary and near 2^64. Runs partition the pool; blocks never
  overlap or change under their owner; the list has no cycle and loses no node.
* **Keyboard**: interrupts between two accesses of the consumer; a `k_buf` that
  is not volatile. The ring is a FIFO that drops the newest when full.
* **Interrupts**: boot order, non-specific EOIs with spurious and slave lines,
  the race between the last poll and `hlt`, the tick counter's wrap.
* **Interrupt frame**: the CPU, the stubs, the struct and the pops must agree
  word by word. An interrupt gives back every register; a report of an
  exception names the right vector and error code.
* **Printing**: last column, last row, first cell; ticks between two reads of
  the counter for one line; a UART that is slow or absent. The screen loses
  nothing but its oldest row, times read back as the ticks they stand for, a
  terminal shows the edited line, and the loop gets on.
* **Boot**: failed reads, geometry boundaries, a BIOS list that is empty,
  breaks off or never ends.

`PROJECT.json` lists each of these hazards at its source line with the
properties that cover it.

## 2. Modules

| Module | Models |
|---|---|
| `PMM` | `pmm.c`; one loop iteration of `pmm_init` per step |
| `PMMProofs` | theorems about `PMM` |
| `Heap` | `kmalloc.c`; extends `PMM`, whose actions it calls |
| `HeapProofs` | theorems about `Heap`; extends `PMMProofs` |
| `BlockAllocator` | abstract: what the heap promises |
| `Keyboard` | `keyboard.c` and the loop that drains it |
| `KeyboardProofs` | theorems about `Keyboard` |
| `BoundedFifo` | abstract: what the ring promises |
| `InterruptFrame` | the stack of an interrupt: `isr.asm` and `struct interrupt_frame` |
| `InterruptFrameProofs` | theorems about `InterruptFrame` |
| `Kernel` | `kmain`, interrupt path, PIC, PIT; extends `Keyboard` and `InterruptFrame` |
| `KernelProofs` | theorems about `Kernel`; extends `KeyboardProofs` and `InterruptFrameProofs` |
| `Console` | `console.c` |
| `Tape` | abstract: what the console promises |
| `Output` | all that is printed: `kmain`, `klog.c`, `serial.c`, `exception_handler`; extends `Console` and `InterruptFrame` |
| `FormatProofs` | theorems about the numbers in the log: the digit loops of `klog.c` and `console_puthex64` |
| `OutputProofs` | theorems about `Console` and `Output`; extends `FormatProofs` and `InterruptFrameProofs` |
| `BootChain` | `boot.asm` and `entry.asm` |
| `BootChainProofs` | theorems about `BootChain` |
| `MC...` | instances for TLC |

**PMM.** The bitmap is the set of frames whose bit is set. `RangeEnd` keeps the
64-bit addition with its saturation; `UsableFrames` rounds inwards and
`ReservedFrames` rounds both ends down, as the code does. `owned` is a history
variable: the frames handed out. Callers may free what they own and everything
the function ignores; `FreesOOM` also lets them give the out-of-memory result
back.

**Heap.** Everything but three globals lives in the frames, so the model keeps
the first two words of each frame (`mem[f].w0`, `mem[f].w1`): magic and length
of an allocated run, next pointer and length of a free one. A pointer is a
frame number, `link` is the node whose next field is meant (0 for
`&g_free_list`). The walk reads nothing but these words, one node per step.
`free`, `live`, `pool`, `taken`, `asked` and `returned` are history variables
that only properties and caller assumptions read. Callers free any pointer they
ever got and wild ones that do not point at the magic value, and write the
worst thing they can into their payload: something that looks like a header.
The self-test of `kmain` is one of these call sequences.

**Keyboard.** The producer is one step, because it runs behind an interrupt
gate. The consumer is one access per step, and since `k_buf` is not volatile
the load of `k_buf[k_tail]` may come before or after the store of `k_tail`. The
tables are a constant function on the codes that have a character.

**Kernel.** A mainline step, the delivery of an interrupt, its handler, its EOI
or a device edge per step. The 8259 pair (latches, service and mask registers,
priorities, cascade, spurious lines) and the keyboard controller's one-byte
buffer are external and modelled from their use in the code. A pending
interrupt is taken before the next mainline instruction. `sti` delays
interrupts by one instruction; the model may take one at once, which allows
strictly more. Devices may also raise their lines before `pic_remap`, with
interrupts off. An interrupt pushes a real frame (below), the handler spoils
what the calling convention lets it spoil, and `irq_common` pops. `pit_sleep`
and `pic_mask` have no caller in the repository: the model lets the main loop
call `pit_sleep` instead of `hlt`, with ticks between its comparison and its
`hlt`, and, outside of `pit_sleep` and of the keyboard ring's code (there is
one thread), lets a driver mask and unmask a slave line and the cascade.
`pit_init` and `keyboard_init` are called once, so `s_initialized` is left out.

**InterruptFrame.** Constant operators: what the CPU pushes (external), what
the stub of a vector adds, the order of the pushes, the struct as C reads it
from the top of the stack, the order of the pops. `Kernel` finds the line of an
interrupt by reading the frame, `Output` reads the report of an exception from
it. In long mode the CPU always pushes SS and RSP; idt.h:59-60 calls the two
fields garbage for kernel-mode faults, and no code reads them.

**Console** and **Output.** A step prints one character; a number is the digits
the code prints, a piece of fixed text is one character, since no property
tells two texts apart. `out` and `mirror` are what the mainline code still has
to print to the screen and then to COM1. Ticks come between any two characters
and the UART holds a byte for as long as it likes; behind it sits a terminal
(external). The tick rate and the field width are the real ones, so the model
starts either at boot or in mid-life with a tick count at a boundary: just
before an uptime line, and just before the seconds outgrow their field.
`shown` is a history variable, what the terminal's line should read. An
exception comes when the loop is not printing and nothing is typed (a bound).

**BootChain.** Memory is counted in sectors and entries. `int 0x13` and
`int 0x15` are external: each may fail, and the BIOS picks entry and
continuation. `CarryAt_jnc` is what the `jnc` after a read sees: the `xor`
before it has cleared the flag.

**Not modelled.** The page tables, GDTs, `enable_a20`, the mode switch,
`serial_init` and the 8253's divisor: straight-line writes of fixed content
that no code reads back, so a model could only repeat them. The byte pattern of
the heap self-test. `link.ld` and the Makefile hold no state.

## 3. Runs

Passing runs:

| Run | Shows | Bounds |
|---|---|---|
| `pmm` | frames conserved, counters exact, frame 0 reserved | all maps of up to 3 entries from 3 bases and 3 lengths: aligned, unaligned, zero, cut at the window, wrapping, above it |
| `heap` | partition, magic, list, counters, sizes, ownership, stability, writes only to the pool, refinement of `BlockAllocator`; frees of stale, wild and faulting pointers | 7 frames, pool of 5, or 3 before a hole or before the PMM runs out; sizes of 1, 2 and 3 frames and one that never fits; one other PMM client |
| `keyboard` | FIFO refinement, no NUL echoed, flags follow keys | ring of 4, a letter, a digit, Ctrl, Shift, CapsLock, two extended codes |
| `kernel` | no stray interrupt, nothing left in service, no stale byte, registers restored | ring of 2, a slave device whose driver masks and unmasks it and the cascade, spurious lines 7 and 15; no `pit_sleep` |
| `kernel_live` | bytes are read, keys echoed, uptime printed again and again; `pit_sleep` returns after the ticks asked for or one more | timer, keyboard, spurious line 7; 8 ticks wrap, uptime period 2, sleeps of 2 |
| `output` | the screen refines `Tape` and nothing is left behind the cursor, times exact, terminal line, exception report, printing ends | 2 rows of 3 cells, a letter, Backspace and Enter, 2 on the terminal's line; starts at tick 0, 99 and 9999999, two ticks on; vectors 0, 8, 14, 17, 21; COM1 present or not |
| `boot` | sectors placed, map delivered or fallback, the chain ends | 9 sectors, 2 per track, 2 heads, 2-valued cylinder byte, 4 per segment; buffer of 3 entries; any read or query may fail |

The bounds are small but each boundary is crossed: the ring fills and wraps,
the pool is exhausted, split and freed in every order, the counter wraps, the
screen wraps, scrolls and is erased back to its first cell, the time field
outgrows its width, the image crosses every geometry limit. All data that a
property does not tell apart is a model value or a small number. No symmetry is
used: frames, lines and indices are ordered.

Runs that find a disagreement between the code and what it says of itself (the
quoted lines are under `findings`):

| Run | The code |
|---|---|
| `pmm_carved` | leaves the last, partly reserved frame of a range free |
| `heap_zero` | grants an empty block for a size that wraps to zero frames |
| `keyboard_shifts` | clears Shift when one of two held Shift keys is released |
| `boot_disk` | takes a failed read for a success: the `xor` before the `jnc` clears the carry |
| `boot_map` | lets the BIOS write one entry behind the staging buffer: the count is compared after the call |

Smaller ones are kept visible in what the passing runs state. `pmm_free_frame`
clears the bit of frame 0 too, so a caller that gives the out-of-memory result
back makes 0 a frame that is handed out, against pmm.h:38 ("frame 0 is always
reserved, so 0 is never valid") and pmm.c:164: `FreesOOM` is off in the runs
and in the proofs, and TLC finds `FrameZeroReserved` violated when it is on.
`kfree` loads the magic before any check on the address, so a pointer outside
the identity map faults, against kmalloc.h:38-41 ("addresses outside the PMM
window"): `KfreeOutside` leads to `"fault"`, and the properties of `heap` hold
there too. One frame pulled behind a hole is neither used nor returned
(`HeapOwnsPool` bounds it by one). A size near 2^64 may also wrap to one frame,
so `BlockHoldsRequest` is checked for sizes that do not wrap. A key pressed
before `pic_remap` leaves the keyboard dead: ICW1 forgets the edge,
`keyboard_init` does not empty port 0x60, and the controller sends nothing
more; `BytesRead` excepts exactly that byte. `pit_sleep` may take one tick more
than asked (`SleepExact`).

And some are outside what a run asks. pic.h:53 says that `pic_unmask` enables
lines 0-15, but `pic_remap` masks line 2, and unmasking a line of the slave
leaves the cascade closed (pic.c:87); no caller does it today, and the driver
of the model opens both. kmain.c:15 says that COM1 mirrors the same text; it
gets shorter lines, some not at all, ended by a bare `\n` that leaves a terminal
in its column (`TerminalLine` follows that column). Vectors 29 and 30 push an
error code on AMD processors, where `ISR_NOERR` would shift the frame; the
model has the vectors that isr.asm:5 names.

Deadlock is checked except where the system really stops: a fault or panic
halts the CPU (`heap`), an exception has been reported and the ticks are
used up (`output`), and the boot chain ends in `kmain` or a halt.

**Fairness.** The list walk runs to completion because nothing else runs
meanwhile. In `Kernel` the CPU executes (one weak fairness over all
of its steps, delivery included) and the PIT keeps ticking, which `pit_init`
programs; no key and no other device is ever owed. `Raise` lets each line fire
at most once between two mainline steps: at 100 Hz the loop is never starved by
interrupts. In `Output` the CPU executes and a UART that is there keeps
sending; one that hangs would hang `serial_putchar`, as serial.c:41-42 says. No
key, tick or fault is owed. The boot chain just keeps going.

And some concern data that no run gives the model. kmain.c:35-52 echoes Tab as
it is; a terminal moves to its next tab stop, and one `\b` then takes back only
one column. `TerminalLine` is checked and proved for the other keys.

## 4. Proofs

Every invariant that a passing run checks is also proved, as are the action
properties and all three refinements (of `BlockAllocator` the safety half). The
theorems hold for every value of the constants that satisfies the named
`ASSUME`s; a theorem that needs more has it as a hypothesis.

| Module | Theorems | Hypotheses beyond the `ASSUME`s |
|---|---|---|
| `PMMProofs` | `PMMTypeOK`, `PMMFramesConserved`, `PMMCountersExact`, `PMMFrameZero` | callers do not free the OOM result |
| `HeapProofs` | `HeapKeepsPool`, `HeapWrites` | none |
| | `HeapTypes`, `HeapPartition`, `HeapMagic`, `HeapFreeList`, `HeapCounted`, `HeapBlocksFit`, `HeapBlocksStable`, `HeapStepsAbstract` | `SizesFit`: no size wraps in `frames_for` |
| `KeyboardProofs` | `KeyboardTypes`, `KeyboardNoNulEcho`, `KeyboardImplementsFifo` | none |
| | `KeyboardFlags` | at most one of the two Shift keys is used |
| `InterruptFrameProofs` | `FrameFields`, `FrameRestored` | none |
| `KernelProofs` | `KernelTypes`, `KernelNoStrayInterrupt`, `KernelInService`, `KernelNoStaleByte`, `KernelResumed`, `KernelSleepExact` | none |
| `OutputProofs` | `OutputTypes`, `OutputScreenTidy`, `OutputFaultReported`, `OutputImplementsTape` | none |
| | `OutputTerminalLine` | `PrintableKeys`: Backspace, Enter and keys of one cell |
| | `OutputTimesExact` | `TicksFit`: at most 100 ticks a second, and the counter does not pass 2^64 |
| `FormatProofs` | `DecimalReadsBack` | none |
| | `DecimalFitsBuffer`, `HexReadsBack` | the number fits a `uint64_t` |
| | `TimeReadsBack` | at most 100 ticks a second |
| `BootChainProofs` | `BootTypes`, `BootSectorsPlaced`, `BootMapDelivered` | none |

The hypotheses are needed: without them TLC finds the property violated
(`FrameZeroReserved` with `FreesOOM`, the runs `heap_zero` and
`keyboard_shifts`) or, for `PrintableKeys`, the terminal of the model is no
longer a real one. For `TicksFit`, klog.c:29 counts 10000 per tick, which six
digits hold only up to 100 Hz, the rate of `pit.h`; and a `uint64_t` of 10 ms
ticks lasts for more than five billion years.

**PMM.** The inductive invariant is `IndInv`. The three safety properties speak
about the state after `pmm_init`, so they need `LoopInv`: before entry `i` of
each pass, the clear bits are a closed form over the entries before `i` (usable
up to `i`; minus carved up to `i`; minus fixed up to `i`). The counters rest on
two cardinality lemmas (`CountCleared`, `CountReserved`), the types on
`FramesInWindow`: no range, however it wraps, reaches a frame outside the
window. Frame 0 then follows from the closed form, since low memory is the
first fixed range.

**Heap.** `PoolInv` is what stays of the loop of `kmalloc_init`: the frames it
accepted are one interval of frames that the PMM has given to the heap. It
rests on `IndInv` and on nothing that callers do, so `HeapKeepsPool` holds also
when they break the heap. `SpanInv`, which needs no intact list either, has
every length word of the pool end inside the pool and every link be a frame of
the pool, `NULL` or the magic word; a walk that follows the magic word faults,
so `HeapWrites` needs no hypothesis on sizes. For the rest `RunInv` adds the
properties themselves and `ChainInv`: some sequence holds every free run
exactly once, the head and the next words link it in that order, and a walk
under way stands at one of its places with only too short runs before it. None
of the parts is inductive alone. Unlinking a run is right only because no other
slot points to it (`ChainInv`); a length word survives only because no write
hits another run (`RunsPartition`); a stale `kfree` is harmless only because
its pointer is still a head (`MagicExact`). `Found` says what the walk has in
its hands, `TakeWrites` what a successful `kmalloc` has written, and
`TakePartition`, `TakeMagic`, `SplitChain`, `WholeChain` and `TakeCounts` treat
one part each. `HeapStepsAbstract` then maps each step: the end of the walk
refuses rightly because `ChainInv` has it see every free run, and a walk never
faults.

**Keyboard.** `KeyboardInv` adds where the consumer stands: past its check only
while something waits, and, when the store of `k_tail` came first, with the slot
it still has to load being the one that is kept empty. That is why the next
interrupt cannot overwrite it, for either order of load and store. The step
lemmas then give the refinement of `BoundedFifo`.

**Kernel.** `KernelInv` has four parts. `WiringInv`: what each step of the boot
order has put in place. `CpuInv`: interrupts are on exactly in the booted
mainline, and while a handler runs the stack is the frame of one line and only
that line (and the cascade) is in service. `ByteInv`: a request of line 1,
latched or in service, stands for exactly one unread byte, which is what
`NoStaleByte` needs when an edge is forgotten or masked. `Resumed` follows
from `FrameRestored`. `SleepInv` bounds `slept` plus the ticks that are already
on their way (`Coming`: latched, in service or raised before the next mainline
step) by the argument. For a sleep of `U64 - 2` ticks or more the upper bound
follows from the history counter `slept` not counting beyond the width.

**Output.** `FinishShows` says what the end of `console_putchar` shows for any
row and column, the row below the screen included; `NewlineWrites`,
`EraseWrites` and `GlyphWrites` then show that each kind of character does to the
cells what `Tape` says. `OutputInv` adds the types, that nothing is printed
before `console_clear`, and that the stack is the frame of the exception
(`FrameFields` gives the report). The terminal needs `TermInv`: the line *after
the byte in the UART* and the bytes still in `mirror` lead to the text that was
typed. Its relation `Owes` has one case per remainder of what `serial_puts` was
given; taking the UART's byte as shown keeps the echo that starts while the last
byte of the previous one is still on its way from being a case of its own.

**Formats.** The digit loops are recursive functions, and so is `Number`, which
reads digits back. `LeastNumber` (from the well-foundedness of `<`) gives an
induction over sets of numbers, `NumberInduction`, and from it `Recursion`: a
definition whose argument goes down has a function that satisfies it, and only
one. So `Decimal` and `Number` may be unfolded, `NumberAppend` reads one more
digit, and the induction over `v \div 10` is `DecimalReadsBack`. `OneMoreDigit`,
applied five at a time, bounds the length: 2^64 has 20 digits, so the bounds
`n < 20` and `n < sizeof(buf)` of klog.c:42 and 99, which the model leaves out,
never end a loop early. `ShapedReads` then finds seconds and fraction in the
field of `klog_prefix`: the dot stands before the last six characters, and the
first character that is not blank is the first digit. `OutputTimesExact` adds
`TimeInv`: the counter has its width, and a line is stamped after the loop has
read the counter that it reports.

**BootChain.** `LoadInv`: before each read the buffer pointer is where sector
`lba` goes, the sectors before it are placed or bad, the ones behind it are
untouched; it also shows that the `halt` of a failed read is never reached.
`MapInv`: what is counted is staged. `GeometryAssumption` says that the cylinders
which the 10-bit CHS address can name reach the end of the image: 4 times the low
byte, as the two high bits allow. Without it sectors would be read twice; the
image of this repository is far smaller.

Two definitions changed for the proofs. `FreeListExact` was a recursive function
along the next words and is now the existence of an order of the free runs, with
the same meaning. And a driver's `pic_mask` could run in the middle of
`pit_sleep`, which one thread cannot do; the proof of `SleepExact` did not go
through until it was ruled out.

Only model-checked, because fairness is outside what the prover can do:
`KeysEchoed`, `BytesRead`, `UptimePrinted`, `SleepReturns`,
`PrintingEnds`, `BootEnds` and the promise of `BlockAllocator` that every request
is answered.

## 5. Plan

1. Done: `PMM`, `Heap`, `Keyboard`, `Kernel`, `BootChain`, interrupt frames,
   `Console` and `Output`.
2. Done: the safety properties of all of them proved, and the three
   refinements.
3. Done: what the digit loops print, and with it the last of the invariants.
4. Left to model: the map that `BootChain` delivers as the input of `PMM`; how
   the lack of coalescing limits what the heap can still serve.
