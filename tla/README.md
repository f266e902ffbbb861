# A TLA+ model of the kernel

This directory models the hobby operating system of this repository: a BIOS boot
sector, a 32-bit kernel in C that programs the interrupt hardware, reads a sector from
a SATA disk and then redraws a text screen for ever, and a PS/2 keyboard handler that
feeds it. The modules are checked with TLC on small instances. Most of the safety properties are
also proved with TLAPS, for every value of the constants: those of the key queue and the cursor,
which an interrupt and the main loop share without a lock, of the decoder, the interrupts, the console, the PCI
scan, the AHCI driver, the build script and the boot sector.

Paths are relative to the repository. `PROJECT.json` lists, for every definition, the
lines of source it stands for, for every property a mutation of the code that breaks it,
and for every hazard the line where it bites.

## The system

| Component | Source | State | Operations |
|---|---|---|---|
| Key queue | `kernel/keyboard.c:25-52`, `headers/keyboard.h` | `queue`, `start`, `length` | `push_key_queue` (interrupt), `key_queue_isempty`, `pop_key_queue` (main loop) |
| Scan-code decoder | `kernel/keyboard.c:6-24, 55-158` | six flags of `ps2_keyboard` | `init_ps2_keyboard`, `ps2_keyboard_int`, `scan_code_to_char` |
| Interrupts | `kernel/kernel.c:39-97, 227-384`, `lapic.c`, `idt.c`, `headers/apic.h`, `kernel_entry.asm:7-9` | IDT, local APIC, I/O APIC, PIT, `apic_base`, three counters | boot sequence, `apic_timer`, `pit_timer_interrupt`, `ioapic_keyboard_int_stub` |
| Console | `kernel/print_utils.c` | `screen` (two offsets and a style), `VIDEO_MEM` | printing, scrolling, cursor movement |
| Main loop | `kernel/kernel.c:486-563` | saved cursor coordinates | status lines, takes keys, moves or prints |
| AHCI driver | `kernel/kernel.c:150-216, 442-478`, `pci.c:97-228` | registers of the port, `buf` | `port_rebase`, HBA reset, `read_bytes` |
| PCI | `kernel/pci.c:35-95`, `kernel.c:386-440` | configuration registers | scan, BAR sizing, command register |
| Number and format printing | `kernel/print_utils.c:124-447` | `args`, `i` | `printf`, the printers of each type |
| Exceptions | `kernel/kernel.c:22-27, 99-148, 227-274, 592-606`, `headers/idt.h` | the CPU's frame | print and halt |
| Boot sector, entry | `boot_sect.asm`, `kernel_entry.asm` | registers | load the kernel, protected mode |
| Build scripts | `build_scripts/` | exit codes, `had_error` | compile, link, concatenate, start qemu |

There is one CPU. Everything runs on one stack; the only concurrency is between the main
flow (`_start` and the main loop), the three interrupt handlers, and the hardware. The
gates are interrupt gates (`0x8E`), so handlers do not nest and each is atomic towards the
main flow, which takes no lock and never disables interrupts after `load_idt`. They share:

- the **key queue**: the handler pushes, the main loop pops (`kernel.c:534-535`);
- the **cursor** and the video memory: the handler prints `" [ %x ] "` for every byte
  (`kernel.c:92`) into whatever the main loop is printing;
- the **counters**, and the flags of the keyboard: the status line means to read these, but
  `headers/keyboard.h:44` gives every translation unit a copy of its own.

With the hardware they share the in-service bits of the local APIC (cleared by the EOI of
each handler), the one-byte output buffer of the keyboard controller (read only in the
handler) and the registers of the HBA, which moves on its own and writes to `buf` by DMA.

What makes this hard: a handler may come between any two instructions of `pop_key_queue`
or of a printing function; `sti` comes early in the boot, before `apic_base` is set; an
edge on a masked I/O APIC pin is lost for good; one missing EOI blocks a whole priority
class of vectors; the decoder sees one byte per interrupt of keys that send up to six; the
driver waits for hardware with and without bounds.

What each component has to get right:

- key queue: no access outside the array, no underflow, first in first out, no key lost
  unless the queue is full, the main loop gets every key and stops when there is none;
- decoder: every key gives the character meant when it was pressed, whatever else is
  pressed meanwhile; no modifier outlives its key;
- interrupts: nothing is served before it can be; every service is acknowledged; no byte
  gets stuck; the clock keeps running; the lowest vector gets its turn;
- console: the page scrolls, wraps and is erased as a terminal's is; the cursor stays on it;
- PCI: a controller is found wherever there is one; the address the driver uses is where it answers;
- printing: every directive takes and shows the argument passed for it;
- exceptions: the report is true, and nothing runs after it;
- boot sector and build: what is called is the whole kernel of this build, or somebody has said that it
  is not; nothing is linked before it is compiled; a failure is reported, and only a failure;
- AHCI: the tables move only while the engines are stopped; `true` means that the data is
  there; the buffer is not written to after the driver has returned; the driver returns.

## Modules

| Module | What it is |
|---|---|
| `KeyFifo` | what the key queue promises: a bounded FIFO queue that drops a key when full |
| `KeyQueue` | the ring buffer, access by access, with `push_key_queue` as one action |
| `KeyQueueProofs` | its theorems; so for each `...Proofs` |
| `Ps2Keyboard` | the decoder, the keys of a keyboard and the bytes they send |
| `Ps2KeyboardProofs` | |
| `Interrupts` | boot sequence, local APIC, I/O APIC, PIT, keyboard controller, handlers |
| `InterruptsProofs` | |
| `Terminal` | what the console promises: a page of lines with a cursor |
| `Console` | the flat video memory and the two offsets, one call at a time |
| `ConsoleProofs` | |
| `ConsoleRace` | the two offsets alone, access by access, with the handler's `printf` |
| `ConsoleRaceProofs` | |
| `Printf` | `printf` and the number printers, directive by directive, on the caller's stack |
| `Exceptions` | the exception handlers, which interrupt `Printf` and report through it |
| `ExceptionsProofs` | theorems about `Printf` and `Exceptions` |
| `BuildScript` | `build()`, its compilers and their exit codes |
| `BootSector` | `disk_load` against the BIOS, and the call of the kernel |
| `Boot` | `BuildScript`, `BootSector` and `Interrupts` one after the other: `run.py` to running kernel |
| `BootProofs` | theorems about `BuildScript`, `BootSector` and `Boot`; those of the first and of `InterruptsProofs` carried over to the stages of `Boot` |
| `Ahci` | the driver, register access by register access, against the HBA |
| `Pci` | the scan for a controller and its setup, against the registers of the functions on the bus |
| `DiskPhase` | `Pci` and then `Ahci`: the part of the boot that reads from the disk |
| `DiskPhaseProofs` | theorems about `Ahci`, and about `Pci` in `DiskPhase`, to which the first are carried over |
| `MC...` | the instances for TLC |

`KeyQueue` implements `KeyFifo`, and `Console` implements `Terminal`, by refinement
mappings (`INSTANCE ... WITH`) that the runs check.

**KeyQueue.** `queue`, `start` and `length` are the fields; `pc` is the statement the main
loop executes next, and `reg` the register a load went to. `length--` of `keyboard.c:47` is
`LoadLength` and `StoreLength`, as in the unoptimised object code; `queue[start++]` is
`AdvanceStart` and `FetchSlot`. `Interrupt` pushes at any of these points. `Dec` keeps the
32-bit wrap of `length--`. The mapping to `KeyFifo` counts from `start`, or from `start + 1`
between the store of `length` and the increment of `start`.

**Ps2Keyboard.** `kbd` holds the flags; `wire` the bytes sent and not yet handled, each with
the character that the typist expects of it. `Press`, `Repeat` and `Release` put the bytes of
one key on the wire (a keyboard does not interleave those of two keys); `HandleByte` is one
interrupt. Characters are named by table and scan code. `typist` is chosen at the start and
says which keys there are; `locks` is what the typist expects the lock keys to have switched on.

**Interrupts.** `pc` is the boot step; each is one action, and interrupts can come between
any two. `set` is what the boot has programmed so far. The local APIC (`irr`, `isr`), the
I/O APIC (`Edge`), the keyboard controller (`obf`) and the 8259 are modelled as far as the
kernel depends on them; their rules are at the head of the module. The keyboard handler is
two actions, the read of the port and the rest, because the next byte may arrive in between.
`user` is chosen at the start: whether keys are pressed before the I/O APIC is programmed,
whether the keyboard ever sends a reply byte, and the id of the CPU. `Destination` is the conversion
of the id register to the `u8` of the redirection entry.

**Console and ConsoleRace.** `Console` has one operator per function of `print_utils.c`, from
the `screen` record to the `screen` record. Cells are counted where the code counts bytes;
style bytes, which follow the characters everywhere, are left out. A number is a
string of digits; `print_unum` is a recursive function of the number of digits printed, each by `print_digit`.
`Moved` and `Write` are the two things a call does to the record. `Terminal` has the same calls on a page of lines, its
`Text` printing a number from left to right. `ConsoleRace` leaves the contents out and keeps the order of the accesses:
`Load`, `SetRow`, `SetCol`, `Test` and `WriteCell` are its instructions, each function is a
little program of them, and `Interrupt` prints `Burst` characters at once (16 in the code). Its history
variable `spoiled` records whether an interrupt has come in one of the `Windows`. `print_unum` is the one
function with a pointer of its own, `start`: it is computed once, moved with every scroll under the
cursor, and every digit is written behind it (`PrintDigit`, `AfterDigit`).

**Printf.** `format` is the format, in the pieces of which the caller has put it together, each with its characters and the number
of words he passes for it; `fmt` joins them to what `printf` sees.
`stack` are those words, `args` counts what `va_arg` has taken of them, `out` what was printed, each entry with the
index in the format and on the stack it comes from. A piece can be a directive the caller believes in and `printf` does not know, as `%2x`. `WellPassed`
is what a caller has to keep to, as all calls of the kernel do. `TakeArgument` is one directive with its
argument, `Character` and `Unknown` the rest of the loop, `Overflow` what is `Undefined`, the negation of the smallest
number and the conversion of a float beyond an `i32`: the build may trap there or go on. A printer is an operator from a word to the
characters it shows: `Length` is how often it can be divided by ten, `Digits` lays that many. The two words of a double are a sign and a number of
units of `1/Unit`, taken for the double nearest to it. `Rounded(bits)` is what an operation of floating-point numbers makes of its exact result: `Float` converts to a float
(`print_utils.c:418`), `Tenfold` is `dec` after so many multiplications by ten, each rounded to the bits of the type (`print_utils.c:213, 237`); the rest `dec` starts from is
exact. The build is for SSE2 (`zig build-obj` without flags), whose operations round to their type. The call of `print_f32_fixed` in the main loop (`kernel.c:511`) is a
format of one directive, `fixed`. A label in a report is one character of `Alphabet`.

**Exceptions.** `KernelPrints` calls `Printf` again and again, with calls out of `Calls`. `Raise` and `Nmi` enter a handler at any point of `Printf`; `Pushed` is the CPU's frame, `HandlerOf`
the descriptor set last, `Report` what the handler reads of the frame and prints, through
`Printf` again. `Trap` is the invalid opcode of `Overflow`. `Halt` is `cli; hlt`, out of which only `Nmi` gets the CPU.

**BuildScript, BootSector and Boot.** `script` is the next step of `build()`, `proc` how the three
compilers are getting on, `exit_code` and `had_error` its variables. `Poll` is the `poll()` before a wait,
`Wait` the loop of `wait_for_process`, whose result is kept for zig only. In `BootSector`, `ReadSectors` is `int 0x13`, after which `Compare`
overwrites the BIOS's carry flag and `Branch` looks at the comparison's. `Boot` passes the image from the one to the other, and the
sectors in memory on to `Interrupts`, whose actions are enabled when the whole kernel has been called.

**Ahci.** `port` and `ghc` are the registers, `hba` what the HBA is doing, `pc` the next
access of the driver. Reset, completion, task file error, non-fatal and fatal link error are
actions of the HBA; `frail`, chosen at the start, says whether the link may fail fatally.
`memory` holds the command headers, each with its command table, FIS and region: `Rebase` clears
them, `FillTable` writes the fields one call of `read_bytes` writes to the header of its slot, and `Transfer`, an action of the
HBA, takes a slot whose bit is set in PxCI and delivers the sector only if it finds there the command for it (`Reads`, which puts the bytes of the FIS
together again that `Byte` has taken apart).

**Pci and DiskPhase.** `step` is the next part of `_start`, `at` the three loop variables,
`found` the location that is kept, `functions` the registers of what is on the bus, chosen at
the start: any placement of devices, of their functions and of controllers among them.
`Address` is the conversion of bus, slot and function to a configuration address: the code
ORs an 8-bit slot into a 5-bit field, so that slots from 32 on reach into the bus number (`BitOr`). The
scan finds controllers on other buses this way, as slots of bus 0. `DiskPhase` runs the steps of `Ahci`
when `Pci` is done and has found a controller; `SkipDriver` is the `goto exit_pci_section`.

## Runs

| Run | Shows | Expected |
|---|---|---|
| `KeyQueueRaces` | interrupts at every access: no access out of bounds, no underflow, the test of the loop stays good, a push outside three windows appends, the loop empties the queue | pass |
| `KeyQueueQuiet` | if no key arrives in the three windows, the ring buffer implements `KeyFifo`, liveness included | pass |
| `KeyQueueFifo` | if keys may arrive anywhere, it does not | violation |
| `KeyboardDecode` | three typists: every byte gives the character expected (one shift key at a time), no modifier sticks, the lock flags count the presses of their keys | pass |
| `Boot` | `build()` links what was compiled and reports what failed; the boot sector stops only on an excess and calls an incomplete kernel only for a cause; in the kernel nothing is served too early, services end, bytes are read, the clock runs and nobody starves as long as the keyboard behaves; a keyboard typed on too early stays deaf, one reply stops all interrupts, and on another CPU than 0 neither clock nor keyboard ever works | pass |
| `IntrReply` | the clock stops after a reply byte | violation |
| `BuildSlow` | an assembler that was waited for is reported as failed | violation |
| `Exceptions` | every directive takes its own argument unless a `%<n>f` or `%<y>x` comes before; whole numbers are shown as they are in every base, decimals up to what is cut and the roundings of floats; reports are true but for eight vectors; the kernel stays halted | pass |
| `Console` | the console implements `Terminal` for every sequence of calls | pass |
| `ConsoleRace` | the cursor and the digits of a number under interruption: on the page outside four windows but for digits of a number whose start is outdated, which miss it by a bounded distance; mended by the next print | pass |
| `DiskPhase` | a controller is found on whatever bus and function it is, its address register is restored before the driver uses it, and every transfer finds it a bus master; then the sector asked for is read, by the command the HBA finds in memory, through a disk that answers, fails, never gets ready or loses its link | pass |
| `AhciHang` | after a fatal link error the driver never returns | violation |

The four violations are disagreements between the code and what it says of itself, listed
with their quotations under "findings" in `PROJECT.json`:

1. **A key can be lost or repeated** (`keyboard.c:47-48`, run `KeyQueueFifo`). `pop_key_queue` runs with
   interrupts on. There are exactly three windows: between the load and the store of
   `length--`; between that store and `start++`; and, when all other slots are in use, between
   `start++` and the read of the slot. `KeyQueueQuiet` and its theorem show that there is no
   fourth.
2. **A reply of the keyboard stops the machine's interrupts** (`kernel.c:93`, run `IntrReply`): it returns
   before the EOI. `0xFE` is also the release code of a key of some keyboards.
3. **`read_bytes` may poll for ever** (`pci.c:206`, run `AhciHang`): it knows only one of the fatal errors.
4. **A slow success of nasm is a failure** (`build_utils.py:53, 60`, run `BuildSlow`): the result of the wait
   is dropped.

Other deviations are part of what the passing properties say, so that a repair would show as
a change of the property:

- the destination of the I/O APIC entries is always 0 (`kernel.c:367`): `DeadOnOtherCpu`;
- a byte before line 368 makes the keyboard deaf for the session: `DeafForever`;
- `%<n>f` and `%<y>x`, documented at `print_utils.c:385-388`, are unknown to `printf`, and shift the arguments of all
  that follows: `TakesWhatWasPassed`;
- decimals end at the first zero behind the first decimal, `1.205` is `1.2` (`print_utils.c:219`):
  `ShowsWhatWasPassed`. The integer part of a negative number is printed unsigned;
- decimals are those of a float that has been rounded (`print_utils.c:418`) and multiplied by ten with a rounding each time (`print_utils.c:213`). They may be above the value
  or below it, by half of the last significant bit for every rounding, as for `1.030f` (`kernel.c:308`), and mean nothing once a float's bits cannot tell them
  apart, from the eighth on: `ShowsWhatWasPassed`;
- the double fault prints the address as the error code (`kernel.c:25`), and the handlers of vectors 11, 12, 14, 17 (and
  21, 29, 30) the error code as the address (`kernel.c:128-147`): `ReportTells`;
- the pause key switches num lock (its codes are `E1 1D 45`): `LocksFollowKeys`;
- the boot sector ignores every error of the BIOS except an excess of sectors (`boot_sect.asm:119`), as it must with an image
  of less than 127 sectors: `StopsOnExcessOnly`.

The status line shows no flag (`kernel.c:519`), because `headers/keyboard.h:44` gives every translation unit a `ps2_keyboard` of
its own. That is settled by reading the declaration, and no module models it.

Type invariants are checked for the key queue and the console, where an offset out of range is the hazard; the
proofs need one in every other module too, and prove it.

### Bounds, and why they are enough

- Key queue: 3 slots, 2 different keys. The indices wrap, the queue gets full and empty, and
  the third window (all other slots in use) is reached. The theorems have no bound.
  `MaxU32 = 15` is larger than any reachable length, so that an underflow would show.
- Decoder: three typists. One has both shift keys, caps lock, a letter, a digit, an arrow key and the
  keypad key with the same code, all repeating, and up to 4 bytes waiting: three keys can overlap. One has all
  modifiers, print screen and pause, and 6 bytes waiting, the longest sequence of one key. One has num lock, scroll lock, pause and an
  arrow key, and 8 bytes waiting. A keyboard buffers 16 bytes, but the decoder has one bit of memory
  of the past, the prefix.
- Interrupts: one scan code and one reply stand for all, counters count modulo 2: only that they
  change matters. All vectors and pins the kernel uses are there, and
  one CPU with an id other than 0.
- Build and boot sector: the three compilers, all overlaps. 2 sectors to read (127 in the code), kernels of 1, 2 and 3: smaller than,
  as large as and larger than what is read; an incomplete image has any smaller number.
- Exceptions: words of 2 digits to base 8, bytes of 4 bits: a sign, truncation to half words and bytes,
  numbers of up to four decimal digits. Doubles have a fraction of 6 bits, of which 70 low words reach every value, and 10 high words, with both signs and whole numbers on
  both sides of the largest `i32` and `u32`. A float has 8 significant bits and a double 11, so that small numbers are exact, larger ones are rounded on conversion,
  and the bits of a float can tell two of the 3 decimals apart, those of a double all: a claim that decimals never exceed the value
  fails in this run. `2 * 10^Precision` fits in a word, as in the code.
  Formats of up to three pieces, with arguments that differ from each other. All vectors with an error code and
  some without.
- Console: a page of 3 x 3 and two characters, numbers of up to a row. All contents of the page
  are reached. The longest number has 10 digits and a row 80 cells, so that `ASSUME` bounds numbers by a row.
- ConsoleRace: 4 x 3 cells; the handler prints 2 characters at a time, so that it reaches every
  column and row in some number of interrupts, as 16 do on 80 x 25. Offsets wrap at 88, coordinates at 16, both
  beyond the page and far enough for a place that has wrapped below zero to be told from one behind the page. Numbers have up to
  3 digits: a number may cross the end of the page with digits on both sides, and scroll twice.
- PCI: 2 buses of 2 devices (32 in the code) of 2 functions, 4 slots scanned, so that slots 2 and 3
  reach into the bus number as 32 and up do; at most 2 devices, so that a controller can be second, on function 1, or
  one of two.
- AHCI: 2 slots looked at of 3 headers (16 of 32 in the code), 3 polls of a busy device. The device may get ready before, at or after the last.

### Fairness

- `KeyQueue`: weak fairness of the main loop: the CPU executes its next instruction in the end,
  because every handler returns. No fairness of keys. `Drains` is conditional on typing coming to an end.
- `Interrupts`: the handlers and the acceptance of a pending interrupt are weakly fair, the two timers
  tick for ever, and the boot is strongly fair: it is interrupted again and again but gets a step in
  between. The lowest vector is not promised a turn if the higher ones use all the time;
  `NobodyStarves`, which `ServesAll` states of a booted kernel, has that as its premise.
- `BuildScript`: the script is scheduled, and every compiler ends. `Boot`: its script, qemu and the boot sector go on, and
  the kernel's part is fair as in `Interrupts`; `ServesAll` has as its premise that a whole kernel is called.
- `Exceptions`: the printing, the halt and a trap happen; no exception is promised.
- `Ahci`, `DiskPhase`: the kernel and what the HBA has begun are weakly fair. A disk is not
  promised to get ready (`FirstFis` has no fairness).
- The decoder and the console have safety properties only.

## Proofs

`KeyQueueProofs` proves, from `QueueAssumption` (the size is positive and smaller than the largest
`u32`, and `'\0'` is no key) and nothing else:

- `TypeCorrect`, `ReadsInBoundsAlways`, `TestStaysGoodAlways`: `Spec => []TypeOK` and so on. `TypeOK` is
  not inductive: to know that `start++` stays in range and that the slot read is one, one must know where
  `start` may equal the size, and to know that `length--` does not wrap, that the tests of the loop and of
  `pop_key_queue` are still good. `IndInv` adds these: `TestStaysGood` (at `guard` and `load` the length is positive, and the loaded
  value is positive and no more than the length, because interrupts only ever increase it), and
  where `start` and `reg` stand between `start++` and `start %= KEYQUEUE_SIZE`. One lemma per actor.
- `HarmlessPushAlways`: a push outside the three windows is the `Push` of `KeyFifo`, even in a queue that
  earlier interrupts have damaged. It rests on `AppendAsFunction` and on `ModOneWrap`: two slots of the waiting
  keys differ although the indices wrap.
- `QuietImplementsFifo`: `QuietSpec => Fifo!Safety`. The step of the store is the `Pop` (`StorePops`); all
  others stutter (`OthersStutter`), the wrap of `start` because remainders of remainders are equal
  (`WrapKeepsWaiting`). `QuietInv` adds to `IndInv` that no interrupt has come between the load and the store, so that the register
  still holds the length.

Of `BuildScript`, `BootProofs` proves, without any assumption, for the script and its compilers in every overlap: `BuildTypeCorrect`, `LinkSafety`
(`LinksWhatWasCompiled`), `FailuresReported` (`NoFailureMissed`) and `ReportsHaveCause` (`BlamedOrSlow`). The danger is that the exit code
`Check` looks at is `None`, that of a process that was running when it was polled, so that it says nothing about
how the process ended. `BuildInv` therefore states what the script knows at each step: while it waits, the code is `None` and the
compiler is in `slow` (`WaitsFor`); at `check` the compiler at `turn` has ended, and the code is its own, or `None` left from an
assembler that was waited for (`KnowsCode`); every compiler judged so far has ended, and was blamed if it failed
(`JudgedRightly`); `had_error`, never reset, tells whether anything was blamed, and the script links only if nothing was (`GoesOnClean`).
`InitEstablishes` is the start, `CheckPreserves` the one hard step, and `StepPreserves` has a step for each other action.

`InterruptsProofs` proves, from `InterruptsAssumption` (ids are bytes, a reply is no scan code, a counter counts to more than one),
`ReadyWhenTaken`, `ServicesEnd`, `BytesAreRead`, `OtherCpuIsDead`, `StuckBytesStay` and `AbandonedMasksAll`, for `ReadyForInterrupts`,
`EveryServiceEnds`, `NoByteMissed`, `DeadOnOtherCpu`, `DeafForever` and `AbandonedForever`. None of them is inductive, because
each depends on the order of the boot. `InterruptsInv` says what is in place at each step (`SetUp`: no source is
unmasked before everything its handler uses); that an interrupt waits or is served only if its source is unmasked
and routed to this CPU (`Caused`), which gives the gates it finds; that one vector at most is in service, and
which for each handler, since all are of one class (`InService`); and where a byte is on its way through controller, `irr` and handler
(`BytesFlow`): a byte that comes while the handler holds another has raised its interrupt already. The two that
last for ever follow from what stays: `StuckStaysStuck`, `AbandonedStays`.

Of `BootSector` it adds, from `BootAssumption` (sectors are positive), `StopsOnlyOnExcess` and `MissingSectorsHaveCause` (`StopsOnExcessOnly`,
`IncompleteHasCause`), whatever `KERNEL_SIZE` and the size of the kernel. `ReadJudged` is the chain behind them: what the carry flag stands for
before and after the comparison, and that a read without a report has brought all sectors. `StageSteps` shows that each step of the composition is a step of one stage and a
stutter of the others, so that `BootSpec` implements the specifications of `BuildScript` and `Interrupts` (`StagesAsSpecified`)
and the theorems about them hold of the machine that was booted (`Booted...`).

Of `Ahci`, `DiskPhaseProofs` proves, from `AhciAssumption` (no more slots are looked at than there are headers, and the driver polls
at least once), `TrueIsRead`, `NothingArrivesLate`, `MovesWhileStopped` and `IssuesToReadyDevice`, whatever the HBA does
and when. `AhciInv` follows the two bits of the port's command register and the engines that obey them (`Engines`), says that until a command is issued the HBA is idle or its link down,
and the device busy exactly while it is down (`NoCommandYet`), and that from then on the bit of the
command is clear only if the data is in the buffer (`CommandDone`); for this it has the command in memory from `fill` on, and an
error bit only with a stopped HBA. `ReadsWhatIsWritten` is the data's part: for all sector addresses
of 48 bits and all counts, the HBA reads from the header, of whatever contents before, what `read_bytes` has put there,
through its shifts and bytes.

Of `Pci` it proves, from `PciAssumption` (sizes are positive, there are at most 256 buses, and slots beyond the last device are still on a
bus), `ScanFindsController` and `HbaStaysReachable` (`FindsController`, `HbaReachable`), and the four theorems about `Ahci` for the driver that runs after the scan (`Boot...`).
The scan is a search of which the invariant says that no turn before this one was a hit (`ScanInv`), in the order `Before`, in which
`Following` is the successor. That every controller comes up, when buses are addressed as slots of bus 0 and
by their number, rests on `BitOr` with a zero (`SameBits`: a byte is the sum of its bits). `SetupInv` follows the address register through the sizing.

`Ps2KeyboardProofs` proves, from `KeyAssumption` (typists are typists) and with no bound on the bytes that wait, `ModifiersStay`, `LocksAgree` and
`DecodesTyping` (`ModifiersHaveCause`, `LocksFollowKeys`, `DecodesWhatWasTyped`). The first two speak of an empty wire, and what the flags are
then depends on all bytes still on it: `KbdInv` says that there is a sequence of flags, one before each byte, in which each follows from the one before by a byte
and the character decoded at each place is the one expected (`Traced`), and that its last fits the keys and locks (`Settled`). A key
extends the sequence (`MakeTraced`, `BreakTraced`, `SendTraced`), an interrupt takes its head off (`HandleFacts`). The proof showed that the property
failed for a typist with a print-screen key, which sends a shift of its own that its
release takes away from under a shift key: `DecodesWhatWasTyped` now excludes that key, which the only typist of the run
who has it, having both shift keys too, was not asked about.

`ConsoleRaceProofs` proves, from `RaceAssumption`, for every size of the page and every placement of interrupts: `RestsOnPage`, `WritesStayOnPage`,
`LineStays` and `PrintingEndsOnPage` (`RestOnPage`, `WritesOnPage`, `LineStaysNear`, `PrintingMends`). `RaceInv` says for each access what is known before it:
`LinesOK` and `RowsOK` of the line and the row wherever interrupts have come, `SparedOK` of everything, the register too, as long as they
have spared the windows, with `start` on the page or as many rows before it as digits have been printed (`StartNear`). What
an interrupt does is a recursive function over its characters, `Cursors`; that the cursor behind it is on the
page is proved from the least number of characters for which it is not. The proof found that it matters that the
handler prints more than one character: after an interrupt in the window of `left_col` the row can be one cell below zero, from which one
character, printed just after a backspace has found that the row is not 0 (`print_utils.c:104-108`), takes it to 0; the backspace then goes up from line 0,
and the line wraps below zero, against `LineStaysNear`. TLC shows this with `Burst = 1`. The handler prints 16 (`kernel.c:92`: the eight digits of `%x`
with their prefix, two brackets, four spaces), so that `Burst > 1` is justified.

`ConsoleProofs` proves, from `ConsoleAssumption` (two columns and two rows or more, at most 256 rows, since the number of a line is a
`u8`; numbers are no longer than a row), `ConsoleTypeCorrect` (`TypeOK`) and `ConsoleImplementsTerminal` (`ShowsTerminal`), for pages of every size. The
invariant, `OnPage` (`ConsoleInvariant`), says that the record is `Screen(i, l, m)`, column `i` of line `l` with memory `m`. For each call
there is a lemma that it takes `Screen(i, l, m)` to some `Screen(j, k, f)`, and the terminal `View(i, l, m)`, with the same
cursor and the memory as a grid, to `View(j, k, f)`: `ChrFacts`, `LineFeedFacts`, `UpDownFacts`, `LeftRightFacts`, `BackspaceFacts`,
`PositionFacts`, `StatusFacts`. Under them, `OffsetFacts` says that no two cells of the grid share one of the flat memory, `FilledGrid` and `RaisedGrid` what
writing and scrolling do to the grid. Numbers are the hard part (`NumberFacts`): the code lays the digits from the last to the first while the
cursor moves on from the first, the terminal from the first to the last, and a scroll may come between any two. Both are recursive
functions, for which closed forms are given: after `n` digits the code has laid the last `n` (`Written`), the terminal the first `n` (`Read`), below or above
where the page was raised. That the functions have these values is proved from the least number for which they do not (`LeastExists`, `Agree`), and that the
closed forms agree at the end cell by cell, the digits lost at the bottom right corner included.

`ExceptionsProofs` proves, from `PrintfAssumption` (bases from 2 to 16, sizes of words, bytes, decimals, fractions and significant bits positive) and `ExceptionsAssumption`
(the calls of the kernel are `WellPassed`, what the CPU pushes are words), `ArgumentsTaken`, `ValuesShown`, `ReportsTell` and `NeverBack`
(`TakesWhatWasPassed`, `ShowsWhatWasPassed`, `ReportTells`, `StaysHalted`), for formats of every length with directives, known and unknown, in every
order, and words and arguments of every size. It has two parts.
The first is about data. Powers, totals, joined formats and the value of a text are recursive functions; what each of them computes is
proved from the least number for which it would not (`LeastExists`), by `Agree` (two functions with one recursion agree) and `Recursion` (there is
one). From there: the digits of a number have its value (`DigitsShow`: the value of the first `k` digits is what `n - k` divisions leave), `Length` is
neither too short nor leaves a zero in front (`UnumFacts`), and a point or prefix is found again in front of digits (`PointFound`, `Prefixed`).
Decimals are the hard part, as `dec` is never reduced: after `k` turns it is less than `10^k`, and its last `k` places before the point should be the decimals so far, although every turn
rounds it. A rounded number is a multiple of a power of two, half of it away from the exact one at most (`RoundedFacts`, `RoundingError`). As long as `10^k` is at most `2^bits`, the last
significant bit counts for no more than the place before the point (`Fine`), so that a rounding can reach, but not pass, the next number of that place: no carry runs
into a decimal already printed (`NextDecimal`, `NextTurn`), and the decimals together are the integer part of `dec` (`DecimalsValue`). The roundings add up to less than `k` times
`10^k / 2^bits` (`TurnedFacts`). Beyond those decimals the property says nothing, and a carry can be lost there.
The second is about steps. `PrintfInv` says where `printf` can stand (`Place`: at the start of a piece, or within one it does not know,
behind what it has printed of it, and never at a character it would take for a directive), that it has then taken the words of the pieces it knows before that
place (`Stands`), and that it has printed each of them, once, in order, of its words (`Upto`). `Reading` is its heart: what the next two characters of
the joined format say about the piece they are in. `ExcInv` adds that a handler prints the report of its vector, and has finished when it halts. In a report
every piece is known or a single character, so that in the end the entries are the pieces (`Printed`), and no number looks like a label (`DigitFacts`).

### Only model-checked

- Liveness (`Drains`, the liveness part of `RefinesFifo`, `ServesAll`, `BuildEnds`, `DriverFinishes`, `EndsHalted`), as it needs fairness: out of
  the prover's reach.

## Not modelled

- The style bytes, the hardware cursor (`utils.c`), FPU and SSE setup, descriptor tables: constants and
  port writes that nothing depends on.
- `print_hex_byte`, `print_hex_u64`, `clear_key_queue`, `delay`, `exception_handler`: called by nothing.
- Infinities and values that are no number, which `printf` is never called with; floats too small to have all their bits; doubles beyond an `i64`.
- The string printer of `kernel_entry.asm`, which its first lines call for one message, the extension tests and display strings of `boot_sect.asm`: without effect on what follows.
- `outb(0x64, 0xF0)` (`kernel.c:291`) asks the keyboard controller to pulse its output lines, which may include the reset of the CPU. It is assumed to have no effect,
  as on a machine where the boot gets past it.
- The fake shifts that keyboards send around grey keys. The filter of replies in front of the decoder (`kernel.c:93`) is in `Interrupts` only, as no key of `Ps2Keyboard` sends one.
- The memory space bit of the PCI command register: the BIOS has set it, and the driver writes it back as it was.
- What an incomplete kernel does: anything.
- `disk.asm` and `wiggle.asm` are assembled by nothing.
- Hardware the code depends on but does not handle (timer restart on a change of mode, AHCI mode before it is
  enabled): assumed to behave as on the machines the kernel runs on.

## Plan

Done, in this order: `KeyFifo`, `KeyQueue` and its proofs; `Ps2Keyboard`; `Interrupts`; `Terminal`,
`Console`, `ConsoleRace`; `Ahci`, `Pci`, `DiskPhase`; `BuildScript` and its proofs; `BootSector`, `Boot`; `Printf`, `Exceptions`;
`print_unum` under interruption; the command in memory.

Theorems done: all of the safety properties.
A composition of `KeyQueue` and `ConsoleRace`, the main loop as a whole, would relate the keys taken to what is
drawn; the two share nothing but the moment of the interrupt.
