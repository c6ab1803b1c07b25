# Verification of the goldfish bare-metal programs

The repository is a set of bare-metal programs for the ARM *goldfish* board (the
Android emulator's machine), grown chapter by chapter: a first assembler program
(c03), programs with their own startup code (c04, c05), with the C library (c06),
with interrupts, timer and calendar (c07) and with NAND flash (c08), over shared
drivers in `drivers/`. This directory holds TLA+ models of the parts that carry
state or concurrency, the TLC runs that check them on small instances and the
proofs, checked by TLAPS, of the results that hold for every instance.

## 1. Inventory

There is one CPU. What is concurrent is `main` against nested interrupt handlers,
FIQs against everything, and the devices (timer, TTY, NAND controller, interrupt
controller) against the CPU.

| component | state | operations | interacts with |
|---|---|---|---|
| interrupt dispatch (`isr.c`, `bsp.c`) | the controller's enable mask; one `irq` per activation | `BSP_irq`; mask, unmask, disable all, number, status | entered from `ARM_irq`, calls the program's `irq_handler`; `main` uses the controller directly |
| exception entry and exit (`arm_exc.S`, `low_level_init.c`) | CPSR, banked registers, frames on the interrupted program's stack | `ARM_irq`, `ARM_fiq`, `ARM_swi`, interrupt lock and unlock | calls `BSP_irq`, `BSP_fiq`, `sw_handler` |
| timer (`timer.c`) | `timestamp`, `lastdec`; the latch and the alarm registers of the device | stamp, ticks, raw reading, two delays, alarm | called by `main` and by handlers |
| 64-bit division (`div64.h`, `c08e1.c`) | locals | `do_div`, `__div64_32` | used by the NAND driver for every offset |
| NAND driver (`goldfish_nand.c`, `mtd.h`) | `nand_info`, names, device count; the flash | probing; erase, read, write, read/write OOB, bad-block test and mark | the controller; callers of `struct mtd_info`; `c08e1.c` lists the devices |
| command interpreters (`c07e1.c`, `c07e2.c`, `c07e3.c`) | `ch`, `timeout`, `timer_irq` | `main`'s loop, the interrupt handler | mailbox `ch` between the two; timer, TTY, controller |
| serial console, system calls (`serial_goldfish.c`, `syscalls_cs3.c`) | `gtty.base`, the heap's end | put, get, test; read, write, sbrk, exit, the calls that only answer | C library; `c05e2.c` directly, `c06e1.c` through the library |
| date and clock (`date.c`, `rtc-goldfish.c`) | `rtc_offset`, `month_days` | `rtc_get`, `rtc_set`, `rtc_reset` | `c07e3` from both contexts |
| startup (`startup*.S`) | modes, stacks, memory image | copy, zero and fill loops, `EnterUserMode`, `SystemCall` | once, before `main` |

What is hard here: nested interrupts on a shared stack, with the lock at the CPU
and the mask at the controller in the right order; an FIQ between any two
instructions of the entry code; device registers read in two halves; variables
shared with handlers without a lock; counters that roll over; flash commands that
stop half-way. What makes each component correct is stated with its module below.
Every hazard, with its line, is listed in `PROJECT.json` under `hazards`.

## 2. Modules

    BspIrq <---refines--- ArmExc          Mtd <---refines--- Nand <-- MCNand
         `. (dispatch as one step each                        . (offsets are divided by)
             side of the handler)                             .
            Mailbox      Timer                              Div64 <-- MCDiv64

    Date <-- Rtc <-- MCRtc        Console <-- MCConsole        Startup

    proofs:  BspIrqProofs  ArmExcProofs  TimerProofs  Div64Proofs  NandProofs
             MailboxProofs  ConsoleProofs  StartupProofs

**BspIrq** - nested dispatch. An activation of `BSP_irq` is a frame with a pc (one
per statement of `isr.c`), the number it read and the saved CPSR.I; only the newest
frame runs, `main` runs when there is none. `main` may lock and unlock interrupts,
enter user mode (after which it cannot), mask, unmask, disable everything, and
quiet a device by reading it. The controller presents the lowest enabled number
whose line is up. `wanted` is a history variable: the numbers `main` itself unmasked.

**ArmExc** - the same dispatch at the level of `arm_exc.S`: the routines are
programs, as sequences of the instructions in the source, for a small interpreter
with banked registers, CPSR and word-addressed stacks. An FIQ may come before any
instruction executed with CPSR.F clear; IRQs nest while `BSP_irq` has them unlocked;
`main` may make system calls. C functions are their statements, and clobber the
registers the calling convention lets them clobber. BspIrq is the abstract
specification: the refinement mapping reads the frames off the interrupted contexts,
with entry and exit code as single steps and FIQs and SWIs as stuttering.

**Timer** - `timer.c` over a counter of W + H bits that is read in two halves, the
first read latching the second. Each access to the timer and to `timestamp` and
`lastdec` is a step, but for the two loads of an update, which are one; the counter may advance up to `MaxLag` counts between two reads.
Words are modulo 2^W, milliseconds are 2^S counts. `main` delays or takes a reading;
the handlers of the numbers in `Handlers` interrupt it, and each other, anywhere: `get_ticks`
(c07e3) or `goldfish_timer_read` (c07e1, c07e2), as `Reads` allows, and in TTY2's
`goldfish_set_timer` before it. An activation notes in `torn` that a nested reading
replaced the latch between its own two reads.

**Div64** - `do_div` and `__div64_32`, a step per loop iteration, in the widths of C.
Powers of two are the constant function `Pow2`, so that the proofs need no induction.

**Mtd** and **Nand** - `Mtd` is the contract of `struct mtd_info`: devices of pages
with data and OOB areas, requests that are rejected when illegal and otherwise touch
exactly the bytes they name and report how far they got. `Nand` is the driver: the
device is a string of raw bytes in which pages and OOB areas alternate, and a command
may stop short. Probing, with a wrong version, wrong device counts and names that are
too long or arrive incomplete, is part of the module, and so is the listing `c08e1`'s
`main` prints of the devices found, with the divisions it makes and names read as C strings
out of rows that touch; its three lines with 64-bit numbers print junk (section 4). Sums and products
wrap as the code's do, in words of `WordBits` bits (`uint32_t`, `size_t`: lengths, `ooblen + ooboffs`,
`writesize + ooboffs`) and of `WideBits` bits (`loff_t`, `uint64_t`: an offset and a length, an address). The length
of an erase is cut to a word before and after OOB bytes are added; `Mtd` allows an erase that does not fit (`Fits`)
to do less than was asked, and nothing else. A request of which a sum wraps (`Wraps`) may pass the driver's tests without
being legal; `Mtd` then still has it rejected or leave alone what `Unchecked` says: the other devices and the bad marks, everything
when it only reads, and the pages before its offset when it writes OOB bytes. An OOB request at the offset just behind the last page is legal in the
driver; `Mtd` lets it transfer OOB bytes, since a device whose size is not whole pages has some
there, but never bytes of a page. A call and the caller's taking
of its result are two steps; the driver is not called from handlers.

**Mailbox** - the interpreters c07e1, c07e2 and c07e3, chosen by `program`: `main` and the
TTY2 and timer handlers, an access to shared state per step. c07e1's handler is the vector
itself, locked and without masking, and clears the alarm (`goldfish_clear_alarm`); the others
go through `BSP_irq`, as in BspIrq, with its locked parts before and after the handler as one
step each and different numbers nesting in between. `ch` is not volatile: after a call `main`
loads it, else it may compare a register copy (`reg`) or the variable. The C library hands
out keys from a buffer that `_read` fills with all keys that are ready.

**Date** and **Rtc** - `Date` has the conversions of `date.c` as functions (its loops
as recursive functions). `Rtc` is the clock over them: `rtc_get` and `rtc_set` in `main`,
with the two reads of the timer in `get_second` and the access to `rtc_offset` as steps,
and `irq_handler`, which may reset the clock and always re-latches the timer. The timer is its
two halves, moved in steps of 2^29 counts, which `get_second` puts together. Beside
the code runs a reference that knows neither halves nor `get_second`: two calendars moved on by
the Gregorian rules, one from Thursday 1970-01-01 and one from the date last set, a second every 2^30
counts. That this is a second is `get_second`'s own assumption, and others of `timer.c` disagree (section 4).

**Console** - the TTY driver, while keys are typed at any moment, under three programs:
c05e2's echo loop, which calls it directly; c06e1's loop of `malloc`, `printf`, `getchar`,
`putchar` and `free`, up to its return and `_exit`, through the library's buffers; and any
sequence of system calls (`_read`, `_write`, `_sbrk`, `_isatty`, and those that only answer, a table
of results, `Answers` and `Refuses`, of which no property speaks). The library gives back to `_sbrk` only the end of what it holds;
standard output is written at the end of a line and at exit.

**Startup** - `ResetISR` of c05 (bytes, counted down) and `_reset` of `drivers/startup.S`
(words, while below the end; no linker script of the repository defines its symbols) as
lists of loops over one small memory, a step per turn, then the six stack pointers.

`PROJECT.json`'s `map` gives, for each definition, the lines it models. Definitions
marked external are the ARM instruction set and the devices, which are not in the
repository and are modelled from how it uses them.

## 3. Runs

| run | instance | what it shows |
|---|---|---|
| `bspirq` | 3 interrupt numbers | the lock is open exactly in the section where handlers may nest and a number in service is wanted and masked (`Inv`, the invariant of the proofs), no handler is re-entered for its own number, the mask is main's mask less the numbers in service, a number is always pending when it is read, nesting is bounded by the number of sources; every number presented to an unlocked CPU is served, and `main` resumes unless devices never stop |
| `armexc` | 2 numbers, stacks of 32 words | every exception gives the interrupted code its registers, CPSR, address and live stack back, stack use is bounded, and the code implements BspIrq |
| `timer` | W = 3, H = 2, S = 1, delays 0, 2, 3, interrupts masked | no delay is early, `__udelay` is late by no more than the milliseconds that begin in its first two and last two gaps between reads, every delay ends, the two-part read, raw or in milliseconds, is of one moment |
| `timer_alarm` | W = 2, H = 1, S = 1, TTY2 and timer handlers nesting | `goldfish_set_timer` sets the alarm exactly, carries included, wherever handlers interrupt; after a nested reading between its two reads the alarm is off by whole turns of the low half, no more |
| `timer_race` | as `timer`, the timer's handler unmasked | **violated**: `get_ticks` in a handler makes `__udelay` early |
| `div64` | W = 4: all dividends and divisors | quotient and remainder are right, nothing wraps, the loops end |
| `nand` | two unlike devices, requests around every boundary, words of 8 and 16 bits with requests that wrap them | sizes of every listed device are set, the names and 32-bit numbers of the listing are the chips' but for a name that fills its row, commands stay in the device but for requests that wrap, the driver implements Mtd |
| `nand_bad` | two-page blocks, as many OOB bytes as data, lengths of 2 bits; erase, write and bad blocks | block addresses are the device's; bad marks survive erases; an erase whose length is cut never erases what was not asked for |
| `mailbox` | the three programs, 3 keys of 7 kinds | no key is lost or overtaken before `ch`, commands are obeyed in order and at most once, the handler's `getchar` never blocks, the timer's mask follows the commands, an alarm that went off is handled unless the timer is disabled, `main` keeps polling |
| `rtc` | every day to 2037-12-31 at its first and last second; 3 uses of the clock from four days, around year ends and leap days | `to_tm`, the weekday and `mktime` agree with the calendar; what `rtc_get` returns is what the clock showed, with the handler and time passing at any point |
| `console` | 3 keys of 3 kinds, 3 library calls, a heap of 4 bytes below a room of 2 | no key is lost or invented, a read returns 1 to `len` bytes, screen and echo are whole, the heap is one piece below the stack's room, c05e2 and c06e1 show every key up to the 'q' without another key having to push it out |
| `startup` | words of 2 bytes, 60 layouts with empty and partial sections | `main` finds its image and nothing else is touched, each mode has its own stack, the loops end |

*Bounds.* Three interrupt numbers give nests of full depth in which the lowest, the
middle and the highest number are in turn interrupted; two are enough in ArmExc, where
an FIQ and a half-built frame can lie on top of both. The timer's small words make the
counter, its halves, the stamp and the wake-up time all roll over within one delay;
the poll spacing of up to a millisecond lets a poll step over a value. W = 4 gives the division
every relation of dividend, divisor and sign bit. The NAND devices have pages
with and without OOB bytes, blocks of one and of two pages, and a device size that is
not a whole number of pages, with enough bytes behind the last page for an OOB request there to reach them; offsets run to one past the end.
An OOB offset of 255 wraps the 8-bit words of `nand`, alone (into the page) and with a page of data; so do 255 OOB bytes from offset 1; offset 65534 wraps the
16-bit ones with a page (to the beginning of the device) and with a length of 255. The first name fills its row. With lengths of
two bits, erases of 3, 4 and 5 bytes wrap to 0 and to less than was asked, before and after the OOB bytes are added. Three keys let a key
arrive during each stage of the obeying of another and let an alarm be armed,
masked and unmasked. Three uses of the clock are two settings and a reading; time
moves by half a second, a second, or to the day's last or next day's first second, so that between any two accesses the low half
turns over, or only the bit that `get_second` drops changes. Two keys may be ready when a read for one
byte comes, and one when a read for two does. `Horizon` caps a history counter above every bound the properties
compare it with.

*Deadlock* is checked except in the NAND runs, where a board without a usable device
leaves nothing to do.

*Fairness.* BspIrq: the CPU does not stop inside the interrupt path (nothing is
assumed of `main` or the devices). Timer: the CPU runs and time passes. Mailbox: the CPU
runs main and handlers, an enabled interrupt whose line stays up is taken, an alarm
goes off. Div64, Startup and Console: the CPU runs (nothing is assumed of who types or of the
library's next call). There is no scheduler in this system; these are
properties of the processor and the devices.

`Inv` is, in each module that has proofs, its inductive invariant (section 5), with the types of
its state and named parts that are properties themselves: `ReadNotTorn` in Timer,
`ListedHaveGeometry` in Nand, `KeysInOrder` in Mailbox, `HeapExact` in Console. Runs check it
for BspIrq, Timer, Div64, Nand, Mailbox and Console; those of Startup and ArmExc are proved, and `startup` and
`armexc` check what follows from them. The run `timer` checks Timer's without handlers only; with nested handlers there are too many
states for a run of a few minutes, and the proof covers them.

Each property has a mutant in `PROJECT.json`: a definition changed as a plausible
slip in that code would change it, which the property refutes.

## 4. Findings

`timer.c:120` - `timestamp` and `lastdec` are updated by two stores with
interrupts enabled; a handler that calls `get_ticks` in between counts the same time
twice and a delay of `main` is cut short (`timer_race`). By the same kind of
interruption the halves that `get_millisecond` and `get_second` read can be of two moments:
`ReadNotTorn` (a part of Timer's `Inv`) and `AlarmExact` allow exactly those readings (`torn`) an error of
whole turns of the low half, and `ClockKeepsTime` excepts them.

Further disagreements met on the way, which no run is spent on: the test of `timer.c:82` keeps room for
one millisecond between the wake-up time and the largest stamp, so when two milliseconds pass between two reads (an
FIQ, a halted emulator) the stamp can step over the wake-up time and `__udelay` waits for a further turn of the
stamp, 49 days (met in the proof of `UdelayNotLate`, which needs reads at most a millisecond apart; TLC shows it with
`MaxLag` = 3, `Delays` = {0} and `Horizon` = 12); a NAND name of exactly
the maximal length loses its end, since its zero is stored in the next row
(`goldfish_nand.c:318`; `ListRight` names the exception); a failed erase returns without
the callback that `mtd.h:172` asks for (`goldfish_nand.c:108`); `main`'s `ch = 0` wipes out a
key that came in meanwhile (`c07e3.c:142`); `_write` returns the number of bytes asked for,
where its comment (`syscalls_cs3.c:50`) says sent, NULs being dropped; `_read` waits for
a key before it refuses a file that is not stdin; a refused `_sbrk` returns 0, not -1;
`arm_exc.S:76` says that FIQs are disabled where they are not (ArmExc shows that nothing
goes wrong); `timer.c:125` says `udelay_masked` resets the stamp, which it does not;
`mtd.h:121` allows reading several OOB areas at once, which `goldfish_nand_read_oob`
rejects (Mtd follows the code); an OOB request without data at offset `size` passes
`goldfish_nand.c:127` and `:160` and is sent to the device, an exception that
`CommandsInDevice` names; `syscalls_cs3.c:80` says `_read` blocks until all characters
are read, and it returns what is ready; the library's `getchar` reads ahead, so that of two
keys ready at one interrupt the second waits for the interrupt of a third (c07e1 to c07e3);
an erase longer than 32 bits is cut (`goldfish_nand.c:91`) and reports success; a request whose end wraps is not
rejected as beyond the end: `ooblen + ooboffs` in 32 bits (`goldfish_nand.c:131`, `:164`; lines 142 and 175 then put the OOB bytes
of offset 2^32 - 1 at the last byte of the page's data) and offset + length in 64 (`:94`, `:127`, `:160`, `:193`, `:217`); `c08e1.c:128`,
`:131` and `:133` pass 64-bit numbers to a `%d`, which prints another register, and `:127` passes flags to a `%s`; and `timer.c`
has two seconds: `get_second` (`timer.c:174`) takes 2^30 counts for one, while `get_millisecond` (`:192`) takes 2^20 counts for a millisecond and
`get_tbclk` (`:152-160`) says 1000 ticks to a second, so that a second of the clock of c07e3 lasts 1024 of the delays' milliseconds and the clock is 2.4% slow beside
them (`ClockKeepsTime` speaks of the clock's own seconds).

## 5. Proofs

**BspIrqProofs** proves for every finite set of interrupt numbers: type correctness,
`NoReentry`, `MaskRestored`, `NumberDefined`, `NestOnlyUnlocked` and `DepthBound`. None
of these is inductive alone. `Inv` adds what makes them so: CPSR.I is set exactly
when the newest frame is outside the unlocked section (`LockDiscipline`), so
interrupts arrive only there; a frame past its read holds a number of the controller
(`NumberRead`), which is enabled before it is masked and after it is unmasked
(`NumberEnabled`); a number in service is wanted, since `main` cannot run to withdraw it
(`ServiceWanted`). A new frame reads an enabled number, numbers in service are
not enabled, hence `NoReentry`; with the numbers of the frames pairwise different, and
the newest frame's pending number not among them, `DepthBound` follows by counting.
There is one lemma per group of actions (`OutsideInv` for devices and `main`,
`TakeIrqInv`, `TopStep` and `BspIrqInv` for the statements, `ReturnInv`).
Assumption: `IRQAssumption`, the numbers are a finite set of positive naturals.

**ArmExcProofs** proves, for every finite set of interrupt numbers, the invariant `Inv`, `StackFits` and the
action property `ContextRestored`, under `Roomy`: the stack holds ten words for every interrupt source and eight
for an FIQ (for 32 sources 328 of the 1024 words that the linker scripts give
the C stack, what main and the handlers themselves use aside; `armexc` has 32 words where `Roomy` asks for 28). The
instructions between interrupt and return are numbered as stages. `Interrupts(m, c, s, n)` says of a state s in which the
routine that interrupted context c is at stage n where every part of c is: which words of the frame
are written, which registers still are c's, which are parked in banked registers, and which mode the CPU
is in. `Calls` says the same of `ARM_swi`. `Inv` then says that the history is a chain of such pairs (`Layers`: each exception
relates the context it interrupted to the context that interrupted *it*, the newest one to the present state), that an IRQ lies only on BSP_irqs
at their handler (`Nests`), and that the numbers in service are different and masked, one is pending where it has not been read
and enabled where it is about to be masked (`Numbered`). An instruction moves the newest layer one stage on: there is a lemma
on contexts for each stage (`Stage1` to `Leave`), one that `Execute` at that stage is that instruction (`Run1` to `Run33`,
from the routines' texts, `IrqText` and `FiqText`), and the same for the system call. An exception adds a layer at stage 1 (`Push`). A
return ends in `Resumes`, which is `ContextRestored`, and leaves the layer below at its stage (`Pop`): the context the returning exception
gives back may differ from the one it took in scratch registers and in words below the stack pointer, and no stage at which an
exception may come relies on those (`IrqUnharmed`, `SvcUnharmed`, `MainUnharmed`). For an FIQ that is every stage of ARM_irq up to the
MSR that disables FIQs on the way out, and for an IRQ the two around BSP_irq's handler. The depth of nesting is bounded as in
BspIrq, by counting numbers in service (`Sources`), which gives every frame its room and `StackFits`. Assumptions: `IRQAssumption`, `StackAssumption`.
Preparing this proof showed that three CASEs of the models had overlapping guards (`Init` here, `PutDone` of Console, `KeyOther` of
Mailbox), where TLC takes the first and TLA+ leaves the value open; they are disjoint now.

**Div64Proofs** proves for every width that the division is correct. `Inv` says that
dividend = quotient so far x divisor + rest, that b is the divisor times the power of
two d, and that in the second loop the rest is below 2b; from it follows that no
addition, doubling or subtraction wraps. (The sign test of `c08e1.c:54` never decides: after the reduction
the rest is below the divisor times 2^W, so doubling reaches it first.) Assumptions: `WAssumption`, and `Pow2Assumption`,
which characterises `Pow2` as the powers of two (TLC evaluates it for 2^k).

**TimerProofs** proves, for every width of the counter's halves, any delays and arguments and
any nesting of handlers, `Inv` and `AlarmExact`. What makes them inductive is
`Halves`: between the two reads the latch is the one of the activation's own reading unless it
is marked `torn`; between reading and writing, the alarm's low half is right in any case and its
high half unless the reading was torn; between the two writes `TIMER_ALARM_HIGH` is the activation's
own. The last needs `OncePerNumber`: only TTY2's handler sets alarms, and it does not
nest on itself. The arithmetic is in lemmas of its own: `Millisecond` (`get_millisecond` of a
counter's two halves is its millisecond modulo a word, and modulo the low half's milliseconds
whatever the high half), `CarryRight` and `AlarmHalves` (the carry test `lo > tmp` is exact, and
the 32-bit halves are off by whole turns of the counter at most). Every activation is judged by one predicate (`Fine`),
so that the steps reduce to four lemmas: an activation goes on (`GotoInv`), begins (`PushInv`),
ends (`PopInv`), latches the counter (`ReadLowInv`). Assumptions: `WidthAssumption`, `InputAssumption`,
and `PowerAssumption` and `TurnAssumption`, the laws of powers of two that the prover does not know.

It proves of the delays, for every width and every start of counter and stamp, that neither is early
(`UdelayNotEarly`, `MaskedNotEarly`) under `Masked`: no handler runs (with handlers the code is wrong,
`timer_race`), the counter's turn is whole turns of the millisecond count (in the code H = W = 32 and S = 20),
and the history counter `elapsed` reaches every delay. The inductive invariant `DelayInv` says that as many milliseconds
have begun since the delay's first reading as the stamp has counted, the reading under way is about to add and have
passed since; distances (`Dist`) are modulo a word, so that rollovers of count, stamp and wake-up time are no cases of their own
but for the one millisecond that `timer.c:118` drops, which makes delays longer. Under `Swift`, in addition at most a millisecond
between two reads, `__udelay` is not late (`UdelayNotLate`). `LateInv` bounds `elapsed` from above by the stamp's
advance (`Waits`, `Sums`), with one millisecond more once the count has rolled over (`Behind`: that happens at most once, as
the count is then still below the advance), and says that while the loop waits the stamp lies between its start and
the wake-up time: one reading moves it by at most one, and the wake-up time is at most the second largest word, so it cannot be stepped over. The bound is
the tight one: the milliseconds that can begin in the two gaps before the stamp is taken, and in the two after it was
last below the wake-up time. (An earlier bound, which rounded the four gaps together, was refuted when its proof failed.)
The invariants were checked with TLC on several widths first.

**MailboxProofs** proves, for any number of keys and all three programs, `Inv`, hence
`GetcharNeverBlocks`, `ObeyedInOrder` and `TimerMaskObeyed`. `Nesting` says that a number is
handled only while it is masked (in c07e1: alone); `KeyWaits` extends `GetcharNeverBlocks` to
activations that are interrupted before their `getchar`; `MaskPaired` accounts for a mask that a
handler under way will undo. `OrderKept` is what `ObeyedInOrder` lacks: `ch`, and the copy a
register may still hold of it, stand for keys that have not been obeyed, or only in this turn
of the loop by a test already passed - the tests of one turn are for different keys, so
the same key is not obeyed twice before `ch = 0`. Assumption: `KeyAssumption`.

**ConsoleProofs** proves, for any texts, lengths, heap bounds and number of keys and calls, `Inv`,
`HeapExact`, `NothingLost`, `ScreenRight` and the action property `ReadsSome`. `KeysKept` puts what
a read has fetched between its caller and the device, `ReadFits` says that a read loop never asks for
more bytes than are ready (nobody else takes them), so `goldfish_getc`'s -1 never gets into a buffer;
`ScreenKept` says how much of the text being written is shown, and `Callers` which
program is in which call. Places on the screen are counted with the cardinality of the bytes that
are not NUL (`PlaceNext`, `PlaceWithin`). Assumption: `ConsoleAssumption`.

**StartupProofs** proves, for every word size, section sizes and stack size that fit below `Top`,
`Inv`, `ImageRight` and `StacksApart`. The loops go upwards: below the pointer memory is as the
loops behind it leave it, above it untouched (`MemoryRight`), a pointer stays in whole units within
its loop (`Registers`), and what a loop writes beyond its section's last byte is padding before the
next section (`PaddingRight`). Assumptions: `StartupAssumption`, `LayoutAssumption`.

**NandProofs** proves, for any devices, geometry, names and widths, and for the requests of the model - every
offset up to one past the end and any others (`FarOffsets`), lengths around a page and any others
(`FarLengths`, `LongErases`), any OOB requests (`FarOps`) - `Inv`, `ListRight` and
`CommandsInDevice`. `ProbedSoFar` says that a device has its chip's geometry from the moment the probing
loop has passed it, even when it then failed; `NamesKept` that a name in use is in its row with its zero
behind it, which later names, in later rows, do not touch unless it fills its row. The bounds of the commands
rest on arithmetic: whole pages in the data areas are whole pages with OOB areas in the device (`AddressFits`,
`BlockAddressFits`), wrapped lengths are only shorter (`EraseFits`), and where no sum wraps the driver's tests are those
of exact arithmetic. A request of which a sum wraps is not legal (`WrapsNotLegal`), so rejecting it is right, and what it may do when it passes is
`Unchecked` (`Harmless`): its commands name one device, those that read store nothing, and one that writes OOB bytes has its address at or behind its own page.

It also proves the refinement, `ImplementsMtd`: under the mapping that cuts the raw bytes of a device into the data
and OOB areas of its pages (`Area`), every step of Nand is a request of Mtd or leaves it unchanged (`StepImplements`, one lemma per kind of request). The core
are facts on bytes: areas of different pages and the two areas of one page do not overlap (`PagesApart`), what is
stored within one area changes that area as `Filled` says and no other (`StoredInPage`, `StoredData`, `StoredOob`), what
is stored behind the last page changes none (`StoredBehind`), and a cut erase covers a prefix of the pages asked for (`ErasedPages`). The proof showed that
a first version of Mtd, in which an OOB request behind the last page transferred nothing, was too strong for devices
with a long rest, which the small instances of then did not have. Assumption: `ChipAssumption`, what the
controller says of its devices: pages of at least one byte, blocks of whole pages.

*Only model-checked*:

- Liveness (interrupts served, delays and loops that end, echoes shown): the prover has no support for fairness.
- The refinement of BspIrq by ArmExc, whose mapping picks the IRQs out of the history with `SelectSeq`: what that returns
  for every history is induction over data.
- `Date` and `Rtc`: what the loops of `date.c` compute is induction over data.

## 6. Not modelled

- The early examples c03, c04, c05e1 and `goldfish_uart.S`: they run once or only move bytes
  to the device. c06e2 is c06e1 over the toolchain's semihosting library and none of the
  repository's system calls.
- `syscalls.c`, an earlier copy of `syscalls_cs3.c` that no Makefile links; `BSP_init`,
  `goldfish_disable_tty` and others that nobody calls.
- The instructions of `__cs3_reset`, before interrupts exist: the state they leave is the `Init`
  of BspIrq and ArmExc. `ARM_undef`, `ARM_reserved` and the aborts call `BSP_abort` and hang, or
  in c07e1 print and loop for ever.
- Build files, headers without code, the text programs print (the flags line of `c08e1`'s
  listing included), and the C library: when `malloc` calls `_sbrk` is any choice, `free` never
  trims the heap, standard streams of a handler and of `main` are not shared (`c07e3.c:85`), and
  what `malloc` makes of a refused `_sbrk`'s 0 is left open.
- Interrupts taken during NAND calls share no state with them. A newline key in c06e1, which
  would write the line early, is not typed. Dates from 2038 on, where `to_tm`'s argument is
  negative, and the overflow of `timeout` after some ten 'x' keys, are outside the model.

## 7. Plan

Done in this order, the most concurrent part first: BspIrq and its proofs, ArmExc,
Timer, Div64 and its proofs, Mtd and Nand, Mailbox, Date and Rtc, Console, Startup; then the
programs c07e1, c07e2, c06e1 and c08e1 over them, nesting timer handlers, and the width of an
erase's length; then the proofs of Mailbox, Console, Startup, Nand and Timer; then the refinement of
Mtd, the delays of Timer and the frames of ArmExc. What remains of ArmExc is its refinement of BspIrq, for which `Inv` of ArmExcProofs
is the invariant, once the activations are picked out of the history in a form that can be reasoned about.
