# A verification project for the moooooooo emulator

The program runs a Horizon OS kernel on four emulated ARM64 cores. It is one
host thread around a patched copy of the unicorn CPU emulator: `src/main.cpp`
schedules the cores, handles their exceptions and hooks every instruction;
`src/mmio/*.cpp` are the devices. This directory models its own logic (not
unicorn) in TLA+, checks it with TLC and proves the central invariants with
TLAPS.

## 1. Inventory

| component | state | operations | where |
|---|---|---|---|
| scheduler | `cores_online`, `uc_quit`, the loop's `i` and `err`, DRAM mappings of every core | `uc_run_stuff`, `uc_core_run_slice` | main.cpp 719-770 |
| exception hook | X0-X7 and PC of the cores, `cores_online`, `uc_quit`, guest memory | `hook_exception`: SMCs, SVCs, aborts | main.cpp 360-543 |
| instruction hook | `last_pc`, `g_has_sevl`, `g_should_stop`, `uc_quit` | `hook_code`: SEVL/WFE, hang detector | main.cpp 551-601 |
| GIC distributor | `sgir_queue`, `gicd_regs_set` | `mmio_gicd_read/_write`, `_push_next_interrupt`, `_handle_interrupts` | gicd.cpp |
| GIC CPU interface | `active_intr`, `active_intr_cpu`, `gicc_regs_set` | `mmio_gicc_read/_write`, `_set_active_interrupt`, `_interrupt_active` | gicc.cpp |
| physical memory | `dram` .. `dram_4`, `iram`, `tzram`, the engines' maps | `paddr_to_alloc`, `mem_init`, the maps of `uc_init` and `uc_core_run_slice` | main.cpp 70-90, 707-745, 861-893 |
| table walker | its recursion | `hook_mem_invalid`, `uc_mmu_walk`, `uc_mmu_level_iterate` | main.cpp 125-188, 514-521, 622-661 |
| UART | five line buffers | `mmio_uart_read/_write` | uart.cpp |
| memory controller | six registers | `mmio_mc*_read/_write` | mc.cpp |
| timer | none; the host's clock | `mmio_timer_read` | timer.cpp |
| car, host1x, mselect, pinmux, system | none | reads of 0, dropped writes | the other mmio/*.cpp |
| start-up and shutdown | the engines, the blocks, the loaded images | `main`, `mem_init`, `uc_init`; `load_processes` is never called | main.cpp 682-717, 772-780, 861-939 |
| tracing | - | `uc_print_regs`, `hook_memrw`; never called: `uc_read/write_reg_state`, `dram_dump`, `hook_block`, ... | main.cpp |

How they interact:

* The scheduler visits the cores in order. For each it calls
  `mmio_gicd_handle_interrupts` and then `uc_core_run_slice`, which maps the
  DRAM, runs the guest for at most 0x10000 instructions and unmaps it.
* Inside a slice unicorn calls back: `hook_code` before every instruction,
  `hook_exception` at an SMC, SVC or abort, the `mmio_*` handlers at device
  accesses. All run to completion on the one host thread.
* A core reaches another core only through shared state: `smcCpuOn` writes
  its registers and `cores_online`; GICD_SGIR pushes on its queue; `hook_code`
  shares `last_pc` and `uc_quit`.
* `main` allocates the memory and opens the engines before the scheduler
  starts and frees them after it; nothing but the first test of `mem_init`
  looks at what failed. `smcCpuOn`, a walk of all cores' tables and the reports
  at the end use every engine, open or not.
* A write to missing memory makes unicorn call `hook_mem_invalid`, which reads
  the tables of all four cores out of the host's memory by `paddr_to_alloc`;
  the guest sees the same memory through what `uc_core_run_slice` maps. The
  two compute the banks' addresses separately.
* UARTs and memory controller are shared by the cores without distinction; the
  interrupt controller's files are one per core.
* The distributor writes the active interrupt of the CPU interface, the CPU
  interface's GICC_EOIR calls the distributor, the scheduler calls both.

What is hard here is not parallelism of the host (there is none) but the
interleaving of the guests: a slice may end at any instruction, in the middle
of an interrupt handler or a spin lock; the order in which cores come online,
send and acknowledge interrupts and ask to quit is the guests'; and state
written for one core is read, stale or overwritten, in another's slice.

What makes each component correct:

* **SGI delivery**: no SGI lost, doubled or overtaken before it is shown;
  number and sender belong together; interrupts do not go on for ever.
* **scheduler**: DRAM is mapped in one core at a time; a core runs from where
  it was told; runnable cores take turns; a request to quit is honoured.
* **both together**: acknowledgements are in order; what is sent is shown.
* **instruction hook**: the delayed stop after a WFE hits the right core
  once; the hang detector finds spins and nothing else.
* **exception hook**: a started core begins with the pair of one call; the
  caller resumes after its call.
* **register files**: registers are separate words, separate per core where
  the device is, common where it is not.
* **memory**: what an engine maps is allocated; the emulator and the guest
  agree on where a physical address is; images are where the guest looks.
* **start-up and shutdown**: nothing is used before it is there or after it is
  gone, and a request to quit ends the process.
* **table walker**: it ends, reads the guest's tables and finds the page.
* **UART**: each line is what was sent to that UART.
* **timer**: delays are not cut short, and end.

## 2. Modules

| module | what it is |
|---|---|
| `GuestCores` | the cores |
| `SgiMailbox` | abstract specification of SGI delivery |
| `Gic` | SGI delivery in gicd.cpp and gicc.cpp; implements `SgiMailbox` |
| `GicProofs` | its theorems |
| `Scheduler` | uc_run_stuff, uc_core_run_slice and the guest calls that steer them |
| `SchedulerProofs` | its theorems |
| `Emulator` | `Scheduler` and `Gic` composed, with the guests' interrupt handlers |
| `EmulatorProofs` | the composition implements both parts; theorems about all three together |
| `HookCode` | hook_code |
| `HookProofs` | its theorems |
| `Registers` | the register files of all devices |
| `Exceptions` | hook_exception |
| `ExceptionsProofs` | its theorems |
| `PhysMap` | paddr_to_alloc and the guest's map of the DRAM, with their int arithmetic |
| `Lifetime` | `Scheduler` and `PhysMap` between start-up and exit |
| `LifetimeProofs` | it implements the scheduler; theorems about the engines, what they map and what the guest finds there |
| `Walker` | hook_mem_invalid and the walks of the guest's translation tables, over `PhysMap` |
| `Memory` | `Lifetime` and `Walker` side by side |
| `MemoryProofs` | theorems about the walks and about both together |
| `Uart` | the five UARTs and the drivers of the cores that share them |
| `Timer` | the microsecond counter and the delay loops that poll it |
| `Devices` | `Registers`, `Uart` and `Timer` side by side |
| `DeviceProofs` | theorems about each of the three and about them together |
| `MC*` | constants for TLC |

`Emulator` EXTENDS `Scheduler` and `Gic`: every step conjoins one action of
either, so what the scheduler and the GIC do there is exactly what their own
modules say. `Lifetime` EXTENDS `Scheduler` in the same way: its action `Run`
is any step of `SchedNext`, with the engines that are open.

State and actions correspond to the code as follows.

* **Gic**. `sgir_queue`, `active_intr`, `active_intr_cpu` are the code's;
  `irq` is unicorn's pending line. `WriteSgir` is the GICD_SGIR case of
  `mmio_gicd_write`, `WriteEoir` the GICC_EOIR case of `mmio_gicc_write`,
  `PushNextInterrupt` and `HandleInterrupts` the functions of these names.
  `log`, `handed`, `raised` are histories. A queued record keeps `intid` and
  `sender`; the code's `target` and `target_list` are never read again. The
  code's test of bits 16-23 is modelled as it is.
* **Scheduler**. `phase` is the place in uc_run_stuff's two loops. One guest
  instruction is one step; what is in it beyond the scheduler's concern is
  left to the other modules. `resume[c]` abstracts core c's X0 and PC to where
  the next slice begins. `uc_core_run_slice` has no return statement; built
  as the Makefile builds it, without optimisation, the caller reads what the
  last call left in the register, an error code of either kind: `err` is
  chosen freely. `turns` is a history that stops counting at two.
* **Emulator**. `handler` and `acked` are the guest's. `Attentive = FALSE` is
  any guest that acknowledges before it ends an interrupt; `Attentive = TRUE`
  is one that takes IRQs at once, acknowledges until GICC_IAR shows 0x3FF and
  finishes its handler within the slice.
* **HookCode**. A guest is a graph of addresses with an instruction kind at
  each. `StopAtInsn` and `ExecuteInsn` are the two things that can follow the
  hook. Assumed of unicorn: `uc_emu_stop` in the hook keeps the hooked
  instruction from being executed, and a slice that ends by its budget ends
  between two instructions.
* **Registers**. The switch of a handler is a set of arrays `[first, final,
  base, at]`; `Element` is its index computation; `Copy` is whose file it is.
  Offsets and struct layouts are the code's. GICD_SGIR, GICC_IAR and GICC_EOIR
  are `Gic`'s, the UARTs and the timer have modules of their own. The stub
  devices are devices without a register.
* **Exceptions**. One action per case of the switch; each includes the
  write-back of X0-X7 and PC + 4 at the end of the hook. Function identifiers
  are abbreviated. Guests name existing cores and ask for at most 0x38 random
  bytes (`ExceptionsAssumption`).
* **PhysMap**. `DRAM_SIZE` is a constant in any unit; 2^32 is four of it and
  DRAM begins at two. `BankOffset` is the product `DRAM_SIZE * k` as an int,
  folded modulo 2^32, `BankStart` its sum with DRAM as an unsigned int. So the
  "banks" are where the code has them: the second test of `paddr_to_alloc` is
  never true, the third bank is at address 0 for both sides, the fourth at
  0x40000000 for `paddr_to_alloc` and nowhere for the guest.
* **Lifetime**. `stage` is the place in `main` and what it calls, `next_core`
  its loop variable, `open` and `fixed` the engines and what `uc_init` mapped in
  them, `blocks` what is allocated. Every mmap, malloc, fopen and uc_open may
  fail. Unicorn refuses a region that overlaps one mapped before (`Granted`).
  Using an engine that is null ends the process (`Crash`, `Report`).
  `unnoticed` is a history.
* **Walker**. `stack` holds the calls of `uc_mmu_level_iterate`, `todo` the
  roots left, `printed` the entries of the report. An entry is its type and its
  address. Only the table's first byte is looked up, as in the code; what is
  read beside the bank is any of `Garbage`, or the end of the process. The two
  enumerations `hook_mem_invalid` mixes have unicorn's numbers.
* **Uart**. `fifos` is the code's; `printed` has the lines, by UART, which the
  code does not print. `driver` and `begun` are the guest's, `sent` is the
  history of its text, by UART. Words are numbers, since the handler cuts them
  to a byte, drops some and ends a line at others.
* **Timer**. `host` is the host's clock, `guest` the delay loops. `past` counts
  the time that really passed; the guard of `Tick` uses it to have a core poll
  again before `Gap` microseconds have passed.

## 3. Runs

| run | what it asks | result |
|---|---|---|
| `gic` | delivery: `QueueIsUnsentTail`, `IarNamesLastHanded`, `NoIrqStorm`, `MailboxKept` (refinement), `GoesQuiet` | pass |
| `gic_filter` | is the target filter where gicd.h:44-45 puts it | violated |
| `scheduler` | `MappingExclusive`, `StartsWhereTold`, `FairTurns`, `QuitEndsSlices`, `RunnableRuns`, `QuitStops` | pass |
| `emulator` | any guest: `AckedInOrder`, `EverySgiShown` | pass |
| `emulator_attentive` | attentive guests: `NothingMissed`, `EverySgiAcked` | pass |
| `hook_code` | `OwnHangIsReal`, `WfeEndsSlice`, `SpinIsCaught`, `CoresProgress` | pass |
| `hook_code_hang` | `HangIsReal` on two cores | violated |
| `exceptions` | `BootRegisters`, `CallerResumes` | pass |
| `devices` | register files: `RegistersSeparate`, `WritesReadBack`, without NSAPR; UARTs: `OutputExact`, `DriverGetsThrough`; timer: `NeverEarly`, `DelayEnds` | pass |
| `registers_nsapr` | `RegistersSeparate` with NSAPR | violated |
| `memory` | start-up to exit: `MapsAreBacked`, `MapIsWhole`, `ImagesInPlace`, `EmulatorExits`; walks: `TablesAsGuestSees`, `PageIsFound`, `WalkEnds` | pass |
| `walker_fetch` | is a fetch from missing memory reported | violated |

Each passing run also checks the type invariants of its modules, `Exceptions`'
excepted, which is proved (`ExTypeCorrect`). `devices` and `memory` are of `Devices` and `Memory`, which combine modules whose
variables are disjoint: a behaviour chooses at its start which of them it
exercises (`device`, `side`) and leaves the others in an initial state. A
property of one module depends on its own variables only, so that the sum of
the state spaces decides it as well as their product would.

The violations are disagreements between the code and its own headers,
comments and messages:

* gicd.cpp:247 and 255 compare the target **list** (bits 16-23) with the
  values of the target **filter**, which gicd.h puts in bits 24-25. A word
  with GICD_SGIR_TARGET_OTHERS interrupts the sender too.
* gicc.cpp:88 and 159 index `nsapr` from GICC_APR. Elements 4..10 of an array
  of four are used; one of them is GICC_IIDR.
* hook_code's `last_pc` is one pair for all cores (main.cpp:553). Three cores'
  or slices' worth of the same address in a row quits the emulator with "Hang
  at" although nobody hangs.
* The label of a fetch in `hook_mem_invalid` is UC_ERR_FETCH_UNMAPPED, of
  another enumeration (main.cpp:650): "Missing memory is being EXEC" is never
  printed.

### Bounds, and why they are enough

* `gic`: two cores, three words (one per branch of the target test), at most
  `MaxSent` = 3 SGIs per core. A queue of three is empty, a singleton and
  longer, which is all `empty()/front()/pop()/push()` tell apart; the slot
  adds one more. Theorems extend the safety part to all values.
* `scheduler`: the code's four cores; slices of three instructions, enough
  for a core to be started and a request to quit to be made in one slice with
  instructions left; two entry points tell one smcCpuOn from another.
* `emulator`: two cores. Slices of three instructions cut a handler
  (take, acknowledge, end) anywhere. `emulator_attentive` needs slices in
  which a handler of three SGIs fits: nine.
* `hook_code`: a spin lock (SEVL; WFE; load; branch), a `b .` and, behind the
  lock, two WFEs in a row; slices of three instructions end at every place of
  it; three cores are one more than the length of the history. `hook_code_hang`
  has no `b .`, so that nothing can hang.
* `devices`, register files: the first two and last bytes of every array and the
  byte after it, every device, two cores, two writes (every pair of registers),
  values one of which is cut by the width.
* `exceptions`: two cores, one set of arguments per case of the switch; each
  core as target of the other and of itself, with two entry points.
* `memory`, start-up: two cores, so that a core fails to open below or above
  another; images that end before the next begins, or are as long as is read.
  Addresses are the real ones, in units of 0x400.
* `memory`, walks: tables of two entries, three levels, two tables that point
  at each other, at themselves, at a block, past the end of the bank; three
  pairs of roots on two cores, at both ends of the bank and below it. Four
  addresses: 0, the start of a page, the last page and the one before. The rest
  of the bank holds zeros (`Dram`).
* `devices`, UARTs: two UARTs at the start of whose ranges the thresholds lie,
  words that are text, a newline, a NUL, too large in the byte or above it; four
  words, so that a line has text, a NUL and a newline.
* `devices`, timer: seconds of three and a counter of five, which meet at every
  distance. A guest's delay and `Gap` are within the counter's range
  (`TimerAssumption`); longer ones cannot be told from short ones by any guest.
  The clock is set forward by two or back by one, at any time and as often as the
  host likes. `NeverEarly` excepts a delay during which it was set; `DelayEnds`
  holds whether it was or not, and excepts only that it is set for ever.

### Fairness

The host thread keeps running: `WF(Next)` of the whole scheduler, the emulator
or the hook, nothing more; in particular nothing is assumed of any single
core or guest. `GicSpec` has weak fairness on `HandleInterrupts` of every
core because that module has no scheduler; `Emulator` discharges it
(`EverySgiShown`) for cores that can be run.
`Uart` and `Timer` have no scheduler either: weak fairness on the steps of every
core's driver or delay loop stands for `RunnableRuns`, and time passes
(`Tick`). `Walker`'s is on the steps of a walk, `Lifetime`'s on the whole. Deadlock checking is off where the
emulator really ends (quit, or hung in smcGetConfig) or where a bound stops
the guests.

## 4. Proofs

All theorems hold for every number of cores and every value of the other
constants, except where the theorem itself says otherwise. Assumptions are
the modules' named ones (numbers are numbers, model values differ, programs do
not leave their addresses, guests name existing cores, a delay fits the
counter, tables hold addresses); TLC evaluates them in the runs.

`GicProofs`: `GicInv` is `GicTypeOK /\ QueueIsUnsentTail /\ ActiveIsHanded /\
IrqBudget`.
* `QueueExact` is inductive with the types. 
* `IarExact` needs `ActiveIsHanded`, which speaks of the two variables instead
  of the word and also fixes the sender when nothing is active: otherwise the
  word `0x3FF | 0 << 10` could not be told from an interrupt.
* `IrqBounded` needs `IrqBudget`: IRQs raised so far plus those still to come
  (two for each queued SGI, one for the active one) are at most twice the SGIs
  sent. Every action pays from this budget.
* `ImplementsMailbox`: `GicInit` implies `Mailbox!MailboxInit`, and under
  `GicInv` every `GicNext` step is a `Mailbox` step or a stutter.

`SchedulerProofs`: `SchedInv` is `SchedTypeOK /\ MappingExclusive /\
StartsWhereTold /\ TurnsByPosition` and that a running core is an online one.
`FairTurns` alone is not inductive: whether d may have a turn that c has not
answered depends on where the pass is. `TurnsByPosition` says it: within a
pass, only cores before c can have overtaken it. `QuitIsHonoured` is an action
property from the same invariant. Two theorems are the safety half of a liveness
property, with a measure that is bounded and that every step lowers until the
goal, so that only an emulator that takes no step at all can miss it:
* `QuitIsPrompt`, of `QuitStops`: `StepsToStop` is what is left of the slice.
* `TurnsComeSoon`, of `RunnableRuns`: `StepsToTurn(c)` is what is left of the
  slice and a slice of each core until c's turn, at most one of every core.
  It falls whatever the guests do, and however cores come online meanwhile.

`EmulatorProofs` first shows that every `EmuNext` step is a step or a stutter of
`Scheduler` (`SchedulerStep`) and, given `SchedInv`, of `Gic`
(`ControllerStep`). So `EmuSpec` implies `SchedSafety` and `GicSafety`, and
every theorem above holds of the composition, the mailbox refinement included
(`EmulatorInherits`).
* `AcknowledgedInOrder`: `AckedInOrder` is not inductive, because it does not
  say how far the guest has read. `AckedBehind` says that it is never ahead of
  what left the queue; `RunningFindsFresh` that a running core which is about
  to read GICC_IAR has not acknowledged what is there. The second fails between
  slices (a handler cut between acknowledgement and end), and the push at the
  top of the next slice restores it: this is why the order holds at all.
* `AttentiveMissNothing`: `AllTended` says, by core and by the place in its
  handler, exactly how much of what was handed out has been acknowledged: all
  of it, or all but the active interrupt.

`HookProofs`: `WfeStops` needs `StopIsDue` (who executed a WFE without an
event has the flag set, or its slice is over). `OwnHangCorrect` is for any number of cores and
programs with no WFE right behind a WFE (`NoDoubleWfe`): a report for which one
core's hooks alone are to blame names an address that can follow itself. When
`last_pc` holds an address twice and both entries are this core's, the address
has led to itself (`HistoryIsHonest`). A stop breaks this argument, as the hook
runs twice at the instruction it stops at; that costs one place in the history
and not two as long as no WFE stands right behind a WFE. `OneCoreHangIsReal`
follows: with one core all hooks are its own, and the detector has no false
alarm. The run `hook_code_hang` shows that with two cores it has. The histories
`last_core` and `alone` exist for these properties.

`ExceptionsProofs`: `BootRegisters` needs the types and `NamesCore`: a core that
may trap with smcCpuOn in X0 has a core in X1, because a call that comes back
leaves something in X0 that is no identifier of a call, and the guest puts the
rest there.

`LifetimeProofs`: every `LifeNext` step is a step or a stutter of `Scheduler`
(`LifeSchedStep`), so that its theorems hold from start-up to exit. `LifeInv`
relates the place in `main` to what is allocated (`BlocksAreThere`), open
(`EnginesAreLate`) and noticed (`OpenOrUnnoticed`). `MappedIsAllocated` follows:
engines are open only while all blocks are there, or, after a crash, were.
`OnlyFailuresCrash` says that the emulator uses a null engine or file only
if a call failed before whose result nobody looked at. `SetUp` adds what the
start-up has done by each stage:
* `SlicesHaveAllMemory` needs that an engine that is open has had all regions
  of `InitRegions` granted (`FixedWhileOpen`, `NoneRefused`) and that a core that
  runs has an open engine (`OnlineIsOpen`). `BankStarts` computes where the int
  overflow puts the banks for every `DRAM_SIZE`; `DramIsApart`, that the three
  the slice maps overlap nothing.
* `GuestFindsTheImages` needs the order in which they were loaded
  (`LoadedInTurn`); `FirstBankLocated` and `FirstBankSeen` then say that
  `paddr_to_alloc` and the guest's map meet at every address of the first bank
  but its first byte.
* `ExitIsPrompt` is the safety half of `EmulatorExits`: `StepsToExit` adds to
  `StepsToStop` the report, the closing of every engine and the unmapping, and
  each step lowers it; a process that ends has closed and unmapped all
  (`ExitIsClean`).

`MemoryProofs`: `Nested` says that the calls of `uc_mmu_level_iterate` have passed
its test and are each one level below the last: hence three at most
(`WalkTypeCorrect`) and, with `FirstBankAgrees`, `WalkerReadsTheGuests`.
`PagesAreFound` says that the walk finds the page. Its invariant, `Pending`, is
about the part of the walk that is still to come: the page's line is printed,
or the root is among those to be walked, or some call in progress is `OnPath`,
that is, made for a table of the translation with the address the translation
has there, and not yet past the entry it is made for. `PathRead` shows that
such a call reads the guest's entry, `AddressIs` splits the address into a digit
for each level and an offset, by `Digit`, for any sizes, and `PathVaddr` shows
from it that the address the code computes, with its bases in the upper half
added in again, is the next level's, and the page's in the end. Calls made for
other entries do not matter: they only come on top of this one
(`CallAmong`, `HeadOrTail`). The tables may hold anything else, cycles included.
`WalksAreBounded` is what `WalkEnds` says without fairness: `StepsLeft` adds up
what the calls in progress and the roots still to come may cost, each entry
with the table it may lead to, and every step of a walk has it fall. A walk
begins with `MostSteps` at most, about E^3 for each root.
`MemoryIsCorrect` and `MemTypeCorrect` carry all this over to `Memory`.

`DeviceProofs`, register files: `RegistersAreSeparate` and `WritesAreReadBack`
rest on `ApartPlaces`, that the handlers' index computations lead from
different words to different places, for all offsets and all cores, and on
`StoredIsRead`, that reads go where writes went. They have the hypothesis
`IidrIsApart`: the guest does not use both GICC_IIDR and the word of NSAPR that
is stored over it. `IidrIsNsapr` shows that it cannot be left out, and the run
`registers_nsapr` what happens then.

`DeviceProofs`, UARTs: `AllDelimited` describes the printed lines by the newlines
of what was sent: their number, for each newline its line, and that the buffer
is what follows the last. It is `OutputExact`, brought into a form that grows
with the text: `Grown`, `StartKept` and `LineKept` say that one word more moves
no line that is complete. With the types it is inductive.

`DeviceProofs`, timer: `CounterTicks` shows from the division by seconds and by
the counter's size, of any length, that the counter counts one with each microsecond
and wraps at its own end only, also at the end of the cycle the clock is taken
modulo. `Measured` is inductive: what a poll computes is the time that
passed, as long as that fits the counter. `DelaysAreFull` follows.
`DevicesAreCorrect` and `DevTypeCorrect` carry the three over to `Devices`.

Only model-checked: everything under fairness (`GoesQuiet`, `RunnableRuns`,
`QuitStops`, `EverySgiShown`, `EverySgiAcked`, `SpinIsCaught`, `CoresProgress`,
`DriverGetsThrough`, `DelayEnds`, `EmulatorExits`, `WalkEnds`, the liveness of
`MailboxKept`), which TLAPS does not treat, though of four of them
(`QuitStops`, `RunnableRuns`, `EmulatorExits`, `WalkEnds`) the bound on the steps
until the goal is proved; and that the violated properties are
violated, which only runs can show. Every invariant and every action property of
the passing runs is proved.

## 5. Not modelled

* unicorn: what the code relies on appears as actions marked external.
* Tracing and dumps only print, or are never called. `load_processes` is never
  called, `uc_reg_init` sets one bit that no modelled code reads.
* GICD_SGIR while a core is not running is impossible: only a guest writes it.
* The program's README names the kernel file `0_saltedkernel_90000000.bin`;
  the code opens `0_saltedkernel_80060000.bin`. No model has file names.

Known behaviour, not made a finding: a handler cut
by the end of its slice loses the interrupt it had not yet read; GICC_EOIR
shows the next SGI without an IRQ; a core above an offline one is not run;
`paddr_to_alloc` and the guest's map differ in the banks above the first, and
the walker's bound lets two tables through that are not within it
(`TablesAsGuestSees` names them); the last page of the address space is left out
of a walk's report; setting the host's clock changes delays; a WFE
right behind a WFE is never executed, since the hook that stops the core there
sets the flag again (main.cpp:559-572; `CoresProgress` excepts it, and the
theorems about the hang detector exclude it); IRAM and TZRAM are mapped in all
engines at once, although main.cpp:729 says that cores cannot share mappings;
the UARTs' divisor latch bit is not looked at, so that a divisor written at
offset 0 is collected as text. Most are in the hazards list.

## 6. Plan

1. Done: all modules of section 2, the theorems of section 4.
2. Left: for the other liveness properties a bound on the steps until the goal,
   as `QuitIsPrompt`, `TurnsComeSoon`, `ExitIsPrompt` and `WalksAreBounded` give
   it, first for `GoesQuiet` and for the delays of `Timer`.
