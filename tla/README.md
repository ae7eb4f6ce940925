# A verification model of the SiCortex SC1 simulator

The repository is a SIMH simulator of one SiCortex SC1 node: six MIPS64 5KF
cores with their TLBs, coherent memory, a cache controller that routes
interrupts, and the devices of the node.  This directory holds TLA+ models of
its parts, the TLC runs that check them on small instances, and theorems about
them that TLAPS proves for every instance.

Everything in the simulator runs in one thread.  What makes it hard is not
preemption but order: six cores take turns instruction by instruction over
shared memory and devices, device events fall between any two instructions, and
much of the state is a *cached answer* (a mini-TLB entry, a lock flag, a pending
interrupt flag, a delay slot under way, a scheduled event) that some other step
must remember to withdraw.  The other half of the code is arithmetic and tables:
instructions on 64-bit registers that pose as 32-bit ones, floating point in
integers, and an assembler's table that must agree with the decoder.

## 1. Inventory

| Component | Source | State | Operations |
|---|---|---|---|
| Main loop | `sc1_mem.c` `sim_instr` | `sim_interval`, the cores' order | due events, then one `cpu_one_inst` per enabled core |
| MMU | `sc1_mmu.c` | TLB sorted by tag, one-entry instruction and data mini-TLBs, Index, Random, Wired, EntryLo/Hi, PageMask | `xlate_va`, `tlb_search`, TLBP, TLBR, TLBWI, TLBWR, MTC0, reset |
| Memory and locks | `sc1_mem.c` | `M`, `global_lock`, `lock_addr` | reads and writes in four sizes, `lock_set`, `lock_test`, `lock_write`, `lock_clear` |
| Cache controller | `sc1_cac.c` | per core: cause registers, slow select and status, ECC mode; shared: `cac_slow_int`, COH registers | register reads and writes, inter-core interrupts, ECC events |
| Interrupt state of a core | `sc1_io.c`, `sc1_mmu.c`, `sc1_cpu.c` | Cause, Status, Count, Compare, performance registers, `EVT_INT`, `EVT_WAIT`, `EVT_CCHE` | `eval_intr`, MTC0, ERET, WAIT, the head of `cpu_one_inst` |
| CPU control | `sc1_cpu.c` | PC, `delay`, `taken`, `delay_PC`, `EVT_NLFY`, traps, EPC, ErrorEPC, Cause, Status | fetch, branches, delay slots, exceptions |
| Integer instructions | `sc1_cpu.c` | 32 registers, HI, LO | the register and immediate instructions, multiply, divide, conditional traps |
| Loads and stores | `sc1_cpu.c`, `sc1_mmu.c`, `sc1_mem.c`, `sc1_io.c` | registers, memory, ROM, BadVAddr | aligned and unaligned accesses, LL/SC, dispatch to devices |
| Floating point | `sc1_fpi.c` | registers, FPCR | arithmetic, comparison, conversion, rounding, control registers |
| UART | `sc1_uart.c` | two FIFOs, transmit buffer, line and interrupt status, timeout | register accesses, receive, transmit and FIFO services |
| I2C, SPD EEPROMs | `sc1_i2c.c` | command, state, slave select, status, pointers, contents | register accesses, `i2c_svc`, reset |
| Disk | `sc1_disk.c` | register file, buffer, files | `disk_docmd`, register accesses, attach, detach |
| Boot ROM, NVR | `sc1_io.c`, `sc1_nvr.c` | arrays | accesses in four sizes |
| Console | `sc1_sys.c`, `sc1_cpu.c` | the table of instructions, the trace, the history ring | EXAMINE and DEPOSIT in all formats, assembly, disassembly, trace, SHOW and SET HISTORY |
| Loader | `sc1_sys.c` | none | file formats |

How they interact: a core's load or store goes through `xlate_va`, then to `M`
or, through `ReadIO`/`WriteIO`, to a device.  Every store calls `lock_write`
first.  Devices schedule events (`sim_activate`) that the main loop serves
between rounds; their services raise slow interrupts with `cac_set_slow`, and
`eval_intr` turns interrupt sources, masks and Status into `EVT_INT`, which the
head of `cpu_one_inst` tests.  A disk command moves data between a file and `M`
within the store that starts it.  The console looks at memory and at the history
that every executed instruction enters.

What makes each of them correct:

- **MMU**: the table stays sorted under whatever sequence of writes, no address
  has two translations, the binary search finds what a linear one would, and
  the mini-TLBs never answer for something the TLB no longer says.
- **Locks**: an SC succeeds only if nothing wrote the linked word in between,
  whatever other cores and exception handlers did; retry loops terminate.
- **Interrupts**: `EVT_INT` always agrees with the sources; nothing that asks is
  forgotten, and a sleeping core wakes.
- **CPU control**: a trap or an interrupt at a branch, in its slot or at an
  annulled slot resumes where it should, and the program never notices.
- **Integer instructions**: in 64-bit registers, those of a 32-bit machine as
  well as those of a 64-bit one.
- **Floating point**: the exact result rounded once, the exceptions it raises in
  order, and nothing stored after a trap.
- **Loads and stores**: exactly the bytes of the access move, or none and a trap.
- **Disk**: a transfer is what the registers said when it began, and the status
  says what happened; programs that share it under a lock do not mix.
- **UART**: no character is lost without word of it, none is duplicated or
  reordered, and none is left without an event that moves it.
- **I2C**: one transfer at a time, to the unit selected, inside the array, never
  over protected bytes; a program that follows the protocol has a byte memory.
- **Console**: what it names is what the CPU executes, what it shows enters
  again as it was, and the history is what was executed.

`PROJECT.json` lists under "hazards" the lines where each of these can go wrong;
section 5 has the further ones that no property covers.

## 2. The modules

| Part | Modules | Model checking | Proofs |
|---|---|---|---|
| TLB format, one search | `TlbEntry`, `TlbSearch` | `MCTlbSearch` | `TlbEntryProofs`, `TlbSearchProofs` |
| MMU | `Mmu` | `MCMmu` | `MmuProofs` |
| Locks and the round of cores | `LlSc`, `LlScCounter`, `AtomicCounter` | `MCLlScCounter` | `LlScProofs` |
| Interrupts | `Interrupts`, `Kernel` | `MCInterrupts` | `InterruptsProofs` |
| CPU control | `CpuInstr`, `CpuControl`, `ProgramPath` | `MCCpuControl` | `CpuControlProofs` |
| Integer instructions | `IntUnit`, `IntMachine` | `MCInstructions` | |
| Floating point | `FpUnit`, `FpMachine` | `MCInstructions` | |
| Console | `InstrTable`, `Symbolic`, `Console` | `MCInstructions` | |
| Loads, stores, ROM, disk | `Disk`, `Storage`, `ByteStore`, `DiskDriver`, `BlockDevice` | `MCStorage` | |
| I2C | `I2c`, `I2cDriver`, `Eeprom` | `MCI2c` | `I2cProofs` |
| UART | `Uart`, `UartDriver`, `SerialLine` | `MCUart` | `UartProofs` |

Eight modules are abstract specifications, and each is implemented by the
detailed one beside it (INSTANCE with a refinement mapping):

- `AtomicCounter`: a counter whose increments are single steps.
- `Eeprom`: a memory of bytes with reads and page writes that take effect at once.
- `SerialLine`: two streams of characters, delivered in order and in the end,
  with word of every loss.
- `ProgramPath`: a program that executes a transfer of control together with its
  delay slot, and never sees an exception.
- `IntMachine`: registers that hold signed integers of the machine's width, and
  operations defined by the integers they compute.
- `FpMachine`: exact ratios, rounded once, and exceptions raised in stages.
- `ByteStore`: an address space of bytes, in which an access moves its bytes or
  none.
- `BlockDevice`: a disk that serves one request at a time.

`LlScCounter`, `I2cDriver`, `UartDriver` and `DiskDriver` each add to a component
the program that uses it.  Those programs and `Kernel` are not part of the
repository; they are the smallest software that does what the component is there
for.

### 2.1 TlbEntry, TlbSearch, Mmu

A 64-bit word is the set of its one bits.  `a & ~m` is then `a \ m`, and the
comparison of masked tags, on which everything here turns, is an equation of
sets; `Less` is the unsigned order.  Only bits the code treats differently are
represented.

`TlbSearch` takes `tlb_search` apart into its probes (`lo`, `hi`, the first loop
with the ASID, the second for global pages) over any table that `tlb_write_i`
can leave behind.  `Mmu` uses the result as an operator, `Lookup` of `TlbEntry`:
the same halvings, TLB_LNT times over, which `LoopIsLookup` compares with the
loops.  `Mmu` models every operation on the table: `Tlbwi` and `Tlbwr` with the
duplicate check, the machine check, the sort and the flush of the mini-TLBs;
`Tlbp`, `Tlbr` (whose change of EntryHi is recorded in `asidMoved`); the writes
of the registers, with the flush on a new ASID; `XlateMini`, `XlateTlb` and
`XlateFault` for the three ways through `xlate_va`; `Reset`, with and without
power up.

### 2.2 LlSc, LlScCounter

One step is one instruction of the core whose turn it is.  `lock` and `lockAddr`
are `global_lock` and `lock_addr`; `link` and `intact` are history variables that
say what the answer of SC should be: which access was linked last, and whether
any write has touched its 32-bit words since.  `LlScCounter` runs the loop
LL, ADDIU, SC, BEQZ, NOP on some cores, with exceptions between any two
instructions whose handlers may link a word of their own, and lets the other
cores, the guests, do anything at all except touch the handlers' word: a core
that kept storing to it could keep a handler's own loop from ever ending.  An
exception does not clear the lock, ERET does.

### 2.3 Interrupts, Kernel

A cycle of a core is a `Tick` (Count, Compare), then the pending events in the
order of `cpu_one_inst` (cache error, interrupt, sleep), then an instruction.
`Eval` is `eval_intr` of one core or of all: it is part of exactly those actions
whose code calls it, so that a missing call is a missing conjunct.  `EndCycle`
goes on to the next core, and `Between` is the main loop's `sim_process_event`
with the evaluation that follows it.  `Kernel` is a kernel that sends
inter-core interrupts, sleeps in WAIT, masks interrupts for an instruction, has
cache errors, and whose handler serves in one pass whatever asks.

### 2.4 CpuInstr, CpuControl, ProgramPath

`CpuInstr` has the instructions that decide where a program goes: jumps,
branches, likely branches, linking ones, floating point branches, SYSCALL, ERET,
WAIT, and some that stand for the rest (a load that faults, a conditional trap).
`CpuControl` is `cpu_one_inst` with the data left out: `delay`, `taken`,
`delay_PC`, the annulled slot, the head's events in their order, the trap code
with EPC, BD and the vector, cache errors with ErrorEPC, and ERET.  The program
runs at base level; above it run handlers, of which only what they do to the
control registers matters.  `ProgramPath` is the same program without any of it.
The refinement maps a branch whose slot is still to come to the branch itself:
an exception between the two sends the program back to the branch, which it then
executes again.  For a branch that links in that moment the link is already
written, which is the abstract step `LinkEarly`.

A JR that jumps to itself with a SYSCALL in its slot would be a path step that
changes nothing, which no refinement can tell from standing still; the programs
of `MCCpuControl` have none.

### 2.5 IntUnit, IntMachine

`IntUnit` keeps the code's way of computing: registers of 2W bits, operands
masked or extended where the code does it, overflow by `ADD_OV` and `SUB_OV`,
the 128-bit product of `uemul64` by four partial products, division with the
code's cases for zero and for the most negative number.  `IntMachine` knows
only integers.  In 32-bit mode its registers are W bits wide: the refinement
mapping reads every register as its low half, and `Extended` says that nothing
is lost by it.

### 2.6 FpUnit, FpMachine

`FpUnit` is `sc1_fpi.c` over formats of any size, as it is built (without paired
singles): unpack, compute on a sign, an exponent and a fraction with guard
bits, round, test, pack, each step threading the control register through and
stopping at an enabled exception (`After`).  The estimate and Newton step of the
square root are replaced by what they converge to (`Root`).  `FpMachine`
computes with exact ratios.  Where the code departs from it, `Handled` in
`MCInstructions` leaves the instruction out; section 5 lists these.

### 2.7 InstrTable, Symbolic, Console

`InstrTable` has all rows of the table `opc` with the masks and fields of
`sc1_sys.h`, and the CPU's decoding of a word (`Decoded`) from the enumerations
of `sc1_defs.h`.  A word is the set of its one bits.  `Symbolic` shows a
doubleword in each of the console's formats and parses the text again; a text
is a name and field values, not characters.  `Console` is the operator: EXAMINE,
then DEPOSIT of what was shown; SET HISTORY, SHOW HISTORY=n and the ring they
work on; the trace and the two magic instructions that switch it.

### 2.8 Disk, Storage, ByteStore, DiskDriver, BlockDevice

A doubleword is a number of eight bytes of `ByteBits` bits, and parts of it are
taken and replaced by shifts and masks as the code does.  One step of `Storage`
is one load or store of one core, of an integer or a floating-point register
(or a move between them), with the write test, the translation, the locks,
memory, the device search and the device.  `Disk` is the controller:
`DoCmd` runs the command bits in order, each from where the last left the file,
with the checks of the ranges in wrapping arithmetic.  `ByteStore` is what a
program thinks of the same step: bytes in lanes, where the odd floating-point
registers are registers of their own or the upper halves of the even ones.
`DiskDriver` has two cores that share the controller under a lock taken with LL
and SC; `BlockDevice` is what they rely on.

### 2.9 I2c, I2cDriver

One step is a register write, an event of `i2c_svc` (one action for each state
and outcome), or a command of the operator.  A command is the set of its bits.
The write of the command register is split along its early returns: refused for
its form, its select or a transfer in progress, and accepted as transfer, STOP
or nothing; a refused START has already changed the state, as in the code.

### 2.10 Uart, UartDriver

The FIFOs are arrays with pointers and counts.  A character is what is left of it
after width and parity; errors travel with it.  `EvalTorq` and `EvalIntr` are
`uart_eval_torq` and `uart_eval_intr`.  The transmitter's two events are flags,
and an event may be served any time it is scheduled, so any relation of the
delays is covered.  `UartDriver` adds a driver that enables the interrupts,
reads the line status, takes and sends characters, and turns the transmit
interrupt off when it has nothing to send.

## 3. The runs

Twelve runs: nine that pass and three that show a disagreement.  Each cfg names
the bounds; this is why they are enough.

| Run | Bounds | What it shows |
|---|---|---|
| `tlb_search` | 4 entries, all sound tables over 4 page pairs, 2 ASIDs, 2 page sizes | The loops end (`Returns`) and answer what a linear search does (`Correct`, `LoopIsLookup`).  Four slots make both loops halve twice and reach first and last slot. |
| `mmu` | 2 entries; three programs: two address spaces over one page, two page sizes, wired entries | The table invariants, mini-TLBs backed by the TLB, translation equal to a definition without mini-TLBs and search, dirty bits respected, wired entries kept.  Two entries are enough for a pair to collide, and for a mini-TLB to outlive its entry. |
| `mmu_search` | 3 entries, 2 page sizes, 2 address spaces | violation, see Findings |
| `llsc` | 4 cores, one disabled: two run the loop with 2 increments and 1 exception each, one does anything with five accesses of three sizes and a disk read | A lock is held exactly as long as its link is intact, for words used in one size; no lock is lost without a reason; the loops implement the atomic counter, and end.  Two loops and a third writer: of two links only one must break. |
| `interrupts` | 2 cores, 1 cause register, Count modulo 4, 2 shared and 1 own slow source; three programs that do anything with one kind of source, and the kernel | No stray interrupt, none overlooked but a slow one, every request served, every sleeper woken.  A core's registers only meet another core's in an inter-core interrupt and in the slow sources both share. |
| `perf_regs` | the same | violation, see Findings |
| `cpu` | 19 programs of a transfer, its slot, a SYSCALL and a loop; handlers of two instructions; interrupts, cache errors and faults anywhere | `DelayConsistent`, `SyscallFresh`, the path of the program, and that it goes on.  A delay is never longer than one slot, and at most three levels can nest: base, EXL, ERL. |
| `instructions` | words of 4 bits and doublewords of 8, all words and 13 sample doublewords; singles of 6 bits (all) and doubles of 12; every row of the table with 7 fillings and some 5000 encodings; a history of 3 over 5 instructions | The integer and floating point units implement their machines; the console's table agrees with the decoder, EXAMINE and DEPOSIT are inverse, and the columns of trace and history are true: registers, targets, displacements, immediates and, in the history, addresses with their base.  The history wraps.  A single of 3 exponent and 2 fraction bits has every kind of number, and a double more than twice its fraction, so that double rounding would show. |
| `history` | the history of `instructions` | violation, see Findings |
| `storage` | bytes of 3 bits; 3 doublewords of memory, 1 of ROM, the controller's registers; every load and store at every byte of ten pages, those of coprocessor 1 and its moves with it off, with 64-bit registers and with pairs; every command with 7 addresses and 7 counts; 2 cores sharing the disk with 2 requests each | The byte store, exact transfers, the block device.  Three doublewords meet every alignment and every boundary; both ends of disk and memory, what lies past them, and addresses and counts near the wrap are among the seven. |
| `i2c` | 2 units of 4 bytes, pages of 2, 3 protected; any use, with every way through the command register, or the program | Any use: one transfer at a time, to the selected unit, inside the array, protected bytes kept.  A program that waits for TIP is never refused and has the `Eeprom`.  Reads of up to 3 bytes wrap at the end, writes meet the page and protection limits. |
| `uart` | FIFOs of 2, alarms 1 and 2, timeout 2; any use of the receiver, any of the transmitter, and a driver with 3 characters in all | Pointers, counts, events and requests agree; the driver has a `SerialLine`.  With FIFOs of 2, three characters fill one and overflow it, and characters stay below the alarm, so that only the timeout delivers them. |

Two runs use a VIEW.  In `mmu` it drops `traps`, which no action reads, and in
the part of `i2c` that is any use the contents of the EEPROMs and the receive
register, which decide nothing of what happens next; invariants do not read
what the VIEW drops.  The program of `i2c` is explored with its whole state.
`ProtectedKept`, which compares the contents before and after a step, sees each
step of any use from one of the contents it can have, and is proved for all.
`mmu`, `interrupts`, `i2c`, `uart`, `storage` and `instructions` choose among several
programs at the start, so that each kind of input is explored fully without the
product of them all.  `storage` does not check for deadlock: an instruction, a
command or the programs' requests are all there is to do.

Fairness.  `sim_instr` goes round the enabled cores until it is stopped, hence
WF of the next instruction in `llsc`, of `Loop` in `interrupts`, and of the
core's step in `cpu`; the devices owe nothing there.  In `cpu` events may come
before any instruction, and a machine in which they always do goes nowhere:
`Progress` rests on SF of the program's instructions and of a handler's, that is,
on events and faults letting one through in the end, and on a timer that
interrupts again and again.  `tlb_search` is one call that runs to its end.  SIMH serves every
scheduled event, hence WF of `Serve` in the program of `i2c` and of `FifoSvc` and
`PollNothing` (the receiver polls for ever) in `uart`; there `PutOut` is fair as
well, which says that the console is not busy for ever.  The drivers' programs
go on when they can.

Each property has a mutant, a plausible bug in one definition that the same run
must report: they are the definitions marked "Mutant of" in the modules.

## 4. What is proved

49 theorems, in eight modules; the constants are arbitrary up to the assumptions
stated in the modules, so these hold for the TLB's 48 entries, six cores,
12 cause registers, 16-character FIFOs, 256-byte EEPROMs and programs of any
length.

- `TlbSearchProofs` (`SearchTyped`, `SearchCorrect`, `LoopLookup`,
  `SearchAdvances`): invariant `Remaining`, that a matching slot is never outside
  the bounds.  The step is that comparing with the mask of the *probed* entry puts
  a matching slot on the side the search takes: entries that do not overlap differ
  in a bit neither masks (`Apart`, from the order lemmas of `TlbEntryProofs`).
  `LoopLookup` is that the operator the MMU translates by gives what the loops
  give.  `Lookup` narrows the bounds a fixed number of times, the loops until they
  meet; the bounds have met after TLB_LNT probes at the latest and nothing
  changes after that.  `SearchAdvances` gives the variant (`ProbesLeft`): each
  probe leaves fewer slots, of which there are at most 2 * TLB_LNT.
- `MmuProofs` (`TypeCorrect`, `TableSound`, `MatchUnique`, `MiniTlbsSound`,
  `DirtyNeeded`, `RandomSound`, `WiredEntriesKept`, `TranslationCorrect`,
  `SearchFindsUniform`): the table's three properties are inductive, because a
  write is sorted again and refused when it overlaps; uniqueness follows, since
  entries that serve one address in one space overlap.  A mini-TLB is filled from
  an entry and flushed with every write, so a store that it lets through has a
  dirty entry too.  Random stays between Wired and the last entry, and a write
  moves the other entries about but keeps them (`EveryIndex`, `WriteKeeps`), so
  TLBWR never takes a wired one.  `TranslationCorrect` puts all of it together:
  a hit of a mini-TLB answers what its entry answers for the *current* ASID
  (`MiniTlbsCurrent`, which holds until TLBR moves the ASID), a miss goes to the
  search, and the search finds the entry where the page sizes do not overlap.
- `LlScProofs` (`LockTyped`, `LockSound`, `NoLossSound`, `ReadSound`,
  `CounterImplements`, `LossIsIncrement`): `LockInv` adds to the properties that a
  held lock names the last link.  For the loops, `LoopInv` adds where a core can be
  when the lock it holds is the counter's; with it every successful SC is an
  increment and every other step a stutter.  `LossIsIncrement` is why the loops get
  on: outside its handlers a loop loses its lock only in a step that increments the
  counter, so an SC fails after an exception or after somebody's success.
- `InterruptsProofs` (`InterruptsTyped`, `NoStraySound`, `OnlySlowSound`,
  `KernelNeverLate`, `KernelNeverOversleeps`, `RequestsKept`, `PassesComplete`): for
  each core, Cause is up to date
  in all but the slow bit (`Fresh`), `EVT_INT` is set only for something
  deliverable (`Known`), and always set for what Cause shows (`Noticed`).
  NumPerf is assumed 2 or 4 (NUM_PERF in its two builds), NumIcr at most 12.
  The theorems about `Kernel` add that Cause is up to date in the slow bit too
  outside the boot (`SlowSeen`): the mask changes only there, and the only ways out
  of it are `mtc0` to SR, which evaluates, and an interrupt, which ERL keeps from
  coming.  A sleeper has interrupts on (`SleepsEnabled`).  So nothing the kernel enabled
  is ever late, and no core sleeps over it.  What becomes of a request then is two
  action properties over `PollInv` (a pass is under way only inside a handler): it
  goes on asking until the pass of its own core comes to it (`Kept`), and a pass
  goes up, passes over nothing that asks, silences what it comes to, and ends with
  the return (`InOrder`).  SLOW_GLOBAL and SLOW_LOCAL are assumed disjoint, as
  `sc1_cac.h:121` defines them.  The UART withdraws its own requests, and the other
  global sources are never served by this kernel, so `Kept` leaves both out.
- `CpuControlProofs` (`TypeCorrect`, `DelayCorrect`, `SyscallCorrect`,
  `ErrPcCorrect`, `ControlImplementsPath`): the invariant `IInv` says at which
  level each place can be executed, that no delay, target or annulment is
  pending in a handler, that EPC and ErrorEPC with BD name a place to resume at,
  and that a cache error cannot come while its handler runs.  Every step of the
  core is then a step of `ProgramPath` or a stutter.  Programs
  are assumed to stay in their text and handlers in theirs until their ERET, with
  no transfers in a handler but that (`ProgramAssumption`); only the general and
  other EXL handlers may arm ErrCtl.ECCE again, which is what `ErrPcCorrect` rests on.
- `I2cProofs` (`I2cTyped`, `TransferAlone`, `TransferDirected`, `StoreBounded`,
  `ProtectionHolds`): the invariant adds that the pointer is inside at the first
  byte of a write; it may be one past the end later.  Size is assumed a multiple
  of the page size.  The others are about the program of `I2cDriver`.
  `DriverAccepted`: the commands of a script follow one another (`Follows`) the
  way `i2c_state` goes with the transfers under way (`Settled`, `Admits`).
  `EepromImplemented` is the safety of `ImplementsEeprom`: how much of the script
  is left says what the controller's mode and the unit's pointer are, and how many
  bytes have moved (`DataInv`), so the last byte of a write completes the page of
  the abstract write, every earlier one is a stutter, and the bytes read are
  those stored.  `OperationAdvances`: while TIP is set the unit's event is
  scheduled, and every step during an operation lessens `StepsLeft`.
  Assumed of the operations (`OperationAssumption`): a read has at least one byte,
  since after none the next START would be refused, and a write stays in its page.
- `UartProofs` (`UartTyped`, `NothingStuckSound`, `ConsistentSound`,
  `SerialLineImplemented`, `WakeupsKept`): the first three properties together are
  inductive, over lemmas on the ring buffers' arithmetic (`RingPush`, `RingPop`).
  `SerialLineImplemented` is the safety of `ImplementsSerialLine`: the slots of the
  rings from the read pointer on hold the characters of the line in order
  (`ReceivedKept`, `SentKept`, both instances of `Holds`), and a loss not yet
  reported is still in the line status (`LineInv`).  `WakeupsKept` is that the
  driver never rests while it is needed with nothing left to call it: where it is
  about to wait without having seen the last change, that change's status bit,
  the timer or the transmitter's characters are still there (`WakeInv`).

Only model-checked:

- Everything that must eventually happen (`Returns`, `AllFinish`,
  `RequestsServed`, `SleepersWake`, `Progress`, and the liveness in
  `ImplementsEeprom` and `ImplementsSerialLine`): fairness and ENABLED are beyond
  the prover.  `SearchAdvances`, `OperationAdvances`, `PassesComplete`,
  `LossIsIncrement`, `RequestsKept`, `WakeupsKept` and `KernelNeverOversleeps` prove
  the safety these rest on: that a step, if taken, brings the end nearer, and that
  what should call the program has not been lost.
- `instructions`: the arithmetic and the tables rest on recursive computations and
  on bit operations.
- `storage`: lanes and registers are cut out by powers of two with a variable
  exponent, which no backend knows, and put together with folds that take
  operators as arguments.

## 5. Findings

1. `mmu_search`: entries of two page sizes over one range, allowed in different
   address spaces, have no common order; `tlb_search` then misses an entry that
   is there (`sc1_mmu.c:591`).  `XlateAgrees` is stated for tables without such a
   pair (`UniformOverlaps`).
2. `perf_regs`: `set_cp0_perf` takes a pair number and is given a register number
   (`sc1_defs.h:885`).
3. `history`: SHOW CPUn HISTORY=m shows the last m instructions
   (`sc1_cpu.c:2907`), and `sc1_doc.txt:145` says "print first m entries of CPUn
   history".  `LinesTrue` takes the code's meaning.

Met while modelling, where the repository does not say what is meant, where the
data is not modelled, or where a property is stated so as to leave the case out.

MMU, memory, interrupts:

- TLBR replaces the ASID and keeps the mini-TLBs (`sc1_mmu.c:438`); `XlateAgrees`
  is stated until that happens (`asidMoved`).  TLBR tests the whole of Index, with
  the probe-failure bit that TLBWI masks (`sc1_mmu.c:676`).
- `lock_write` compares whole addresses, although `PA_MASK_LOCK` says 64-byte
  granularity (`sc1_defs.h:278`): a store of another size into a linked word
  leaves the link, and so does a disk read (`sc1_disk.c:161`) or a deposit in a
  device.  A store conditional that traps leaves its register as it was, and
  clears the lock (`sc1_cpu.c:951`).
- A read of the slow status omits a core's own sources (`sc1_cac.c:161`); slow
  interrupts of the coherency engines are withdrawn by nothing but a reset
  (`sc1_cac.c:422`); a `break` is missing after COH_ECCSYND, which reads 0
  (`sc1_cac.c:262`); `(data<<1) && (data>>1)` at `:378`, `:388` and `:399` is a
  logical and; `sel > NUM_PERF*2` lets one register too many through
  (`sc1_mmu.c:1039`).
- The devices of a core are called with its number in place of the access size
  (`sc1_io.c:99`): a byte load from the cache controller returns a doubleword.

CPU:

- A cache error writes Cause.ExcCode although ErrorEPC is all its handler needs, and
  so replaces the cause that an exception handler has yet to read; it is taken at
  every level, and only ErrCtl.ECCE, cleared by each, keeps two from nesting.
  `SyscallFresh` says what remains true.
- After a failed fetch the trap code looks at `op`, which is static and still holds
  the last instruction of whichever core ran before, to set Cause.CE
  (`sc1_cpu.c:2427`).
- ERET is executed in a delay slot; BLTZAL and BGEZAL write the link before they
  test register 31; an annulled slot returns before the end of `cpu_one_inst`.
- A `case` of SPECIAL starts with an `else if` whose `if` is commented out, and
  SPECIAL3 lacks `break`s; neither is in the default build.

Floating point, compared with IEEE 754 and the code's own comments (`Handled`):

- A signalling NaN whose fraction has that bit only, and a NaN narrowed to a
  fraction of zero, become infinity when made quiet (`sc1_fpi.c:455`).
- ABS and NEG of a denormal that is not flushed shift its fraction by 11 bits;
  SQRT and RSQRT of minus infinity return minus infinity and minus zero.
- A multiply-add ignores what `fp_ovftest` makes of an overflowing product, and
  tests for underflow against the exponent of a double in single precision too;
  the flush to nearest (FN) does the same.
- A trapped operation keeps the INE flag of an earlier stage.  `exp_lim` seems to
  be indexed the wrong way round, and `_MIPS_HVCT_` should be `_MIPS_HCVT_`.

Disk:

- `>=` refuses a transfer that ends at the end of the disk (`sc1_disk.c:140`).  A
  count of 0 at address 0 of memory is a seek error.
- The sums of address and count wrap (`sc1_disk.c:140`, `:154`), so that a count of
  2^63 and more acts as a negative number: a range that steps back from its
  address to the disk's beginning or after passes, and one of memory if it steps
  back into it.  The buffer commands then cut the count to the buffer, move that
  much and report STATUS_GOOD; a read of memory moves what the file still has and
  counts what was asked for.  `TransfersExact` says all this.  Where such a
  transfer would run off the simulator's own array (`OffTheArray`: nearly every
  write of memory, and a read when the file has more than fits) its effect is
  undefined, and the model has no step for it.
- `sim_fread` and `sim_fwrite` never return a negative number: a read past the end
  of the file and a write to a file attached read-only report STATUS_GOOD
  (`sc1_disk.c:165`).  The file of a disk may grow past the size recorded when it
  was attached, with a hole that reads as zero.
- A command of several bits executes each from where the last left the file, past
  the check (`sc1_disk.c:168`): a read with a write writes past the range that was
  checked.  `TransfersExact` leaves out a command for both memory and the buffer.
  Any store into the command register executes it.
  Register 0 gives the size of the unit of the last command, even once detached.

Console (`NotEntered`, `Misnamed` and `NamesDecode` name these):

- The codes of SYSCALL, BREAK, SYNC and SDBBP are shifted twice (`sc1_sys.c:1210`,
  `:1264`) and may overwrite the other word; a format of the indexed floating
  point loads and stores parses the wrong text, so they cannot be entered; PREF in
  the row of COP1X comes first, so the other PREF cannot be.
- The row of BLTZAL has the value of BLTZ, the mask of BAL lacks rt, the rows of
  three single comparisons have the values of the double ones, `M_OP2` ignores sa,
  and rows of R2 name words that this build executes as something else.
- A word without a name is shown as 8 digits and entered as 16.  A typed character
  of the upper half is negative and fills the bytes above.
- The trace shows a memory address without its base register (`sc1_sys.c:1427`),
  where the history adds it, and a jump's target in the region of the jump rather
  than of its slot.  `LinesTrue` asks for the displacement in the trace and for
  base and displacement in the history.

I2C and UART:

- START is refused while the controller is being read from (`sc1_i2c.c:184`), for
  it comes with WR: a program that selects a unit to read must end with NACK, or
  STOP, before the next START.  The program of `i2c` reads at least a byte.
- STOP during a transfer cancels its event and leaves TIP set (`sc1_i2c.c:205`);
  the program of `I2cDriver` waits.  STOP together with RD or WR is ignored.
- The I2C pointer can reach I2C_SIZE, and a read then returns the byte behind
  the array (`sc1_i2c.c:236`, `:265`); the option texts of UNIT_SWP are swapped
  (`:92`); the byte refused at a page boundary moves the pointer into the next page
  (`:252`); an IACK during a read with NACK replaces the command, and the read
  does not end (`:238`).
- A character the console refuses is sent to the socket at each try
  (`sc1_uart.c:451`).  A negative `char` from the socket is returned as a status
  that stops the simulator (`:392`).
- `uart_eval_torq` looks at the top of an empty FIFO: after a reset of the FIFO
  an error dropped with it is reported, and one reported already is reported
  with the next character (`sc1_uart.c:516`).  `SerialLine` therefore allows
  more errors than a character has, never fewer.  A FIFO reset leaves the
  receive interrupt and the timer; a second write to a full transmit buffer
  replaces the first; `uart_reset` leaves the request standing (`:529`).

## 6. What is not modelled

- MMU: the split TLB of TWC9A, unmapped segments, Context, XContext, SR.TS, cache
  attributes: nothing modelled reads them.  Values of Wired past the last entry: the
  register has six bits (`sc1_defs.h:331`), and Random then stays at the last entry.
- Memory: `lock_try` and `lock_last` (a warning), memory sizing, and the reset of
  the memory device alone, which drops all locks (`sc1_mem.c:526`).
- Interrupts: `INT_REQ` (stays 0), ECC addresses and syndromes, the counting of
  PERF_COUNTER builds.
- CPU: debug mode and breakpoints, which `sc1_doc.txt:73` says are not
  implemented, stop on trap, the instructions of R2 and SCTX builds, the loads and
  stores of coprocessor 2, CFC1.
- Floating point: paired singles (not built), the estimates within the square
  root; odd double registers of pairs are only loaded, stored and moved (`Storage`).
- Disk: short reads of a file that is cut while attached.
- NVR: commented out of the device list (`sc1_sys.c:131`), so nothing reaches it.
- I2C: prescalers, detach.  UART: modem registers, divisor, parity and width, a
  disabled receiver, the line status bit that sums up errors in the FIFO, and a
  console that fails other than by being busy, which stops the simulator.
- The other radices of the console, the loader's file formats, statistics macros
  (empty), generated headers, coprocessor 2 (stubs), `unused/` (not built), the
  SIMH framework (not here).

## 7. Plan

Done, in this order: MMU, locks, interrupts, I2C, UART, CPU control, arithmetic,
storage and disk, console.  Next:

1. Proofs: a bound for the steps of `LlScCounter` between two increments, which
   `LossIsIncrement` leaves to the round robin.
2. Composition: `Interrupts` with `Uart` instead of a nondeterministic device;
   `CpuControl` over `Mmu`, with a handler that refills the TLB; a page-table
   walker that shows what ASID reuse needs.
3. `cp0_getreg` and `cp0_putreg` as a table of writable bits; CFC1 in `FpUnit`.
4. The loader's record format, and the other radices of the console.
