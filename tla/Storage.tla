------------------------------ MODULE Storage ------------------------------
(***************************************************************************)
(* The loads and stores of the cores: the instructions of cpu_one_inst     *)
(* (sc1_cpu.c), the virtual accesses (sc1_mmu.c), memory (sc1_mem.c), the  *)
(* search for the device of a physical address and the ROM (sc1_io.c),     *)
(* and the disk controller (Disk).  One step is one instruction.           *)
(*                                                                         *)
(* Translation is module Mmu's: here a page is one doubleword and the      *)
(* translation does not change.  Register 0 is zero, register 1 any other; *)
(* of the floating registers there are an even one, 0, and its odd one.    *)
(***************************************************************************)
EXTENDS Disk

CONSTANTS
  Cores,        \* the numbers of the cores
  RomBase,      \* ROMBASE_29, and the bytes of the ROM
  RomSize,
  DiskBase,     \* DISKBASE
  Frame,        \* the frame of each page that has a valid translation
  Dirty,        \* the pages that may be written
  Wide          \* the cores whose mode has 64-bit operations (Q_64BOP)

ASSUME StorageAssumption ==
  /\ {RomBase, RomSize, DiskBase} \subseteq Nat
  /\ RomBase % 8 = 0 /\ RomSize % 8 = 0 /\ DiskBase % 8 = 0
  /\ DOMAIN Frame \subseteq Nat /\ Dirty \subseteq DOMAIN Frame
  /\ \A page \in DOMAIN Frame : Frame[page] \in Nat
  /\ Wide \subseteq Cores

VARIABLES
  rom,          \* the ROM, as doublewords
  R,            \* the two registers of each core
  F,            \* its two floating registers
  cp1,          \* and how Status has them: "off" (not usable), "flat" (FR:
                \*   each of 64 bits) or "pairs"; no instruction here sets it
  lock,         \* global_lock, as the cores whose bit is set, and lock_addr
  lockAddr,
  trap,         \* the trap of each core's last instruction,
  badVa,        \*   and the address CP0 holds of it
  ran           \* history: the last instruction, and how many there were

storage == <<M, ctl, file, capac, state, rom>>
vars == <<storage, R, F, cp1, lock, lockAddr, trap, badVa, ran>>

(* The device list: the devices here, in the order of sim_devices.         *)
Devices ==
  <<[name |-> "ROM", low |-> RomBase, high |-> RomBase + RomSize],
    [name |-> "DISK", low |-> DiskBase, high |-> DiskBase + DiskSize]>>

(* The first device whose range has the address.                           *)
DeviceAt(pa) ==
  LET hits == {i \in DOMAIN Devices : Devices[i].low <= pa /\ pa < Devices[i].high}
  IN IF hits = {} THEN "none" ELSE Devices[Min(hits)].name

(* ReadIO and ReadPB to ReadPD: whether something is there, and its value. *)
RomRd(off, size) == Part(rom[off \div 8], off, size)

Present(pa) == pa < MemSize \/ DeviceAt(pa) # "none"

ReadIo(pa, size) ==
  CASE DeviceAt(pa) = "ROM"  -> RomRd(pa - RomBase, size)
    [] DeviceAt(pa) = "DISK" -> DiskRd(pa - DiskBase, size)

ReadP(pa, size) ==
  IF pa < MemSize THEN Part(M[pa \div 8], pa, size) ELSE ReadIo(pa, size)

(* Mutant of LockWrite: a write leaves the links of other cores.           *)
LockWriteOwn(pa, dropped) ==
  /\ lock' = lock \ dropped
  /\ UNCHANGED lockAddr

(* lock_write: a write ends the links to exactly its address.  A store     *)
(* conditional then drops its own core's as well (lock_clear).             *)
LockWrite(pa, dropped) ==
  LET linked == {c \in lock : lockAddr[c] = pa}
  IN /\ lock' = lock \ (linked \cup dropped)
     /\ lockAddr' = [c \in Cores |-> IF c \in linked THEN 0 ELSE lockAddr[c]]

(* WriteIO, and WritePB to WritePD: the ROM can be written.                *)
RomWr(off, size, v) == [rom EXCEPT ![off \div 8] = Put(@, off, size, v)]

WriteIo(pa, size, v) ==
  \/ /\ DeviceAt(pa) = "ROM"
     /\ rom' = RomWr(pa - RomBase, size, v)
     /\ UNCHANGED <<M, disk>>
  \/ DeviceAt(pa) = "DISK" /\ DiskWr(pa - DiskBase, size, v) /\ UNCHANGED rom
  \/ DeviceAt(pa) = "none" /\ UNCHANGED storage

WriteP(pa, size, v) ==
  \/ /\ pa < MemSize
     /\ M' = [M EXCEPT ![pa \div 8] = Put(@, pa, size, v)]
     /\ UNCHANGED <<disk, rom>>
  \/ pa >= MemSize /\ WriteIo(pa, size, v)
-----------------------------------------------------------------------------
(* xlate_va, and the virtual accesses ReadB to ReadD and WriteB to WriteD: *)
(* the address, the translation and then the bus may fail.                 *)
Pa(va) == (8 * Frame[va \div 8]) + (va % 8)

ReadTrap(va, size) ==
  CASE va % size # 0               -> "LAER"
    [] va \div 8 \notin DOMAIN Frame -> "TLB"
    [] OTHER -> IF Present(Pa(va)) THEN "none" ELSE "DBE"

WriteTest(va) == va \div 8 \in Dirty

WriteTrap(va, size) ==
  CASE va % size # 0  -> "SAER"
    [] ~WriteTest(va) -> "TLB"
    [] OTHER -> IF Present(Pa(va)) THEN "none" ELSE "DBE"

(* tlb_set_err and tlb_set_aer note the address; a bus error does not.     *)
Raise(c, t, va) ==
  /\ trap' = [trap EXCEPT ![c] = t]
  /\ badVa' = IF t \in {"LAER", "SAER", "TLB"} THEN [badVa EXCEPT ![c] = va] ELSE badVa

SetGpr(c, rt, v) == R' = IF rt = 0 THEN R ELSE [R EXCEPT ![c][rt] = v]

NoLock == UNCHANGED <<lock, lockAddr>>

(* A store of v, when the access gets that far.                            *)
StoreTo(c, va, size, v, dropped) ==
  /\ Raise(c, WriteTrap(va, size), va)
  /\ IF WriteTrap(va, size) \in {"none", "DBE"}
     THEN LockWrite(Pa(va), dropped) /\ WriteP(Pa(va), size, v)
     ELSE lock' = lock \ dropped /\ UNCHANGED <<storage, lockAddr>>
-----------------------------------------------------------------------------
(* The instructions, by the size of what they access.                      *)
Loads == [LB |-> 1, LH |-> 2, LW |-> 4, LBU |-> 1, LHU |-> 2, LWU |-> 4, LD |-> 8]
Linked == [LL |-> 4, LLD |-> 8]
Lefts == [LWL |-> 4, LDL |-> 8]
Rights == [LWR |-> 4, LDR |-> 8]
Stores == [SB |-> 1, SH |-> 2, SW |-> 4, SD |-> 8]
Conditionals == [SC |-> 4, SCD |-> 8]
StoreLefts == [SWL |-> 4, SDL |-> 8]
StoreRights == [SWR |-> 4, SDR |-> 8]

Unsigned == {"LBU", "LHU", "LWU"}
Doubles == {"LWU", "LD", "LLD", "LDL", "LDR", "SD", "SCD", "SDL", "SDR"}

(* The loads and stores of coprocessor 1: with a displacement, indexed and *)
(* (LUXC1, SUXC1) indexed with the address rounded down; and the moves.    *)
FpLoads == [LWC1 |-> 4, LDC1 |-> 8, LWXC1 |-> 4, LDXC1 |-> 8, LUXC1 |-> 8]
FpStores == [SWC1 |-> 4, SDC1 |-> 8, SWXC1 |-> 4, SDXC1 |-> 8, SUXC1 |-> 8]
FpMoves == {"MFC1", "DMFC1", "MFHC1", "MTC1", "DMTC1", "MTHC1"}

FpDoubles ==
  {"DMFC1", "DMTC1", "LWXC1", "LDXC1", "LUXC1", "SWXC1", "SDXC1", "SUXC1"}
Fp == DOMAIN FpLoads \cup DOMAIN FpStores \cup FpMoves

(* Coprocessor 1 may be off, and that is seen before anything else.        *)
Unusable(c, i) == i.op \in Fp /\ cp1[c] = "off"

Cpun(c, i) ==
  /\ Unusable(c, i)
  /\ Raise(c, "CPUN", i.va)
  /\ UNCHANGED <<storage, R, F>> /\ NoLock

(* LWU, the doubleword instructions, the moves of a doubleword and all of  *)
(* COP1X need 64-bit operations.                                           *)
Reserved(c, i) ==
  i.op \in Doubles \cup FpDoubles /\ c \notin Wide /\ ~Unusable(c, i)

Rsvi(c, i) ==
  /\ Reserved(c, i)
  /\ Raise(c, "RSVI", i.va)
  /\ UNCHANGED <<storage, R, F>> /\ NoLock

Extended(i, v, size) == IF i.op \in Unsigned THEN v ELSE Sext(v, size)

Load(c, i) ==
  /\ i.op \in DOMAIN Loads /\ ~Reserved(c, i)
  /\ LET size == Loads[i.op]
         t == ReadTrap(i.va, size)
     IN /\ Raise(c, t, i.va)
        /\ IF t = "none" THEN SetGpr(c, i.rt, Extended(i, ReadP(Pa(i.va), size), size))
                         ELSE UNCHANGED R
  /\ UNCHANGED storage /\ NoLock

LoadLinked(c, i) ==
  /\ i.op \in DOMAIN Linked /\ ~Reserved(c, i)
  /\ LET size == Linked[i.op]
         t == ReadTrap(i.va, size)
     IN /\ Raise(c, t, i.va)
        /\ IF t = "none"
           THEN /\ SetGpr(c, i.rt, Sext(ReadP(Pa(i.va), size), size))
                /\ lock' = lock \cup {c}
                /\ lockAddr' = [lockAddr EXCEPT ![c] = Pa(i.va)]
           ELSE UNCHANGED R /\ NoLock
  /\ UNCHANGED storage

(* The aligned word or doubleword that an unaligned access lies in, and    *)
(* how many bits the address is past its start.                            *)
Aligned(va, size) == va - (va % size)
Past(va, size) == (va % size) * ByteBits

(* Mutant of MergedLeft: the sign of a word is not extended.               *)
MergedLeftRaw(old, v, va, size) ==
  LET sc == Width(size - 1) - Past(va, size)
  IN Splice(old, ShiftLeft(v, sc), sc, Width(size))

(* The left part of the register takes the bytes up to the address ...     *)
MergedLeft(old, v, va, size) ==
  LET sc == Width(size - 1) - Past(va, size)
  IN Sext(Splice(old, ShiftLeft(v, sc), sc, Width(size)), size)

(* ... and the right part those from the address on.                       *)
MergedRight(old, v, va, size) ==
  LET sc == Past(va, size)
  IN Sext(Splice(old, ShiftRight(v, sc), 0, Width(size) - sc), size)

LoadMerged(c, i, size, new(_)) ==
  LET va == Aligned(i.va, size)
      t == ReadTrap(va, size)
  IN /\ Raise(c, t, va)
     /\ IF t = "none" THEN SetGpr(c, i.rt, new(ReadP(Pa(va), size))) ELSE UNCHANGED R
     /\ UNCHANGED storage /\ NoLock

LoadLeft(c, i) ==
  /\ i.op \in DOMAIN Lefts /\ ~Reserved(c, i)
  /\ LET new(v) == MergedLeft(R[c][i.rt], v, i.va, Lefts[i.op])
     IN LoadMerged(c, i, Lefts[i.op], new)

LoadRight(c, i) ==
  /\ i.op \in DOMAIN Rights /\ ~Reserved(c, i)
  /\ LET new(v) == MergedRight(R[c][i.rt], v, i.va, Rights[i.op])
     IN LoadMerged(c, i, Rights[i.op], new)

Store(c, i) ==
  /\ i.op \in DOMAIN Stores /\ ~Reserved(c, i)
  /\ StoreTo(c, i.va, Stores[i.op], R[c][i.rt], {})
  /\ UNCHANGED R

(* A read and a write of the aligned word, with the register's left or     *)
(* right part in it; the translation is tested for a write before.         *)
StoreMerged(c, i, size, new(_)) ==
  LET va == Aligned(i.va, size)
  IN /\ IF ~WriteTest(i.va)
        THEN Raise(c, "TLB", i.va) /\ UNCHANGED storage /\ NoLock
        ELSE IF ReadTrap(va, size) # "none"
          THEN Raise(c, ReadTrap(va, size), va) /\ UNCHANGED storage /\ NoLock
        ELSE StoreTo(c, va, size, new(ReadP(Pa(va), size)), {})
     /\ UNCHANGED R

StoreLeft(c, i) ==
  /\ i.op \in DOMAIN StoreLefts /\ ~Reserved(c, i)
  /\ LET size == StoreLefts[i.op]
         sc == Width(size - 1) - Past(i.va, size)
         new(v) == Splice(v, ShiftRight(R[c][i.rt], sc), 0, Width(size) - sc)
     IN StoreMerged(c, i, size, new)

StoreRight(c, i) ==
  /\ i.op \in DOMAIN StoreRights /\ ~Reserved(c, i)
  /\ LET size == StoreRights[i.op]
         sc == Past(i.va, size)
         new(v) == Splice(v, ShiftLeft(R[c][i.rt], sc), sc, Width(size))
     IN StoreMerged(c, i, size, new)

(* SC and SCD: a trap leaves the register; the lock goes in any case.      *)
StoreConditional(c, i) ==
  /\ i.op \in DOMAIN Conditionals /\ ~Reserved(c, i)
  /\ LET size == Conditionals[i.op]
     IN IF c \in lock \/ i.va % size # 0
        THEN /\ StoreTo(c, i.va, size, R[c][i.rt], {c})
             /\ IF WriteTrap(i.va, size) = "none" THEN SetGpr(c, i.rt, 1) ELSE UNCHANGED R
        ELSE /\ SetGpr(c, i.rt, 0)
             /\ Raise(c, "none", i.va)
             /\ UNCHANGED <<storage, lock, lockAddr>>

Integer(c, i) ==
  \/ Load(c, i) \/ LoadLinked(c, i) \/ LoadLeft(c, i) \/ LoadRight(c, i)
  \/ Store(c, i) \/ StoreLeft(c, i) \/ StoreRight(c, i) \/ StoreConditional(c, i)
-----------------------------------------------------------------------------
(* fp_getspr, fp_putspr, fp_getdpr and fp_putdpr: a word of a flat         *)
(* register is its low one and a write clears the other; of a pair, an odd *)
(* number names the high word of the even register.  An odd doubleword     *)
(* reads as zero and is not written.                                       *)
Even(f) == f - (f % 2)

getspr(c, f) ==
  IF cp1[c] = "flat" THEN Part(F[c][f], 0, 4)
                     ELSE Part(F[c][Even(f)], 4 * (f % 2), 4)

putspr(c, f, v) ==
  IF cp1[c] = "flat" THEN [F EXCEPT ![c][f] = v % Span(4)]
                     ELSE [F EXCEPT ![c][Even(f)] = Put(@, 4 * (f % 2), 4, v)]

getdpr(c, f) == IF cp1[c] = "flat" \/ f % 2 = 0 THEN F[c][f] ELSE 0

putdpr(c, f, v) ==
  IF cp1[c] = "flat" \/ f % 2 = 0 THEN [F EXCEPT ![c][f] = v] ELSE F

FpAddress(i) == IF i.op \in {"LUXC1", "SUXC1"} THEN Aligned(i.va, 8) ELSE i.va

Usable(c, i) == ~Unusable(c, i) /\ ~Reserved(c, i)

(* A load after which the registers are f of the value at its address.     *)
FpLoad(c, i, size, f(_)) ==
  LET va == FpAddress(i)
      t == ReadTrap(va, size)
  IN /\ Usable(c, i)
     /\ Raise(c, t, va)
     /\ F' = IF t = "none" THEN f(ReadP(Pa(va), size)) ELSE F
     /\ UNCHANGED <<storage, R>> /\ NoLock

FpLoadWord(c, i) ==
  /\ i.op \in DOMAIN FpLoads /\ FpLoads[i.op] = 4
  /\ LET f(v) == putspr(c, i.f, v) IN FpLoad(c, i, 4, f)

FpLoadDouble(c, i) ==
  /\ i.op \in DOMAIN FpLoads /\ FpLoads[i.op] = 8
  /\ LET f(v) == putdpr(c, i.f, v) IN FpLoad(c, i, 8, f)

FpStoreWord(c, i) ==
  /\ i.op \in DOMAIN FpStores /\ FpStores[i.op] = 4 /\ Usable(c, i)
  /\ StoreTo(c, i.va, 4, getspr(c, i.f), {})
  /\ UNCHANGED <<R, F>>

FpStoreDouble(c, i) ==
  /\ i.op \in DOMAIN FpStores /\ FpStores[i.op] = 8 /\ Usable(c, i)
  /\ StoreTo(c, FpAddress(i), 8, getdpr(c, i.f), {})
  /\ UNCHANGED <<R, F>>

MoveFromFp(c, i) ==
  /\ \/ i.op = "MFC1"  /\ SetGpr(c, i.rt, Sext(getspr(c, i.f), 4))
     \/ i.op = "DMFC1" /\ SetGpr(c, i.rt, getdpr(c, i.f))
     \/ i.op = "MFHC1" /\ SetGpr(c, i.rt, Sext(Part(getdpr(c, i.f), 4, 4), 4))
  /\ UNCHANGED F

MoveToFp(c, i) ==
  /\ LET v == R[c][i.rt]
     IN \/ i.op = "MTC1"  /\ F' = putspr(c, i.f, v)
        \/ i.op = "DMTC1" /\ F' = putdpr(c, i.f, v)
        \/ i.op = "MTHC1" /\ F' = putdpr(c, i.f, Put(getdpr(c, i.f), 4, 4, v))
  /\ UNCHANGED R

FpMove(c, i) ==
  /\ Usable(c, i) /\ (MoveFromFp(c, i) \/ MoveToFp(c, i))
  /\ Raise(c, "none", i.va)
  /\ UNCHANGED storage /\ NoLock
-----------------------------------------------------------------------------
(* An instruction: an operation, an address, a register and a floating one.*)
Instruction(c, i) ==
  /\ \/ Cpun(c, i) \/ Rsvi(c, i)
     \/ FpLoadWord(c, i) \/ FpLoadDouble(c, i)
     \/ FpStoreWord(c, i) \/ FpStoreDouble(c, i) \/ FpMove(c, i)
     \/ Integer(c, i) /\ UNCHANGED F
  /\ UNCHANGED cp1

Run(c, i) ==
  /\ Instruction(c, i)
  /\ ran' = [core |-> c, op |-> i.op, va |-> i.va, rt |-> i.rt, f |-> i.f, n |-> ran.n + 1]

(* The ERET of a handler that interrupted the core drops its lock.         *)
Eret(c) ==
  /\ c \in lock /\ lock' = lock \ {c}
  /\ UNCHANGED <<storage, R, F, cp1, lockAddr, trap, badVa, ran>>
-----------------------------------------------------------------------------
(* The operator deposits doublewords: mem_dep as a store does, except that *)
(* lock_write is not called for a device, and rom_dep in the ROM itself.   *)
registers == <<R, F, cp1, trap, badVa, ran>>

DepositMemory(pa, v) ==
  /\ Present(pa)
  /\ IF pa < MemSize THEN LockWrite(pa, {}) ELSE NoLock
  /\ WriteP(pa, 8, v)
  /\ UNCHANGED registers

DepositRom(off, v) ==
  /\ off < RomSize
  /\ rom' = [rom EXCEPT ![off \div 8] = v]
  /\ UNCHANGED <<M, disk, registers>> /\ NoLock
-----------------------------------------------------------------------------
(* The transfers of a command that the last instruction started.           *)
Transfers(command) == {bit \in Commands : Has(command, bit)}

Commanded ==
  /\ ran' # ran /\ trap'[ran'.core] = "none"
  /\ ran'.op \in DOMAIN Stores \cup DOMAIN FpStores
  /\ Pa(ran'.va) - DiskBase \in 8 * Command .. (8 * Command) + 7

(* A count or an address as the checks take it: their sums wrap, so one of *)
(* 2^63 and more acts as a negative number.                                *)
Signed(v) == IF 2 * v < Span(8) THEN v ELSE v - Span(8)

Fits(command) ==
  LET n == Signed(ctl[Count])
      from == Signed(ctl[DiskAddress])
  IN /\ ctl[MemAddress] % 8 = 0 /\ ctl[Count] % 8 = 0
     /\ from >= 0 /\ from + n \in 0 .. capac[UnitOf(command)] - 1
     /\ Transfers(command) \cap {CmdRead, CmdWrite} # {} =>
          ctl[MemAddress] < MemSize /\ ctl[MemAddress] + n \in 1 .. MemSize

BufferOf(words) == ByteRun(words, 8 * Buffer, BufSize)

(* bytes with n of them, after the first to, taken from others, after the  *)
(* first from; longer if they do not fit.                                  *)
Copied(bytes, to, others, from, n) ==
  [k \in 1 .. Max({Len(bytes), IF n = 0 THEN 0 ELSE to + n}) |->
     IF k - to \in 1 .. n THEN others[k - to + from]
     ELSE IF k \in DOMAIN bytes THEN bytes[k] ELSE 0]

OfMemory == {CmdRead, CmdWrite}
OfBuffer == {CmdReadBuffer, CmdWriteBuffer}

(* A command is good exactly when its unit is attached and its range, with *)
(* its end, is within the disk and, when it is of memory, within memory;   *)
(* but a count of 2^63 and more is taken for a negative one, so that a     *)
(* range that steps back to the disk's beginning or past memory's end and  *)
(* over is good too.  A command that is not good moves nothing and counts  *)
(* nothing.  One that is good reads, from its address on, as many bytes as *)
(* its count asks for, or the buffer holds, or the file still has; then it *)
(* writes all it asks for after them, nothing to a disk attached read-only *)
(* and perhaps past the end of the file; it changes no other bytes, and    *)
(* counts each transfer with the bytes it asked for.  (Left out: a command *)
(* for both memory and the buffer, and one that runs off the array.)       *)
TransfersExact ==
  [][Commanded =>
       LET command == ctl'[Command]
           T == Transfers(command)
           u == UnitOf(command)
           good == ctl'[Status] = StatusGood
           from == ctl[DiskAddress]
           at == ctl[MemAddress]
           n == IF T \subseteq OfMemory THEN ctl[Count] ELSE Min({ctl[Count], BufSize})
           rest == Max({0, Len(file[u]) - from})
           in(bit) == IF good /\ bit \in T THEN Min({n, rest}) ELSE 0
           out(bit) == IF good /\ bit \in T /\ state[u] # "ro" THEN n ELSE 0
           memory == Copied(ByteRun(M, 0, MemSize), at, file[u], from, in(CmdRead))
           buffer == Copied(BufferOf(ctl), 0, file[u], from, in(CmdReadBuffer))
           next == from + in(CmdRead) + in(CmdReadBuffer)
           counted(r, bits, by) ==
             ctl'[r] = IF good /\ bits \cap T # {} THEN (ctl[r] + by) % Span(8) ELSE ctl[r]
       IN T \subseteq OfMemory \/ T \subseteq OfBuffer =>
            /\ good <=> state[u] # "off" /\ (T = {} \/ Fits(command))
            /\ ByteRun(M', 0, MemSize) = memory
            /\ BufferOf(ctl') = buffer
            /\ file' = [file EXCEPT ![u] =
                          Copied(Copied(@, next, memory, at, out(CmdWrite)),
                                 next, buffer, 0, out(CmdWriteBuffer))]
            /\ counted(ReadCmds, {CmdRead, CmdReadBuffer}, 1)
            /\ counted(ReadBytes, {CmdRead, CmdReadBuffer}, n)
            /\ counted(WriteCmds, {CmdWrite, CmdWriteBuffer}, 1)
            /\ counted(WriteBytes, {CmdWrite, CmdWriteBuffer}, n)
    ]_vars
=============================================================================
