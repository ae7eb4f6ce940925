-------------------------------- MODULE Disk --------------------------------
(***************************************************************************)
(* The disk controller (sc1_disk.c): one set of registers for all units, a *)
(* buffer, and a command that is carried out within the store that writes  *)
(* the command register.  A disk is a file of bytes; a transfer moves      *)
(* whole doublewords between it and memory or the buffer.                  *)
(*                                                                         *)
(* The counters and addresses are doublewords, and so are the sums that    *)
(* are compared with the sizes: a count near 2^64 may pass these checks.   *)
(* A transfer that then runs off the simulator's own array of memory is    *)
(* undefined (OffTheArray); what it does is left out, and only that.       *)
(***************************************************************************)
EXTENDS Integers, Sequences, FiniteSetsExt

CONSTANTS
  MemSize,      \* MEMSIZE: the bytes of memory
  NumDisk,      \* NDISK, a power of two
  BufSize,      \* DISKBUFSIZE: the bytes of the buffer
  NumReserved,  \* the registers between the counters and the buffer: 6
  ByteBits      \* the bits of a byte: 8

-----------------------------------------------------------------------------
(* Doublewords of eight bytes and the parts of them that the routines of   *)
(* sc1_mem.c, sc1_io.c and this one read and replace: shifts and masks of  *)
(* M8, M16 and M32, little-endian.                                         *)

ASSUME ByteAssumption == ByteBits \in Nat \ {0}

Width(size) == size * ByteBits

(* As many values as a register of so many bytes has.                      *)
Span(size) == 2 ^ Width(size)

Bytes == 0 .. Span(1) - 1
Doublewords == 0 .. Span(8) - 1

(* The shift of an aligned part: of the address, the bits within the       *)
(* doubleword without those within the part.                               *)
Shift(a, size) == ((a % 8) - (a % size)) * ByteBits

Part(d, a, size) == (d \div (2 ^ Shift(a, size))) % Span(size)

Put(d, a, size, v) ==
  d + ((v % Span(size)) - Part(d, a, size)) * 2 ^ Shift(a, size)

(* d shifted by so many bits within 64.                                    *)
ShiftLeft(d, n) == (d % (2 ^ (Width(8) - n))) * 2 ^ n
ShiftRight(d, n) == d \div (2 ^ n)

(* The bits from lo up to hi, in place, and d with those of v.             *)
Bits(d, lo, hi) == (d % (2 ^ hi)) - (d % (2 ^ lo))
Splice(d, v, lo, hi) == d - Bits(d, lo, hi) + Bits(v, lo, hi)

(* SEXT_B_D, SEXT_H_D and SEXT_W_D.                                        *)
Sext(v, size) ==
  LET low == v % Span(size)
  IN IF 2 * low >= Span(size) THEN low + Span(8) - Span(size) ELSE low

(* The doubleword with byte(k) in lane k.                                  *)
Packed(byte(_)) == MapThenSumSet(LAMBDA k : byte(k) * Span(k), 0 .. 7)

(* An array of doublewords as the bytes a transfer sees, and the array     *)
(* with a run of them replaced.                                            *)
ByteAt(words, a) == Part(words[a \div 8], a, 1)

ByteRun(words, a, n) == [k \in 1 .. n |-> ByteAt(words, a + k - 1)]

Replace(words, a, run) ==
  [w \in DOMAIN words |->
     LET new(k) == LET i == (8 * w) + k - a + 1
                   IN IF i \in DOMAIN run THEN run[i] ELSE Part(words[w], k, 1)
     IN Packed(new)]
-----------------------------------------------------------------------------
ASSUME DiskAssumption ==
  /\ {MemSize, BufSize, NumReserved} \subseteq Nat /\ NumDisk \in Nat \ {0}
  /\ MemSize % 8 = 0 /\ BufSize % 8 = 0 /\ MemSize > 0

VARIABLES
  M,            \* memory, as doublewords
  ctl,          \* disk_ctl, as doublewords
  file,         \* of each unit: the contents of the file,
  capac,        \*   its size when it was attached,
  state         \*   and how it is attached: "off", "on" or "ro"

disk == <<ctl, file, capac, state>>

Units == 0 .. NumDisk - 1

(* The members of DiskRegs.                                                *)
Size == 0
DiskAddress == 1
MemAddress == 2
Count == 3
Command == 4
Status == 5
ReadCmds == 6
ReadBytes == 7
WriteCmds == 8
WriteBytes == 9
Buffer == 10 + NumReserved

Registers == 0 .. Buffer + (BufSize \div 8) - 1
DiskSize == 8 * (Buffer + (BufSize \div 8))

(* The command bits, in the byte above the unit number.                    *)
CmdRead == Span(1)
CmdWrite == 2 * CmdRead
CmdReadBuffer == 4 * CmdRead
CmdWriteBuffer == 8 * CmdRead
Commands == {CmdRead, CmdWrite, CmdReadBuffer, CmdWriteBuffer}

Has(command, bit) == (command \div bit) % 2 = 1
UnitOf(command) == command % NumDisk

StatusGood == 1
StatusSeekError == 2
StatusNoDev == 16

PaIsMem(pa) == pa % Span(8) < MemSize
-----------------------------------------------------------------------------
(* disk_docmd, on the state of the controller: the position in the file    *)
(* moves along, and "done" is a return.                                    *)
Return(d, status) == [d EXCEPT !.ctl[Status] = status, !.done = TRUE]

Counted(d, cmds, bytes) ==
  [d EXCEPT !.ctl[cmds] = (@ + 1) % Span(8),
            !.ctl[bytes] = (@ + d.ctl[Count]) % Span(8),
            !.ctl[Status] = StatusGood]

OutsideMemory(d) ==
  \/ ~PaIsMem(d.ctl[MemAddress])
  \/ ~PaIsMem(d.ctl[MemAddress] + d.ctl[Count] + Span(8) - 1)

(* The bytes asked of the file: the number of items has 32 bits.           *)
Asked(d) == 8 * ((d.ctl[Count] \div 8) % Span(4))

(* What sim_fread delivers: as much as there is.  The result, the number   *)
(* of items, is never negative, and the status is good.                    *)
Incoming(d) ==
  SubSeq(d.file, d.pos + 1, Min({d.pos + Asked(d), Len(d.file)}))

(* A file with a run of bytes written at pos.  What lies between its end   *)
(* and pos reads as zero.                                                  *)
Overwritten(bytes, pos, run) ==
  [k \in 1 .. Max({Len(bytes), pos + Len(run)}) |->
     IF k - pos \in DOMAIN run THEN run[k - pos]
     ELSE IF k \in DOMAIN bytes THEN bytes[k] ELSE 0]

(* sim_fwrite: a file attached read-only takes nothing, and again the      *)
(* status is good.                                                         *)
Outgoing(d, run) ==
  IF d.readOnly \/ run = <<>> THEN d
  ELSE [d EXCEPT !.file = Overwritten(@, d.pos, run), !.pos = @ + Len(run)]

(* The address is in memory, but the n bytes from there on are not: the    *)
(* count has wrapped past the check.                                       *)
OffTheArray(d, n) == d.ctl[MemAddress] + n > MemSize

Overrun(d) == [d EXCEPT !.overrun = TRUE, !.done = TRUE]

Read(d) ==
  LET run == Incoming(d)
  IN IF OutsideMemory(d) THEN Return(d, StatusSeekError)
     ELSE IF OffTheArray(d, Len(run)) THEN Overrun(d)
     ELSE [Counted(d, ReadCmds, ReadBytes) EXCEPT
             !.M = Replace(@, d.ctl[MemAddress], run), !.pos = @ + Len(run)]

Write(d) ==
  LET c == Counted(d, WriteCmds, WriteBytes)
  IN IF OutsideMemory(d) THEN Return(d, StatusSeekError)
     ELSE IF d.readOnly THEN c
     ELSE IF OffTheArray(d, Asked(d)) THEN Overrun(d)
     ELSE Outgoing(c, ByteRun(d.M, d.ctl[MemAddress], Asked(d)))

(* The count register itself is cut to the size of the buffer.             *)
Capped(d) == [d EXCEPT !.ctl[Count] = Min({@, BufSize})]

ReadBuffer(d) ==
  LET c == Capped(d)
      run == Incoming(c)
  IN [Counted(c, ReadCmds, ReadBytes) EXCEPT
        !.ctl = Replace(@, 8 * Buffer, run), !.pos = @ + Len(run)]

WriteBuffer(d) ==
  LET c == Capped(d)
  IN Outgoing(Counted(c, WriteCmds, WriteBytes),
              ByteRun(c.ctl, 8 * Buffer, c.ctl[Count]))

(* Mutant of SeekFails: only the start of the transfer is asked about.     *)
SeekFailsAtStart(d, unit) ==
  \/ d.ctl[MemAddress] % 8 # 0 \/ d.ctl[Count] % 8 # 0
  \/ d.ctl[DiskAddress] >= capac[unit]

(* The checks before any transfer, and fseek, whose offset is signed.      *)
SeekFails(d, unit) ==
  \/ d.ctl[MemAddress] % 8 # 0 \/ d.ctl[Count] % 8 # 0
  \/ (d.ctl[DiskAddress] + d.ctl[Count]) % Span(8) >= capac[unit]
  \/ 2 * d.ctl[DiskAddress] >= Span(8)

(* Each command bit in turn, from where the last left the file.            *)
If(d, bit, Do(_)) == IF d.done \/ ~Has(d.ctl[Command], bit) THEN d ELSE Do(d)

DoCmd(words, regs) ==
  LET unit == UnitOf(regs[Command])
      d == [M |-> words, ctl |-> regs, file |-> file[unit], done |-> FALSE, overrun |-> FALSE,
            pos |-> regs[DiskAddress], readOnly |-> state[unit] = "ro"]
  IN IF state[unit] = "off" THEN Return(d, StatusNoDev)
     ELSE IF \A bit \in Commands : ~Has(regs[Command], bit)
       THEN Return(d, StatusGood)
     ELSE IF SeekFails(d, unit) THEN Return(d, StatusSeekError)
     ELSE If(If(If(If(d, CmdRead, Read), CmdWrite, Write),
                CmdReadBuffer, ReadBuffer), CmdWriteBuffer, WriteBuffer)
-----------------------------------------------------------------------------
(* Accesses to the registers; off is the address within them.              *)
DiskRegister(off) ==
  IF off \div 8 = Size THEN capac[UnitOf(ctl[Command])] ELSE ctl[off \div 8]

DiskRd(off, size) == Part(DiskRegister(off), off, size)

(* A part of a register is merged into the rest of it; a write of any part *)
(* of the command register carries out the command.  There is no step for  *)
(* one that runs off the array.                                            *)
DiskWr(off, size, v) ==
  LET new == [ctl EXCEPT ![off \div 8] = Put(DiskRegister(off), off, size, v)]
      d == DoCmd(M, new)
  IN /\ IF off \div 8 = Command
        THEN /\ ~d.overrun
             /\ M' = d.M /\ ctl' = d.ctl
             /\ file' = [file EXCEPT ![UnitOf(new[Command])] = d.file]
        ELSE ctl' = new /\ UNCHANGED <<M, file>>
     /\ UNCHANGED <<capac, state>>

(* The operator attaches a file, perhaps read-only, or detaches it; the    *)
(* size stays.  A reset does nothing.                                      *)
Attach(u, contents, how) ==
  /\ file' = [file EXCEPT ![u] = contents]
  /\ capac' = [capac EXCEPT ![u] = Len(contents)]
  /\ state' = [state EXCEPT ![u] = how]
  /\ UNCHANGED <<M, ctl>>

Detach(u) ==
  /\ state[u] # "off"
  /\ state' = [state EXCEPT ![u] = "off"]
  /\ UNCHANGED <<M, ctl, file, capac>>
=============================================================================
