----------------------------- MODULE MCStorage -----------------------------
(***************************************************************************)
(* The storage under three kinds of use: any one instruction on patterns   *)
(* of memory and registers; any command of the disk controller, with any   *)
(* registers, and an operator who exchanges disks; and two programs that   *)
(* share the disk.                                                         *)
(***************************************************************************)
EXTENDS DiskDriver, TLC

CONSTANTS
  Patterns,     \* the doublewords memory and registers start with
  Vas,          \* the addresses of the instructions
  Addresses,    \* the addresses and counts of the transfers
  Counts,
  CommandSets   \* the command bits that are written together

VARIABLE kind

mcVars == <<vars, driver, kind>>

MCFrame == (0 :> 0) @@ (1 :> 1) @@ (2 :> 2) @@ (3 :> 0) @@ (5 :> 4) @@ (6 :> 5)
             @@ [page \in 8 .. 18 |-> page]
MCDirty == DOMAIN MCFrame \ {2}

MCPatterns ==
  LET up(k) == k
      down(k) == 7 - k
      mixed(k) == (5 * k + 3) % 8
  IN {Packed(up), Packed(down), Packed(mixed)}

MCVas ==
  UNION {8 * page .. 8 * page + 7 : page \in {0, 2, 3, 4, 5, 6, 8, 9, 12, 18}}

(* Both ends of disk and memory, what lies past them, and what wraps.      *)
MCAddresses == {0, 4, 8, 16, 24, 32, Span(8) - 8}
MCCounts == {0, 4, 8, 16, 24, Span(8) - 16, Span(8) - 8}

MCCommandSets == {0, 1, 2, 3, 4, 8, 12}

MCLockVa == [c \in Cores |-> IF c = 0 THEN 0 ELSE 24]
MCBufferPa == [c \in Cores |-> IF c = 0 THEN 8 ELSE 16]
MCRequests ==
  <<[write |-> TRUE, block |-> 0], [write |-> FALSE, block |-> 1]>>
MCAllRequests == [c \in Cores |->
  IF c = 0 THEN MCRequests
  ELSE <<[write |-> FALSE, block |-> 0], [write |-> TRUE, block |-> 1]>>]

Ops ==
  DOMAIN Loads \cup DOMAIN Linked \cup DOMAIN Lefts \cup DOMAIN Rights
    \cup DOMAIN Stores \cup DOMAIN Conditionals
    \cup DOMAIN StoreLefts \cup DOMAIN StoreRights

Contents(n) == [k \in 1 .. 8 * n |-> (3 * k + (k \div 8)) % Span(1)]

Power ==
  /\ rom = [w \in 0 .. (RomSize \div 8) - 1 |-> 0]
  /\ lockAddr = [c \in Cores |-> 0]
  /\ trap = [c \in Cores |-> "none"] /\ badVa = [c \in Cores |-> 0]
  /\ ran = [n |-> 0]
  /\ step = [c \in Cores |-> "link"] /\ served = [c \in Cores |-> 0]

Zeros == [r \in Registers |-> 0]

(* Two of the patterns, different, each in the place of the other once.    *)
PatternPairs ==
  LET p == CHOOSE p \in Patterns : TRUE
  IN {<<p, q>> : q \in Patterns \ {p}} \cup {<<q, p>> : q \in Patterns \ {p}}

BytesInit ==
  /\ kind = "bytes"
  /\ \E <<p, q>> \in PatternPairs :
       /\ M = [w \in 0 .. (MemSize \div 8) - 1 |-> IF w = 0 THEN p ELSE q]
       /\ R = [c \in Cores |-> (0 :> 0) @@ (1 :> IF c = 0 THEN q ELSE p)]
       /\ F = [c \in Cores |-> (0 :> p) @@ (1 :> q)]
       /\ ctl = [Zeros EXCEPT ![DiskAddress] = q, ![Buffer] = p]
  /\ file = [u \in Units |-> Contents(u + 1)]
  /\ capac = [u \in Units |-> 8 * (u + 1)]
  /\ state = [u \in Units |-> "on"]
  /\ lock \in {{}, Cores}
  /\ \E how \in {"off", "flat", "pairs"} : cp1 = [c \in Cores |-> how]

NoFp ==
  /\ F = [c \in Cores |-> [f \in 0 .. 1 |-> 0]]
  /\ cp1 = [c \in Cores |-> "off"]

DiskInit ==
  /\ kind = "disk" /\ NoFp
  /\ M = [w \in 0 .. (MemSize \div 8) - 1 |-> CHOOSE p \in Patterns : TRUE]
  /\ \E da, ma \in Addresses, n \in Counts :
       ctl = [Zeros EXCEPT ![DiskAddress] = da, ![MemAddress] = ma, ![Count] = n,
                           ![Buffer] = CHOOSE p \in Patterns : p # M[0]]
  /\ file = [u \in Units |-> Contents(3)]
  /\ capac = [u \in Units |-> 24]
  /\ \E how \in {"off", "on", "ro"} :
       /\ state = [u \in Units |-> IF u = 0 THEN how ELSE "on"]
       /\ how # "off" \/ ctl[Count] = 8
  /\ \E bits \in CommandSets, u \in Units :
       R = [c \in Cores |-> (0 :> 0) @@ (1 :> (bits * CmdRead) + u)]
  /\ lock = {}

DriverInit ==
  /\ kind = "driver" /\ NoFp
  /\ M = [w \in 0 .. (MemSize \div 8) - 1 |->
            IF w = 0 THEN 0 ELSE IF w = 1 THEN CHOOSE p \in Patterns : TRUE ELSE 5]
  /\ ctl = Zeros
  /\ file = [u \in Units |-> Contents(3)]
  /\ capac = [u \in Units |-> 24]
  /\ state = [u \in Units |-> "on"]
  /\ R = [c \in Cores |-> [r \in 0 .. 1 |-> 0]]
  /\ lock = {}

MCInit == Power /\ (BytesInit \/ DiskInit \/ DriverInit)

(* The integer instructions do not look at cp1: one of its values is       *)
(* enough, and the first page for what does not depend on the address.     *)
AnyInstruction ==
  /\ ran.n = 0
  /\ \E c \in Cores, op \in Ops, va \in Vas, rt \in {0, 1} :
       /\ cp1[c] = "flat" /\ (rt = 0 => c = 0 /\ va < 8)
       /\ Run(c, [op |-> op, va |-> va, rt |-> rt, f |-> 0])

AnyFpAccess ==
  /\ ran.n = 0
  /\ \E c \in Cores, op \in Fp \ FpMoves, va \in Vas, f \in {0, 1} :
       /\ cp1[c] = "off" \/ f = 0 => va < 8
       /\ Run(c, [op |-> op, va |-> va, rt |-> 1, f |-> f])

AnyFpMove ==
  /\ ran.n = 0
  /\ \E c \in Cores, op \in FpMoves, rt \in {0, 1}, f \in {0, 1} :
       Run(c, [op |-> op, va |-> 0, rt |-> rt, f |-> f])

(* A store of a command, whole or its low word.                            *)
AnyCommand ==
  /\ ran.n = 0
  /\ \E op \in {"SW", "SD"} :
       Run(0, [op |-> op, va |-> RegisterVa + (8 * Command), rt |-> 1, f |-> 0])

(* Between two instructions, for one of the transfers.                     *)
OperatorActs ==
  \/ \E u \in Units :
       /\ Detach(u) \/ \E how \in {"on", "ro"} : state[u] = "off" /\ Attach(u, Contents(2), how)
       /\ UNCHANGED <<rom, R, F, cp1, lock, lockAddr, trap, badVa, ran>>
  \/ \E pa \in {0, 8, RomBase, DiskBase + 8} : DepositMemory(pa, 0)
  \/ DepositRom(0, 1)

Operator ==
  /\ ran.n = 0 /\ ctl[MemAddress] = 0 /\ ctl[DiskAddress] = 8 /\ ctl[Count] = 8
  /\ OperatorActs

OneInstruction == kind = "bytes" /\ UNCHANGED <<kind, driver>>
Transferring == kind = "disk" /\ UNCHANGED <<kind, driver>>
Sharing == kind = "driver" /\ UNCHANGED kind

MCNext ==
  \/ OneInstruction /\ AnyInstruction
  \/ OneInstruction /\ AnyFpAccess
  \/ OneInstruction /\ AnyFpMove
  \/ Transferring /\ AnyCommand
  \/ Transferring /\ Operator
  \/ \E c \in Cores :
       \/ Sharing /\ Link(c)
       \/ Sharing /\ Test(c)
       \/ Sharing /\ Try(c)
       \/ Sharing /\ Transfer(c)
       \/ Sharing /\ Check(c)
       \/ Sharing /\ Release(c)
       \/ Sharing /\ Interrupt(c)

Spec == MCInit /\ [][MCNext]_mcVars
-----------------------------------------------------------------------------
Extent ==
  (0 .. MemSize - 1) \cup (RomBase .. RomBase + RomSize - 1)
    \cup (DiskBase .. DiskBase + DiskSize - 1)

RegisterBytes(n) == DiskBase + (8 * n) .. DiskBase + (8 * n) + 7

BytesOf(d) == [k \in 0 .. 7 |-> Part(d, k, 1)]

(* Every load and store, aligned or not, moves the bytes it should between *)
(* the registers, memory, the ROM and the controller's registers, and no   *)
(* others; or it traps and moves none.  (The driver is not compared.)      *)
Store0 ==
  INSTANCE ByteStore WITH
    SignBit <- Span(1) \div 2,
    Fixed <- RegisterBytes(Size),
    Trigger <- RegisterBytes(Command),
    byte <- IF kind = "driver" THEN <<>> ELSE [a \in Extent |-> ReadP(a, 1)],
    reg <- IF kind = "driver" THEN <<>>
           ELSE [c \in Cores |-> [r \in 0 .. 1 |-> BytesOf(R[c][r])]],
    freg <- IF kind = "driver" THEN <<>>
            ELSE [c \in Cores |-> [f \in 0 .. 1 |-> BytesOf(F[c][f])]],
    trap <- IF kind = "driver" THEN <<>> ELSE trap

ImplementsByteStore == Store0!Spec

(* The requests of the programs are served as if the disk served one at a  *)
(* time, although they share its registers and take turns by instructions. *)
Blocks ==
  INSTANCE BlockDevice WITH
    Programs <- Cores,
    blocks <- IF kind # "driver" THEN <<>>
              ELSE [b \in 0 .. 1 |-> SubSeq(file[0], (8 * b) + 1, (8 * b) + 8)],
    buffer <- IF kind # "driver" THEN <<>>
              ELSE [c \in Cores |-> ByteRun(M, BufferPa[c], 8)]

ImplementsBlockDevice == Blocks!Spec
=============================================================================
