----------------------------- MODULE ByteStore -----------------------------
(***************************************************************************)
(* What a program relies on: an address space of bytes, in which an        *)
(* instruction moves certain bytes between memory and certain bytes of a   *)
(* register, little-endian, or traps and moves nothing.  A floating        *)
(* register has eight bytes, or the odd ones are the upper halves of the   *)
(* even ones.  What a controller does when its command register is written *)
(* is not part of it.                                                      *)
(***************************************************************************)
EXTENDS Integers, FiniteSets

CONSTANTS
  Cores, Frame, Dirty, Wide,
  SignBit,      \* the value from which on a byte has its sign bit set
  Extent,       \* the physical addresses at which there is something
  Fixed,        \*   those of them a store does not change,
  Trigger       \*   and those whose store makes a controller act

VARIABLES
  byte,         \* the byte at each address
  reg,          \* the bytes of the registers of each core,
  freg,         \*   those of its floating registers,
  cp1,          \*   and what those are: "off", "flat" or "pairs"
  trap,
  ran           \* the last instruction, numbered: [core, op, va, rt, f, n]

vars == <<byte, reg, freg, cp1, trap, ran>>

Ones == (2 * SignBit) - 1

Plain == {"LB", "LBU", "SB", "LH", "LHU", "SH", "LW", "LWU", "SW", "LL", "SC",
          "LD", "LLD", "SD", "SCD", "LWC1", "LDC1", "SWC1", "SDC1",
          "LWXC1", "LDXC1", "SWXC1", "SDXC1"}
Left == {"LWL", "SWL", "LDL", "SDL"}
Right == {"LWR", "SWR", "LDR", "SDR"}
Rounded == {"LUXC1", "SUXC1"}
FpLoads == {"LWC1", "LDC1", "LWXC1", "LDXC1", "LUXC1"}
FpStores == {"SWC1", "SDC1", "SWXC1", "SDXC1", "SUXC1"}
FromFp == {"MFC1", "DMFC1", "MFHC1"}
ToFp == {"MTC1", "DMTC1", "MTHC1"}
Fp == FpLoads \cup FpStores \cup FromFp \cup ToFp
Upper == {"MFHC1", "MTHC1"}
Loads == FpLoads \cup {"LB", "LBU", "LH", "LHU", "LW", "LWU", "LL", "LWL", "LWR", "LD", "LLD",
          "LDL", "LDR"}
ZeroExtended == {"LBU", "LHU", "LWU"}
Needs64 == {"LWU", "LD", "LLD", "LDL", "LDR", "SD", "SCD", "SDL", "SDR",
            "DMFC1", "DMTC1", "LWXC1", "LDXC1", "LUXC1", "SWXC1", "SDXC1", "SUXC1"}

SizeOf(op) ==
  CASE op \in {"LB", "LBU", "SB"} -> 1
    [] op \in {"LH", "LHU", "SH"} -> 2
    [] op \in {"LW", "LWU", "SW", "LL", "SC", "LWL", "SWL", "LWR", "SWR",
                "LWC1", "SWC1", "LWXC1", "SWXC1", "MFC1", "MTC1"} \cup Upper -> 4
    [] OTHER -> 8

(* The bytes an instruction moves: the address and the lane of each.  The  *)
(* left instructions move what lies in the word up to the address, to or   *)
(* from the top of the register, and the right ones what lies from it on.  *)
Moves(i) ==
  LET n == SizeOf(i.op)
      past == i.va % n
  IN CASE i.op \in Plain -> {<<i.va + k, k>> : k \in 0 .. n - 1}
       [] i.op \in Left  -> {<<i.va - k, n - 1 - k>> : k \in 0 .. past}
       [] i.op \in Right -> {<<i.va + k, k>> : k \in 0 .. n - 1 - past}
       [] i.op \in Rounded -> {<<i.va - past + k, k>> : k \in 0 .. n - 1}
       [] OTHER -> {}

(* The first thing that is wrong: the mode, the alignment, the translation *)
(* of any of the bytes, or that nothing answers at its address.            *)
TrapOf(i) ==
  LET pages == {m[1] \div 8 : m \in Moves(i)}
  IN CASE i.op \in Fp /\ cp1[i.core] = "off" -> "CPUN"
       [] i.op \in Needs64 /\ i.core \notin Wide -> "RSVI"
       [] i.op \in Plain /\ i.va % SizeOf(i.op) # 0 ->
            IF i.op \in Loads THEN "LAER" ELSE "SAER"
       [] ~(pages \subseteq IF i.op \in Loads THEN DOMAIN Frame ELSE Dirty) -> "TLB"
       [] \E page \in pages : 8 * Frame[page] \notin Extent -> "DBE"
       [] OTHER -> "none"

Physical(va) == (8 * Frame[va \div 8]) + (va % 8)

(* The lanes of an operand; beyond its size, the extension of the top one. *)
Filled(i, lane(_)) ==
  LET top == lane(SizeOf(i.op) - 1)
  IN [k \in 0 .. 7 |->
        IF k < SizeOf(i.op) THEN lane(k)
        ELSE IF top >= SignBit /\ i.op \notin ZeroExtended THEN Ones ELSE 0]

Loaded(i) ==
  LET from(k) == {m[1] : m \in {m \in Moves(i) : m[2] = k}}
      lane(k) == IF from(k) = {} THEN reg[i.core][i.rt][k]
                 ELSE byte[Physical(CHOOSE va \in from(k) : TRUE)]
  IN Filled(i, lane)

SetReg(i, v) ==
  /\ reg' = IF i.rt = 0 THEN reg ELSE [reg EXCEPT ![i.core][i.rt] = v]
  /\ UNCHANGED freg

(* Where the lanes of a floating operand are: the lane, the register and   *)
(* the byte.  An odd register of a pair holds no doubleword.               *)
Lanes(i) ==
  LET first == IF i.op \in Upper THEN 4 ELSE 0
      odd == i.f % 2
      n == SizeOf(i.op)
  IN CASE cp1[i.core] = "flat" \/ odd = 0 -> {<<k, i.f, first + k>> : k \in 0 .. n - 1}
       [] n = 4 /\ i.op \notin Upper -> {<<k, i.f - 1, 4 + k>> : k \in 0 .. 3}
       [] OTHER -> {}

FpOperand(i) ==
  LET lane(k) ==
        LET at == {l \in Lanes(i) : l[1] = k}
        IN IF at = {} THEN 0
           ELSE LET l == CHOOSE l \in at : TRUE IN freg[i.core][l[2]][l[3]]
  IN Filled(i, lane)

(* A word that is put into a whole register clears the rest of it.         *)
Cleared(i, f) ==
  cp1[i.core] = "flat" /\ SizeOf(i.op) = 4 /\ i.op \notin Upper /\ f = i.f

SetFreg(i, v) ==
  /\ freg' = [freg EXCEPT ![i.core] = [f \in DOMAIN @ |-> [b \in 0 .. 7 |->
       LET at == {l \in Lanes(i) : l[2] = f /\ l[3] = b}
       IN IF at # {} THEN v[(CHOOSE l \in at : TRUE)[1]]
          ELSE IF Cleared(i, f) THEN 0 ELSE @[f][b]]]]
  /\ UNCHANGED reg

Number(n) == [k \in 0 .. 7 |-> IF k = 0 THEN n ELSE 0]

Trapped(i) == TrapOf(i) # "none" /\ UNCHANGED <<byte, reg, freg>>

LoadStep(i) ==
  /\ TrapOf(i) = "none" /\ i.op \in Loads /\ UNCHANGED byte
  /\ IF i.op \in Fp THEN SetFreg(i, Loaded(i)) ELSE SetReg(i, Loaded(i))

MoveStep(i) ==
  /\ TrapOf(i) = "none" /\ UNCHANGED byte
  /\ \/ i.op \in FromFp /\ SetReg(i, FpOperand(i))
     \/ i.op \in ToFp /\ SetFreg(i, reg[i.core][i.rt])

Operand(i) == IF i.op \in Fp THEN FpOperand(i) ELSE reg[i.core][i.rt]

(* Where a store puts what is in a lane of the register.                   *)
Stored(i) ==
  [a \in Extent |->
     IF a \in {Physical(m[1]) : m \in Moves(i)} \ Fixed
     THEN Operand(i)[(CHOOSE m \in Moves(i) : Physical(m[1]) = a)[2]]
     ELSE byte[a]]

StoreStep(i) ==
  /\ TrapOf(i) = "none" /\ i.op \notin Loads \cup FromFp \cup ToFp
  /\ {Physical(m[1]) : m \in Moves(i)} \cap Trigger = {} => byte' = Stored(i)
  /\ IF i.op \in {"SC", "SCD"} THEN SetReg(i, Number(1)) ELSE UNCHANGED <<reg, freg>>

(* A store conditional may fail instead, without looking at the address    *)
(* any further than its alignment.                                         *)
FailedStep(i) ==
  /\ i.op \in {"SC", "SCD"} /\ TrapOf(i) \notin {"SAER", "RSVI"}
  /\ SetReg(i, Number(0)) /\ UNCHANGED byte

Instruction(i) ==
  /\ i.n = ran.n + 1 /\ UNCHANGED cp1
  /\ \/ /\ Trapped(i) \/ LoadStep(i) \/ MoveStep(i) \/ StoreStep(i)
        /\ trap' = [trap EXCEPT ![i.core] = TrapOf(i)]
     \/ /\ FailedStep(i)
        /\ trap' = [trap EXCEPT ![i.core] = "none"]

(* The operator deposits something, or exchanges a disk.                   *)
Outside == UNCHANGED <<reg, freg, cp1, trap, ran>>

Next == Instruction(ran') \/ Outside

Init == ran.n = 0

Spec == Init /\ [][Next]_vars
=============================================================================
