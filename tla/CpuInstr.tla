------------------------------ MODULE CpuInstr ------------------------------
(***************************************************************************)
(* What the instructions of sc1_cpu.c that decide where a program goes, or *)
(* that stand for the others, do to the registers of the program.          *)
(*                                                                         *)
(* An instruction is a record of an operation and a target.  The registers *)
(* are one operand of the branches (its sign is all they look at), one     *)
(* floating point condition code, and the link register.                   *)
(***************************************************************************)
EXTENDS Integers

CONSTANT Addr      \* word addresses; a program counter is one of them

(* Jumps, branches, and those that annul their slot or leave a link.       *)
Jumps == {"J", "JAL", "JR", "JALR"}

Compares == {"BEQ", "BEQL", "BNE", "BNEL"}

Signs == {"BGTZ", "BGTZL", "BLEZ", "BLEZL"}

Regimms ==
  {"BLTZ", "BLTZL", "BGEZ", "BGEZL", "BLTZAL", "BLTZALL", "BGEZAL", "BGEZALL"}

FpBranches == {"BC1T", "BC1F", "BC1TL", "BC1FL"}

Transfers == Jumps \cup Compares \cup Signs \cup Regimms \cup FpBranches

Likely ==
  {"BEQL", "BNEL", "BGTZL", "BLEZL", "BLTZL", "BGEZL", "BLTZALL", "BGEZALL",
   "BC1TL", "BC1FL"}

Linking == {"JAL", "JALR", "BLTZAL", "BLTZALL", "BGEZAL", "BGEZALL"}

(* The other operations of programs, and those of exception handlers.      *)
Plain == {"ADDU", "CMP", "LW", "SYSCALL", "WAIT"}

Kernel == {"NOP", "KLW", "ARM", "CLEARBEV", "ADVANCE", "ERET"}

Ops == Transfers \cup Plain \cup Kernel \cup {"RESERVED"}

Instr == [op : Ops, to : Addr]

Operand == {-1, 0, 1}
Regs == [s : Operand, cc : BOOLEAN, link : Addr]
-----------------------------------------------------------------------------
(* The second operand of BEQ and BNE is $0.                                *)
CompareTaken(op, r) ==
  \/ op \in {"BEQ", "BEQL"} /\ r.s = 0
  \/ op \in {"BNE", "BNEL"} /\ r.s # 0

SignTaken(op, r) ==
  \/ op \in {"BGTZ", "BGTZL"} /\ r.s > 0
  \/ op \in {"BLEZ", "BLEZL"} /\ r.s <= 0

RegimmTaken(op, r) ==
  \/ op \in {"BLTZ", "BLTZL", "BLTZAL", "BLTZALL"} /\ r.s < 0
  \/ op \in {"BGEZ", "BGEZL", "BGEZAL", "BGEZALL"} /\ r.s >= 0

FpTaken(op, r) ==
  \/ op \in {"BC1T", "BC1TL"} /\ r.cc
  \/ op \in {"BC1F", "BC1FL"} /\ ~r.cc

Taken(op, r) ==
  \/ op \in Jumps
  \/ CompareTaken(op, r)
  \/ SignTaken(op, r)
  \/ RegimmTaken(op, r)
  \/ FpTaken(op, r)

(* JR returns through the link register; JALR takes another register.      *)
Target(i, r) == IF i.op = "JR" THEN r.link ELSE i.to

(* What a transfer at a leaves in the link register.                       *)
Linked(op, a, r) == IF op \in Linking THEN [r EXCEPT !.link = a + 2] ELSE r

(* What the other operations leave in the registers: an addition, a        *)
(* comparison, a load; a system call and WAIT change none.                 *)
Up(s) == IF s = 1 THEN -1 ELSE s + 1

Effect(op, r) ==
  IF op \in {"ADDU", "LW"} THEN [r EXCEPT !.s = Up(r.s)]
  ELSE IF op = "CMP" THEN [r EXCEPT !.cc = (r.s = 0)]
  ELSE r

(* Where a transfer at a goes once its slot is done.                       *)
Destination(i, a, r) == IF Taken(i.op, r) THEN Target(i, r) ELSE a + 2
=============================================================================
