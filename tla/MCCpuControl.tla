---------------------------- MODULE MCCpuControl ----------------------------
(***************************************************************************)
(* A program of a transfer and its slot, in a loop; and the smallest       *)
(* handlers that do what handlers do.                                      *)
(*                                                                         *)
(*   0  the transfer    4  J 0             7  general handler             *)
(*   1  the slot        5  LW, the slot   10  other EXL handlers          *)
(*   2  SYSCALL         6  the end        11  cache error handler         *)
(*   3  CMP                               12  boot code                   *)
(***************************************************************************)
EXTENDS CpuControl, TLC

MCAddr == 0 .. 14
MCText == 0 .. 6
MCHandlers == 7 .. 10
MCErrHandlers == 11 .. 14

MCVectors ==
  [v \in Offsets \X BOOLEAN |->
     CASE v[1] = "GEN" -> 7 [] v[1] = "CERR" -> 11 [] OTHER -> 10]

MCReset == 12

I(op, to) == [op |-> op, to |-> to]

Program(transfer, slot) ==
  <<I(slot, 0), I("SYSCALL", 0), I("CMP", 0), I("J", 0), I("LW", 0),
    I("RESERVED", 0),
    I("ADVANCE", 0), I("KLW", 0), I("ARM", 0), I("ERET", 0),
    I("ERET", 0), I("NOP", 0), I("CLEARBEV", 0), I("ERET", 0)>>
  @@ (0 :> I(transfer, 3))

(* Every jump, and of the branches each way to decide, each as likely and  *)
(* as not; BLTZAL and BEQL with every kind of slot.                        *)
MCTransfers ==
  Jumps \cup {"BEQ", "BNEL", "BGTZ", "BLEZL", "BLTZ", "BGEZL", "BLTZALL", "BC1T", "BC1FL"}

MCPrograms ==
  {Program(t, IF t \in Likely THEN "LW" ELSE "ADDU") : t \in MCTransfers} \cup
  {Program("BLTZAL", s) : s \in {"CMP", "SYSCALL", "WAIT", "BNEL"}} \cup
  {Program("BEQL", s) : s \in {"SYSCALL", "RESERVED"}}
=============================================================================
