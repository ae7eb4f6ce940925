----------------------------- MODULE ProgramPath ----------------------------
(***************************************************************************)
(* What a core promises the program it runs: instruction after             *)
(* instruction, a jump or a branch together with its delay slot, as if no  *)
(* exception had ever come between.                                        *)
(*                                                                         *)
(* A linking transfer may be seen to have written its link before its slot *)
(* is done, which is why LinkEarly is a step.  A transfer in a delay slot  *)
(* is never executed: the program stays where it is.                       *)
(***************************************************************************)
EXTENDS CpuInstr

CONSTANTS
  Programs,  \* the programs
  Start      \* where they begin

VARIABLES
  code,      \* the program, a function from addresses to instructions
  at,        \* where the program is
  regs

pathVars == <<code, at, regs>>

(* Two transfers in a row are no program.                                  *)
Wellformed(c, a) == a + 1 \in DOMAIN c /\ c[a + 1].op \in Plain

PathInit ==
  /\ code \in Programs
  /\ at = Start
  /\ regs = [s |-> 0, cc |-> FALSE, link |-> Start]

StepPlain ==
  /\ at \in DOMAIN code /\ code[at].op \in Plain
  /\ regs' = Effect(code[at].op, regs)
  /\ at' = at + 1
  /\ UNCHANGED code

LinkEarly ==
  /\ at \in DOMAIN code /\ code[at].op \in Linking
  /\ regs' = Linked(code[at].op, at, regs)
  /\ UNCHANGED <<code, at>>

Annulled == code[at].op \in Likely /\ ~Taken(code[at].op, regs)

CanTransfer ==
  /\ at \in DOMAIN code /\ code[at].op \in Transfers
  /\ Annulled \/ Wellformed(code, at)

StepTransfer ==
  /\ CanTransfer
  /\ LET i == code[at]
         linked == Linked(i.op, at, regs)
     IN /\ regs' = IF Annulled THEN linked ELSE Effect(code[at + 1].op, linked)
        /\ at' = Destination(i, at, regs)
  /\ UNCHANGED code

PathSteps == StepPlain \/ StepTransfer

PathNext == StepPlain \/ LinkEarly \/ StepTransfer

PathSpec == PathInit /\ [][PathNext]_pathVars

(* Weak fairness of PathSteps, its guard spelt out.                        *)
CanStep == CanTransfer \/ (at \in DOMAIN code /\ code[at].op \in Plain)

PathProgress == []<>(~CanStep) \/ []<><<PathSteps>>_pathVars
=============================================================================
