---------------------------- MODULE LlScCounter ----------------------------
(***************************************************************************)
(* The loop software is built on, run by every core over LlSc:             *)
(*                                                                         *)
(*     retry:  LL r, (counter);  ADDIU r, r, 1;  SC r, (counter);          *)
(*             BEQZ r, retry;  NOP                                         *)
(*                                                                         *)
(* with exceptions between any two of its instructions.  An exception does *)
(* not clear the lock; its handler may link another word, the way a kernel *)
(* takes a lock of its own, and leaves by ERET.  The handler saves the     *)
(* registers it uses.  Other cores run anything that leaves the counter    *)
(* alone.                                                                  *)
(***************************************************************************)
EXTENDS LlSc

CONSTANTS
  Counter,      \* the access to the counter,
  KernelWord,   \*   and to a word only handlers use
  Guests,       \* the cores that do not run the loop
  Increments,   \* the increments of each core
  MaxExceptions \* the exceptions each core takes, resets included

ASSUME CounterAssumption ==
  /\ {Counter, KernelWord} \subseteq Links
  /\ Touches(Counter) \cap Touches(KernelWord) = {}
  /\ Guests \subseteq Cores
  /\ Increments \in Nat \ {0} /\ MaxExceptions \in Nat

VARIABLES
  mem,          \* the counter
  reg,          \* the register r of a core
  pc,           \* the next instruction of a core's loop
  left,         \* the increments a core has left
  handler,      \* the next instruction of a core's handler
  exceptions    \* the exceptions a core has taken

program == <<mem, reg, pc, left, handler, exceptions>>
allVars == <<vars, program>>

InLoop(c, i) == pc[c] = i /\ handler[c] = "none"

DoLL(c) ==
  /\ InLoop(c, "LL")
  /\ LoadLinked(c, Counter)
  /\ reg' = [reg EXCEPT ![c] = mem]
  /\ pc' = [pc EXCEPT ![c] = "ADDIU"]
  /\ UNCHANGED <<mem, left, handler, exceptions>>

DoADDIU(c) ==
  /\ InLoop(c, "ADDIU")
  /\ Other(c)
  /\ reg' = [reg EXCEPT ![c] = @ + 1]
  /\ pc' = [pc EXCEPT ![c] = "SC"]
  /\ UNCHANGED <<mem, left, handler, exceptions>>

DoSC(c) ==
  /\ InLoop(c, "SC")
  /\ StoreConditional(c, Counter)
  /\ mem' = reg[c]
  /\ reg' = [reg EXCEPT ![c] = 1]
  /\ left' = [left EXCEPT ![c] = @ - 1]
  /\ pc' = [pc EXCEPT ![c] = "BEQZ"]
  /\ UNCHANGED <<handler, exceptions>>

DoSCFails(c) ==
  /\ InLoop(c, "SC") /\ c \notin lock
  /\ StoreConditionalFails(c)
  /\ reg' = [reg EXCEPT ![c] = 0]
  /\ pc' = [pc EXCEPT ![c] = "BEQZ"]
  /\ UNCHANGED <<mem, left, handler, exceptions>>

(* The branch, and its delay slot.                                         *)
DoBEQZ(c) ==
  /\ InLoop(c, "BEQZ")
  /\ Other(c)
  /\ pc' = [pc EXCEPT ![c] = "NOP"]
  /\ UNCHANGED <<mem, reg, left, handler, exceptions>>

DoNOP(c) ==
  /\ InLoop(c, "NOP")
  /\ Other(c)
  /\ pc' = [pc EXCEPT ![c] = IF reg[c] = 0 \/ left[c] > 0 THEN "LL" ELSE "done"]
  /\ UNCHANGED <<mem, reg, left, handler, exceptions>>

Done(c) ==
  /\ InLoop(c, "done")
  /\ Other(c)
  /\ UNCHANGED program

Exception(c) ==
  /\ c \notin Guests /\ handler[c] = "none" /\ exceptions[c] < MaxExceptions
  /\ Other(c)
  /\ \E h \in {"LL", "ERET"} : handler' = [handler EXCEPT ![c] = h]
  /\ exceptions' = [exceptions EXCEPT ![c] = @ + 1]
  /\ UNCHANGED <<mem, reg, pc, left>>

HandlerLL(c) ==
  /\ handler[c] = "LL"
  /\ LoadLinked(c, KernelWord)
  /\ \E h \in {"SC", "ERET"} : handler' = [handler EXCEPT ![c] = h]
  /\ UNCHANGED <<mem, reg, pc, left, exceptions>>

HandlerSC(c) ==
  /\ handler[c] = "SC"
  /\ \/ StoreConditional(c, KernelWord) /\ handler' = [handler EXCEPT ![c] = "ERET"]
     \/ /\ c \notin lock /\ StoreConditionalFails(c)
        /\ handler' = [handler EXCEPT ![c] = "LL"]
  /\ UNCHANGED <<mem, reg, pc, left, exceptions>>

HandlerERET(c) ==
  /\ handler[c] = "ERET"
  /\ Eret(c)
  /\ handler' = [handler EXCEPT ![c] = "none"]
  /\ UNCHANGED <<mem, reg, pc, left, exceptions>>

(* A core that runs something else: it links anything, stores to neither   *)
(* of the two words, and may be reset.                                     *)
Shared == Touches(Counter) \cup Touches(KernelWord)
Elsewhere == {a \in Accesses : Touches(a) \cap Shared = {}}

GuestStep(c) ==
  /\ c \in Guests
  /\ \/ \E a \in Links : LoadLinked(c, a)
     \/ \E a \in Links \cap Elsewhere : StoreConditional(c, a)
     \/ StoreConditionalFails(c)
     \/ \E a \in Elsewhere : Store(c, a)
     \/ \E words \in DiskBlocks : words \cap Shared = {} /\ DiskRead(c, words)
     \/ Eret(c)
     \/ Other(c)
  /\ UNCHANGED program

GuestReset(c) ==
  /\ c \in Guests /\ exceptions[c] < MaxExceptions
  /\ Reset(c)
  /\ exceptions' = [exceptions EXCEPT ![c] = @ + 1]
  /\ UNCHANGED <<mem, reg, pc, left, handler>>

ProgramInit ==
  /\ Init
  /\ mem = 0
  /\ reg = [c \in Cores |-> 0]
  /\ pc = [c \in Cores |-> IF c \in Guests THEN "guest" ELSE "LL"]
  /\ left = [c \in Cores |-> Increments]
  /\ handler = [c \in Cores |-> "none"]
  /\ exceptions = [c \in Cores |-> 0]

ProgramStep(c) ==
  \/ DoLL(c) \/ DoADDIU(c) \/ DoSC(c) \/ DoSCFails(c) \/ DoBEQZ(c) \/ DoNOP(c)
  \/ Done(c)
  \/ Exception(c) \/ HandlerLL(c) \/ HandlerSC(c) \/ HandlerERET(c)

ProgramNext == \E c \in Cores : ProgramStep(c) \/ GuestStep(c) \/ GuestReset(c)

ProgramSpec == ProgramInit /\ [][ProgramNext]_allVars

(* sim_instr goes round the cores until it is stopped.                     *)
FairProgramSpec == ProgramSpec /\ WF_allVars(ProgramNext)
-----------------------------------------------------------------------------
(* A core about to store that holds the lock of the counter has read the   *)
(* counter's present value, whoever ran and whatever was handled since.    *)
ReadIsCurrent ==
  \A c \in Cores :
    c \in lock /\ lockAddr[c] = Counter.pa =>
      /\ pc[c] = "ADDIU" => reg[c] = mem
      /\ pc[c] = "SC" => reg[c] = mem + 1

Atomic == INSTANCE AtomicCounter WITH count <- mem

(* No increment is lost or done twice: the loops implement a counter that  *)
(* is incremented atomically.                                              *)
Implements == Atomic!Spec

(* Under the round-robin of sim_instr the loops do not hinder each other   *)
(* for ever: every core gets its increments done.                          *)
AllFinish == <>(\A c \in Enabled \ Guests : left[c] = 0)
=============================================================================
