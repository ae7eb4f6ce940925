-------------------------- MODULE CpuControlProofs --------------------------
(***************************************************************************)
(* Proofs about CpuControl.  The core's levels, places and events hang     *)
(* together (IInv, inductive); from that every step of the core is a step  *)
(* of the program's path or leaves the program where it is.                *)
(***************************************************************************)
EXTENDS CpuControl, TLAPS

(* Each level runs its own code; above base level no branch, interrupt or  *)
(* WAIT is pending; an error handler that interrupted a handler goes back  *)
(* to it.                                                                  *)
Levels ==
  /\ Base => pc \in Text
  /\ exl /\ ~erl => pc \in Handlers
  /\ erl => /\ pc \in ErrHandlers /\ exc # "SYS"
            /\ IF exl THEN errPc \in Handlers ELSE errPc \in Text
  /\ delay = 1 \/ int \/ wait => Base
  /\ cche => ~ecce

IInv ==
  /\ TypeOK /\ DelayConsistent /\ ErrPcSafe /\ SyscallFresh /\ Levels

-----------------------------------------------------------------------------
(* Where the program may go stays in its text.                             *)
LEMMA TextClosed ==
  ASSUME NEW c \in Programs, NEW a \in Text, NEW r \in Regs, r.link \in Text
  PROVE  /\ c[a].op \in Plain => a + 1 \in Text
         /\ c[a].op \in Transfers =>
              /\ a + 1 \in Text /\ a + 2 \in Text
              /\ Target(c[a], r) \in Text
              /\ Destination(c[a], a, r) \in Text
              /\ Linked(c[a].op, a, r) \in Regs
              /\ Linked(c[a].op, a, r).link \in Text
  BY ProgramAssumption, AddrAssumption, SMT
  DEF Target, Destination, Linked, Regs, Operand

LEMMA EffectType ==
  ASSUME NEW r \in Regs, NEW op
  PROVE  Effect(op, r) \in Regs /\ Effect(op, r).link = r.link
<1>1. Up(r.s) \in Operand /\ (r.s = 0) \in BOOLEAN
  BY SMT DEF Up, Operand, Regs
<1>2. [r EXCEPT !.s = Up(r.s)] \in Regs /\ [r EXCEPT !.cc = (r.s = 0)] \in Regs
  BY <1>1, Zenon DEF Regs
<1>3. /\ [r EXCEPT !.s = Up(r.s)].link = r.link
      /\ [r EXCEPT !.cc = (r.s = 0)].link = r.link
  BY SMT DEF Regs
<1> QED BY <1>2, <1>3, SMT DEF Effect

(* A linking transfer changes nothing that decides where it goes.          *)
LEMMA LinkedSame ==
  ASSUME NEW r \in Regs, NEW a \in Nat, NEW i
  PROVE  /\ Taken(i.op, Linked(i.op, a, r)) = Taken(i.op, r)
         /\ Linked(i.op, a, Linked(i.op, a, r)) = Linked(i.op, a, r)
         /\ i.op = "JR" => Linked(i.op, a, r) = r
         /\ Target(i, Linked(i.op, a, r)) = Target(i, r)
<1> DEFINE L == Linked(i.op, a, r)
<1>1. L.s = r.s /\ L.cc = r.cc
  BY SMT DEF Linked, Regs
<1>2. Taken(i.op, L) = Taken(i.op, r)
  BY <1>1, SMT DEF Taken, CompareTaken, SignTaken, RegimmTaken, FpTaken
<1>3. Linked(i.op, a, L) = L
  BY SMT DEF Linked, Regs
<1>4. i.op = "JR" => L = r
  BY SMT DEF Linked, Linking
<1>5. Target(i, L) = Target(i, r)
  BY <1>4, SMT DEF Target
<1> QED BY <1>2, <1>3, <1>4, <1>5
-----------------------------------------------------------------------------
LEMMA VectorPlaces ==
  ASSUME NEW b \in BOOLEAN
  PROVE  /\ Vectors[<<"CERR", b>>] \in ErrHandlers
         /\ \A o \in {"GEN", "INT", "TLB", "XTLB"} : Vectors[<<o, b>>] \in Handlers
         /\ Vectors[<<"CERR", b>>] \notin General
  BY AddrAssumption, Zenon DEF Offsets, General

(* What a handler's instructions are, and where they lead.                 *)
LEMMA HandlerCode ==
  ASSUME NEW c \in Programs
  PROVE  /\ \A a \in Handlers :
              /\ c[a].op \in Kernel
              /\ c[a].op # "ERET" => a + 1 \in Handlers /\ a + 1 \notin General
              /\ c[a].op = "ADVANCE" => a \in General
         /\ \A a \in ErrHandlers :
              /\ c[a].op \in {"NOP", "CLEARBEV", "ERET"}
              /\ c[a].op # "ERET" => a + 1 \in ErrHandlers
         /\ \A a \in Text : c[a].op \in Plain \cup Transfers \cup {"RESERVED"}
  BY ProgramAssumption, Zenon

LEMMA InitInv == Init => IInv
<1> SUFFICES ASSUME Init PROVE IInv
  OBVIOUS
<1> USE AddrAssumption DEF Init
<1>1. TypeOK
  <2>1. Flags
    BY Zenon DEF Flags
  <2>2. regs \in Regs /\ regs.link = Start
    BY SMT DEF Regs, Operand
  <2>3. Places
    BY <2>2, SMT DEF Places, Excs
  <2> QED BY <2>1, <2>3 DEF TypeOK
<1> QED BY <1>1, SMT DEF IInv, DelayConsistent, ErrPcSafe, SyscallFresh, Levels, Base

(* A trap saves where the program is to resume, unless that is saved.      *)
LEMMA TrapInv ==
  ASSUME IInv, Runs, ~erl, NEW cause \in {"TLB", "RI", "SYS"}, NEW refill \in BOOLEAN,
         Trap(cause, refill),
         cause = "SYS" => Executes("SYSCALL") /\ Base
  PROVE  IInv' /\ ResumeAt' = ResumeAt
<1> USE DEF IInv, Trap, Runs
<1>1. /\ pc' \in Handlers /\ exl' /\ ~erl' /\ delay' = 0
  <2>1. bev \in BOOLEAN
    BY DEF TypeOK, Flags
  <2> QED BY <2>1, VectorPlaces, Zenon
<1>2. ResumeAt' = ResumeAt
  BY <1>1, SMT DEF ResumeAt, TypeOK, Places
<1>3. ResumeAt \in Text
  BY AddrAssumption, SMT DEF ResumeAt, TypeOK, Places, Levels, DelayConsistent, Base
<1>4. TypeOK'
  <2>1. epc' \in Text
    BY <1>1, <1>2, <1>3, SMT DEF ResumeAt
  <2>2. (delay = 1) \in BOOLEAN
    OBVIOUS
  <2>3. Flags'
    BY <2>2, Zenon DEF TypeOK, Flags
  <2>4. Places'
    BY <1>1, <2>1, AddrAssumption, SMT DEF TypeOK, Places, Excs
  <2> QED BY <2>3, <2>4 DEF TypeOK
<1>5. DelayConsistent'
  BY <1>1, SMT DEF DelayConsistent, TypeOK, Places
<1>6. ErrPcSafe' /\ Levels'
  BY <1>1, AddrAssumption, SMT DEF ErrPcSafe, Levels, Base, TypeOK, Places
<1>7. SyscallFresh'
  <2> SUFFICES ASSUME cause = "SYS" PROVE SyscallFresh'
    BY SMT DEF SyscallFresh
  <2>1. epc' = (IF delay = 1 THEN pc - 1 ELSE pc) /\ bd' = (delay = 1)
    BY SMT DEF Base
  <2>2. pc \in Nat /\ code[pc].op = "SYSCALL" /\ ~nullify
    BY AddrAssumption, SMT DEF Executes, Fetched, TypeOK, Places
  <2>3. CASE delay = 1
    <3>a. bd'
      BY <2>1, <2>3, Zenon
    <3>b. epc' = pc - 1 /\ (pc - 1) + 1 = pc
      BY <2>1, <2>2, <2>3, SMT
    <3>c. /\ code[pc - 1].op \in Transfers
          /\ regs = Linked(code[pc - 1].op, pc - 1, regs)
          /\ ~ (code[pc - 1].op \in Likely /\ ~Taken(code[pc - 1].op, regs))
      BY <2>2, <2>3, Zenon DEF DelayConsistent
    <3> QED BY <2>2, <3>a, <3>b, <3>c, Zenon DEF SyscallFresh
  <2>4. CASE delay # 1
    <3>1. ~bd' /\ epc' = pc
      BY <2>1, <2>4, Zenon
    <3> QED BY <2>2, <3>1, Zenon DEF SyscallFresh
  <2> QED BY <2>3, <2>4
<1> QED BY <1>2, <1>4, <1>5, <1>6, <1>7
-----------------------------------------------------------------------------
(* The instructions of the path are those of the core.                     *)
LEMMA SameSets ==
  /\ Path!Transfers = Transfers /\ Path!Plain = Plain
  /\ Path!Likely = Likely /\ Path!Linking = Linking
  BY DEF Path!Transfers, Path!Jumps, Path!Compares, Path!Signs, Path!Regimms,
         Path!FpBranches, Path!Plain, Path!Likely, Path!Linking,
         Transfers, Jumps, Compares, Signs, Regimms, FpBranches, Plain, Likely, Linking

LEMMA SameTaken ==
  ASSUME NEW op, NEW r
  PROVE  Path!Taken(op, r) = Taken(op, r)
  BY DEF Path!Taken, Path!CompareTaken, Path!SignTaken, Path!RegimmTaken,
         Path!FpTaken, Path!Jumps, Taken, CompareTaken, SignTaken, RegimmTaken,
         FpTaken, Jumps

LEMMA SameOps ==
  ASSUME NEW i, NEW a, NEW r
  PROVE  /\ Path!Linked(i.op, a, r) = Linked(i.op, a, r)
         /\ Path!Effect(i.op, r) = Effect(i.op, r)
         /\ Path!Destination(i, a, r) = Destination(i, a, r)
<1>1. Path!Linked(i.op, a, r) = Linked(i.op, a, r)
  BY SameSets DEF Path!Linked, Linked
<1>2. Path!Effect(i.op, r) = Effect(i.op, r)
  BY DEF Path!Effect, Effect, Path!Up, Up
<1>3. Path!Destination(i, a, r) = Destination(i, a, r)
  BY SameTaken DEF Path!Destination, Destination, Path!Target, Target
<1> QED BY <1>1, <1>2, <1>3

(* A step of the program's path, or none.                                  *)
OnPath == [Path!PathNext]_(Path!pathVars)

Stays == code' = code /\ ResumeAt' = ResumeAt /\ regs' = regs

LEMMA StaysOnPath == Stays => OnPath
  BY DEF Stays, OnPath, Path!pathVars

LEMMA EventsInv ==
  ASSUME IInv, InterruptArrives \/ CacheErrorArrives
  PROVE  IInv' /\ Stays
<1> USE DEF IInv, InterruptArrives, CacheErrorArrives, flow, level, saved
<1>0. Flags' /\ Places'
  <2>1. Flags'
    <3>1. /\ UNCHANGED <<taken, nullify, exl, erl, bev, iv, bd>>
          /\ int' \in BOOLEAN /\ cche' \in BOOLEAN /\ wait' \in BOOLEAN
          /\ ecce' \in BOOLEAN
      BY Zenon DEF TypeOK, Flags
    <3> QED BY <3>1, Zenon DEF TypeOK, Flags
  <2>2. UNCHANGED <<code, pc, delay, delayPc, epc, errPc, exc, regs>>
    OBVIOUS
  <2>3. Places'
    BY <2>2, Zenon DEF TypeOK, Places
  <2> QED BY <2>1, <2>3
<1>1. TypeOK'
  BY <1>0 DEF TypeOK, Places
<1>2. DelayConsistent' /\ SyscallFresh'
  BY SMT DEF DelayConsistent, SyscallFresh, Base
<1>3. ErrPcSafe' /\ Levels'
  BY SMT DEF ErrPcSafe, Levels, Base
<1>4. Stays
  BY SMT DEF Stays, ResumeAt
<1> QED BY <1>1, <1>2, <1>3, <1>4

LEMMA CacheErrorInv ==
  ASSUME IInv, TakeCacheError
  PROVE  IInv' /\ Stays
<1> USE DEF IInv, TakeCacheError
<1>0. bev \in BOOLEAN
  BY DEF TypeOK, Flags
<1>1. pc' \in ErrHandlers /\ erl' /\ delay' = 0 /\ exl' = exl /\ ~erl
  BY <1>0, VectorPlaces, Zenon DEF ErrPcSafe
<1>2. errPc' = (IF delay # 0 THEN pc - 1 ELSE pc)
  OBVIOUS
<1>3. IF exl THEN errPc' \in Handlers ELSE errPc' \in Text
  BY <1>1, <1>2, SMT DEF Levels, DelayConsistent, Base, TypeOK, Places
<1>4. TypeOK'
  <2>1. (delay # 0) \in BOOLEAN
    OBVIOUS
  <2>2. Flags'
    BY <2>1, Zenon DEF TypeOK, Flags
  <2>3. Places'
    BY <1>1, <1>3, AddrAssumption, SMT DEF TypeOK, Places, Excs
  <2> QED BY <2>2, <2>3 DEF TypeOK
<1>5. DelayConsistent' /\ SyscallFresh'
  BY <1>1, SMT DEF DelayConsistent, SyscallFresh
<1>6. ErrPcSafe' /\ Levels'
  BY <1>1, <1>3, SMT DEF ErrPcSafe, Levels, Base, TypeOK, Places
<1>7. Stays
  BY <1>1, <1>2, SMT DEF Stays, ResumeAt, TypeOK, Places
<1> QED BY <1>4, <1>5, <1>6, <1>7

LEMMA InterruptInv ==
  ASSUME IInv, TakeInterrupt
  PROVE  IInv' /\ Stays
<1> USE DEF IInv, TakeInterrupt
<1>0. bev \in BOOLEAN /\ iv \in BOOLEAN
  BY DEF TypeOK, Flags
<1>1. pc' \in Handlers /\ exl' /\ ~erl' /\ delay' = 0 /\ Base
  BY <1>0, VectorPlaces, Zenon DEF Levels, Base
<1>2. epc' = (IF delay # 0 THEN pc - 1 ELSE pc)
  OBVIOUS
<1>3. epc' \in Text
  BY <1>1, <1>2, SMT DEF Levels, DelayConsistent, TypeOK, Places
<1>4. TypeOK'
  <2>1. (delay # 0) \in BOOLEAN
    OBVIOUS
  <2>2. Flags'
    BY <2>1, Zenon DEF TypeOK, Flags
  <2>3. Places'
    BY <1>1, <1>3, AddrAssumption, SMT DEF TypeOK, Places, Excs
  <2> QED BY <2>2, <2>3 DEF TypeOK
<1>5. DelayConsistent' /\ SyscallFresh'
  BY <1>1, SMT DEF DelayConsistent, SyscallFresh
<1>6. ErrPcSafe' /\ Levels'
  BY <1>1, SMT DEF ErrPcSafe, Levels, Base, TypeOK, Places
<1>7. Stays
  BY <1>1, <1>2, SMT DEF Stays, ResumeAt, TypeOK, Places, Base
<1> QED BY <1>4, <1>5, <1>6, <1>7

(* The four ways to trap.                                                  *)
LEMMA TrapsInv ==
  ASSUME IInv, FetchFault \/ LoadFault \/ TransferInSlot \/ Reserved \/ Syscall
  PROVE  IInv' /\ Stays
<1>1. CASE FetchFault
  <2>1. ~erl
    BY <1>1, AddrAssumption, SMT DEF FetchFault, IInv, Levels
  <2>2. PICK refill \in BOOLEAN : Trap("TLB", refill)
    BY <1>1 DEF FetchFault
  <2> QED BY <1>1, <2>1, <2>2, TrapInv DEF FetchFault, Trap, Stays
<1>2. CASE LoadFault
  <2>1. ~erl
    BY <1>2, HandlerCode, SMT DEF LoadFault, Executes, Fetched, IInv, Levels, TypeOK, Places
  <2>2. PICK refill \in BOOLEAN : Trap("TLB", refill)
    BY <1>2 DEF LoadFault
  <2> QED BY <1>2, <2>1, <2>2, TrapInv DEF LoadFault, Executes, Trap, Stays
<1>3. CASE TransferInSlot
  <2>1. ~erl
    BY <1>3, HandlerCode, SMT
    DEF TransferInSlot, Fetched, IInv, Levels, TypeOK, Places, Transfers, Jumps, Compares,
        Signs, Regimms, FpBranches
  <2> QED BY <1>3, <2>1, TrapInv DEF TransferInSlot, Trap, Stays
<1>4. CASE Reserved
  <2>1. ~erl
    BY <1>4, HandlerCode, SMT DEF Reserved, Executes, Fetched, IInv, Levels, TypeOK, Places
  <2> QED BY <1>4, <2>1, TrapInv DEF Reserved, Executes, Trap, Stays
<1>5. CASE Syscall
  <2>1. ~erl
    BY <1>5, HandlerCode, SMT DEF Syscall, Executes, Fetched, IInv, Levels, TypeOK, Places
  <2>2. Base
    BY <1>5, <2>1, HandlerCode, SMT
    DEF Syscall, Executes, Fetched, IInv, Levels, TypeOK, Places, Base, Kernel
  <2> QED BY <1>5, <2>1, <2>2, TrapInv DEF Syscall, Executes, Trap, Stays
<1> QED BY <1>1, <1>2, <1>3, <1>4, <1>5

LEMMA NullifyInv ==
  ASSUME IInv, Nullify
  PROVE  IInv' /\ OnPath
<1> USE DEF IInv, Nullify, Runs
<1>0. delay = 1
  BY SMT DEF DelayConsistent, TypeOK, Places
<1>1. /\ Base /\ ~taken /\ pc - 1 \in Text
      /\ code[pc - 1].op \in Likely /\ code[pc - 1].op \in Transfers
      /\ ~Taken(code[pc - 1].op, regs)
      /\ regs = Linked(code[pc - 1].op, pc - 1, regs)
  BY <1>0, Zenon DEF DelayConsistent
<1>2. pc' = (pc - 1) + 2 /\ pc' \in Text /\ pc \in Text /\ (pc - 1) + 1 = pc
  BY <1>1, AddrAssumption, TextClosed, SMT DEF TypeOK, Places, level, Levels, Base
<1>3. TypeOK'
  <2>1. Flags'
    BY Zenon DEF TypeOK, Flags, level, saved, events
  <2>2. Places'
    BY <1>2, AddrAssumption, SMT DEF TypeOK, Places, level, saved, events
  <2> QED BY <2>1, <2>2 DEF TypeOK
<1>4. DelayConsistent' /\ SyscallFresh'
  BY <1>1, SMT DEF DelayConsistent, SyscallFresh, level, Base
<1>5. ErrPcSafe' /\ Levels'
  BY <1>1, <1>2, SMT DEF ErrPcSafe, Levels, Base, level, saved, events
<1>6. ResumeAt = pc - 1 /\ ResumeAt' = pc'
  BY <1>0, <1>1, SMT DEF ResumeAt, Base, level
<1>7. DOMAIN code = Addr /\ pc - 1 \in Addr
  <2>1. code \in [Addr -> Instr] /\ Text \subseteq Addr
    BY AddrAssumption, ProgramAssumption, Zenon DEF TypeOK, Places
  <2> QED BY <1>1, <2>1, Zenon
<1>8. ResumeAt' = Destination(code[pc - 1], pc - 1, regs)
  BY <1>1, <1>2, <1>6, SMT DEF Destination
<1>9. Path!StepTransfer
  <2>1. Path!Annulled
    BY <1>1, <1>6, SameSets, SameTaken, Zenon DEF Path!Annulled
  <2>2. Path!CanTransfer
    BY <1>1, <1>6, <1>7, <2>1, SameSets, Zenon DEF Path!CanTransfer
  <2>3. regs' = regs /\ code' = code
    BY SMT DEF level, saved, events
  <2> QED BY <1>1, <1>6, <1>8, <2>1, <2>2, <2>3, SameOps, Zenon DEF Path!StepTransfer
<1> QED BY <1>3, <1>4, <1>5, <1>9 DEF OnPath, Path!PathNext
LEMMA TransferInv ==
  ASSUME IInv, Transfer
  PROVE  IInv' /\ OnPath
<1> USE DEF IInv, Transfer, Runs, Fetched
<1> DEFINE i == code[pc]
<1>0. code \in Programs /\ pc \in Addr /\ regs \in Regs /\ regs.link \in Text
  BY Zenon DEF TypeOK, Places
<1>1. Base /\ pc \in Text
  BY <1>0, HandlerCode, SMT
  DEF Levels, Base, Kernel, Transfers, Jumps, Compares, Signs, Regimms, FpBranches
<1>2. /\ pc' \in Text /\ pc' - 1 = pc /\ Target(i, regs) \in Text
      /\ regs' \in Regs /\ regs'.link \in Text
  BY <1>0, <1>1, TextClosed, AddrAssumption, SMT
<1>3. /\ code' = code /\ exl' = exl /\ erl' = erl /\ delay' = 1
      /\ bev' = bev /\ iv' = iv /\ epc' = epc /\ errPc' = errPc /\ bd' = bd /\ exc' = exc
      /\ int' = int /\ cche' = cche /\ wait' = wait /\ ecce' = ecce
  BY Zenon DEF level, saved, events
<1>4. /\ Taken(i.op, regs') = Taken(i.op, regs)
      /\ Linked(i.op, pc, regs') = regs'
      /\ Target(i, regs') = Target(i, regs)
  BY <1>0, <1>1, LinkedSame, AddrAssumption, SMT
<1>5. Taken(i.op, regs) \in BOOLEAN
  BY DEF Taken, CompareTaken, SignTaken, RegimmTaken, FpTaken
<1>6. TypeOK'
  <2>1. Flags'
    BY <1>3, <1>5, Zenon DEF TypeOK, Flags
  <2>2. Places'
    BY <1>1, <1>2, <1>3, AddrAssumption, SMT DEF TypeOK, Places
  <2> QED BY <2>1, <2>2 DEF TypeOK
<1>7. DelayConsistent'
  <2>1. delay' = 1 /\ delay' # 0 /\ code'[pc' - 1] = i
    BY <1>2, <1>3
  <2>2. Base' /\ pc' - 1 \in Text
    BY <1>1, <1>2, <1>3, Zenon DEF Base
  <2>3. /\ taken' = Taken(i.op, regs') /\ (taken' => delayPc' = Target(i, regs'))
        /\ nullify' = (i.op \in Likely /\ ~taken')
        /\ regs' = Linked(i.op, pc' - 1, regs')
    BY <1>2, <1>4, Zenon
  <2> QED BY <2>1, <2>2, <2>3, Zenon DEF DelayConsistent
<1>8. ErrPcSafe' /\ SyscallFresh'
  BY <1>1, <1>3, Zenon DEF ErrPcSafe, SyscallFresh, Base
<1>9. Levels'
  BY <1>1, <1>2, <1>3, Zenon DEF Levels, Base
<1>10. ResumeAt = pc /\ ResumeAt' = pc
  BY <1>1, <1>2, <1>3, SMT DEF ResumeAt, Base
<1>11. OnPath
  <2>1. pc \in DOMAIN code
    <3>1. code \in [Addr -> Instr]
      BY <1>0, ProgramAssumption, Zenon
    <3> QED BY <1>0, <3>1, Zenon
  <2>2. CASE i.op \in Linking
    <3>1. Path!LinkEarly
      BY <1>3, <1>10, <2>1, <2>2, SameSets, SameOps, Zenon DEF Path!LinkEarly
    <3> QED BY <3>1, Zenon DEF OnPath, Path!PathNext
  <2>3. CASE i.op \notin Linking
    BY <1>3, <1>10, <2>3, StaysOnPath, Zenon DEF Stays, Linked
  <2> QED BY <2>2, <2>3
<1> QED BY <1>6, <1>7, <1>8, <1>9, <1>11

(* An instruction of the program that neither branches nor traps, alone or *)
(* in the slot of a branch.                                                *)
LEMMA PlainInv ==
  ASSUME IInv, Runs, ~nullify, Fetched.op \in Plain, Advance(pc + 1),
         regs' = Effect(Fetched.op, regs), wait' \in BOOLEAN,
         UNCHANGED <<code, level, saved, int, cche, ecce>>
  PROVE  IInv' /\ OnPath
<1> USE DEF IInv, Runs, Fetched, Advance
<1> DEFINE op == code[pc].op
<1>0. /\ code \in Programs /\ pc \in Addr /\ regs \in Regs /\ regs.link \in Text
      /\ delay \in {0, 1} /\ delayPc \in Text
  BY SMT DEF TypeOK, Places
<1>1. Base /\ pc \in Text
  BY <1>0, HandlerCode, SMT DEF Levels, Base, Kernel, Plain
<1>2. pc + 1 \in Text /\ regs' \in Regs /\ regs'.link \in Text
  BY <1>0, <1>1, TextClosed, EffectType, Zenon
<1>3. /\ code' = code /\ exl' = exl /\ erl' = erl /\ delay' = 0
      /\ bev' = bev /\ iv' = iv /\ epc' = epc /\ errPc' = errPc /\ bd' = bd /\ exc' = exc
      /\ int' = int /\ cche' = cche /\ ecce' = ecce
      /\ delayPc' = delayPc /\ nullify' = nullify
  BY <1>0, SMT DEF level, saved
<1>4. pc' \in Text
  BY <1>0, <1>2, Zenon
<1>5. ~taken'
  BY <1>0, Zenon DEF DelayConsistent
<1>6. TypeOK'
  <2>1. Flags'
    BY <1>3, <1>5, Zenon DEF TypeOK, Flags
  <2>2. Places'
    BY <1>2, <1>3, <1>4, AddrAssumption, SMT DEF TypeOK, Places
  <2> QED BY <2>1, <2>2 DEF TypeOK
<1>7. DelayConsistent'
  <2>1. delay' # 1 /\ delay' = 0
    BY <1>3, SMT
  <2>2. ~taken' /\ ~nullify'
    BY <1>3, <1>5, SMT
  <2> QED BY <2>1, <2>2, SMT DEF DelayConsistent
<1>8. ErrPcSafe' /\ SyscallFresh'
  BY <1>1, <1>3, Zenon DEF ErrPcSafe, SyscallFresh, Base
<1>9. Levels'
  <2>1. Base' /\ ~exl' /\ ~erl'
    BY <1>1, <1>3, Zenon DEF Base
  <2> QED BY <1>3, <1>4, <2>1, SMT DEF Levels
<1>10. ResumeAt' = pc' /\ ResumeAt = IF delay = 1 THEN pc - 1 ELSE pc
  BY <1>1, <1>3, SMT DEF ResumeAt, Base
<1>11. DOMAIN code = Addr /\ Text \subseteq Addr
  <2>1. code \in [Addr -> Instr]
    BY <1>0, ProgramAssumption, Zenon
  <2> QED BY <2>1, AddrAssumption, Zenon
<1>12. CASE delay = 0
  <2>1. ResumeAt = pc /\ ResumeAt' = pc + 1
    BY <1>10, <1>12, SMT
  <2>2. Path!StepPlain
    BY <1>1, <1>3, <1>11, <2>1, SameSets, SameOps, Zenon DEF Path!StepPlain
  <2> QED BY <1>6, <1>7, <1>8, <1>9, <2>2, Zenon DEF OnPath, Path!PathNext
<1>13. CASE delay = 1
  <2> DEFINE b == code[pc - 1]
  <2>1. /\ pc - 1 \in Text /\ b.op \in Transfers
        /\ taken = Taken(b.op, regs) /\ (taken => delayPc = Target(b, regs))
        /\ ~ (b.op \in Likely /\ ~Taken(b.op, regs))
        /\ regs = Linked(b.op, pc - 1, regs)
    BY <1>13, Zenon DEF DelayConsistent
  <2>2. ResumeAt = pc - 1 /\ ResumeAt' = pc' /\ (pc - 1) + 1 = pc /\ (pc - 1) + 2 = pc + 1
    BY <1>0, <1>10, <1>13, AddrAssumption, SMT
  <2>3. pc' = Destination(b, pc - 1, regs)
    BY <1>13, <2>1, <2>2, Zenon DEF Destination
  <2>4. ~Path!Annulled
    BY <2>1, <2>2, SameSets, SameTaken, Zenon DEF Path!Annulled
  <2>5. Path!CanTransfer
    BY <1>1, <1>11, <2>1, <2>2, SameSets, Zenon DEF Path!CanTransfer, Path!Wellformed
  <2>6. Path!StepTransfer
    BY <1>3, <2>1, <2>2, <2>3, <2>4, <2>5, SameOps, Zenon DEF Path!StepTransfer
  <2> QED BY <1>6, <1>7, <1>8, <1>9, <2>6, Zenon DEF OnPath, Path!PathNext
<1> QED BY <1>0, <1>12, <1>13, Zenon

(* The program's own instructions.                                         *)
LEMMA OperateInv ==
  ASSUME IInv, NEW op \in {"ADDU", "CMP", "LW"}, Operate(op)
  PROVE  IInv' /\ OnPath
<1>1. Runs /\ ~nullify /\ Fetched.op \in Plain /\ Advance(pc + 1)
  BY SMT DEF Operate, Executes, Plain
<1>2. regs' = Effect(Fetched.op, regs)
  BY Zenon DEF Operate, Executes
<1>3. UNCHANGED <<code, level, saved, int, cche, ecce>> /\ wait' \in BOOLEAN
  BY Zenon DEF Operate, events, IInv, TypeOK, Flags
<1> QED BY <1>1, <1>2, <1>3, PlainInv

LEMMA WaitInv ==
  ASSUME IInv, Wait
  PROVE  IInv' /\ OnPath
<1>1. Runs /\ ~nullify /\ Fetched.op \in Plain /\ Advance(pc + 1)
  BY SMT DEF Wait, Executes, Plain
<1>2. regs' = Effect(Fetched.op, regs)
  BY SMT DEF Wait, Executes, Effect
<1>3. UNCHANGED <<code, level, saved, int, cche, ecce>> /\ wait' \in BOOLEAN
  BY Zenon DEF Wait
<1> QED BY <1>1, <1>2, <1>3, PlainInv

LEMMA EretInv ==
  ASSUME IInv, Eret
  PROVE  IInv' /\ Stays
<1> USE DEF IInv, Eret, Executes, Runs, Fetched
<1>0. /\ code \in Programs /\ pc \in Addr /\ delay \in {0, 1}
      /\ epc \in Text /\ errPc \in Text \cup Handlers
  BY SMT DEF TypeOK, Places
<1>1. ~Base
  BY <1>0, HandlerCode, SMT
  DEF Levels, Base, Plain, Transfers, Jumps, Compares, Signs, Regimms, FpBranches
<1>2. delay = 0 /\ ~int /\ ~wait /\ ~cche
  BY <1>0, <1>1, SMT DEF Levels
<1>3. /\ code' = code /\ delay' = delay /\ taken' = taken /\ delayPc' = delayPc
      /\ nullify' = nullify /\ bev' = bev /\ iv' = iv
      /\ epc' = epc /\ errPc' = errPc /\ bd' = bd /\ exc' = exc
      /\ int' = int /\ cche' = cche /\ wait' = wait /\ ecce' = ecce /\ regs' = regs
  BY Zenon DEF level, saved, events
<1>4. CASE erl
  <2>1. pc' = errPc /\ ~erl' /\ exl' = exl
    BY <1>4, Zenon
  <2>2. IF exl THEN pc' \in Handlers ELSE pc' \in Text
    BY <1>4, <2>1, Zenon DEF Levels
  <2>3. TypeOK'
    <3>1. Flags'
      BY <1>3, <2>1, Zenon DEF TypeOK, Flags
    <3>2. Places'
      BY <1>3, <2>1, <2>2, AddrAssumption, SMT DEF TypeOK, Places
    <3> QED BY <3>1, <3>2 DEF TypeOK
  <2>4. DelayConsistent'
    BY <1>2, <1>3, SMT DEF DelayConsistent
  <2>5. ErrPcSafe' /\ SyscallFresh'
    BY <1>3, <1>4, <2>1, Zenon DEF ErrPcSafe, SyscallFresh, Levels
  <2>6. Levels'
    BY <1>2, <1>3, <2>1, <2>2, SMT DEF Levels, Base
  <2>7. Stays
    BY <1>2, <1>3, <1>4, <2>1, SMT DEF Stays, ResumeAt
  <2> QED BY <2>3, <2>4, <2>5, <2>6, <2>7
<1>5. CASE ~erl
  <2>1. pc' = epc /\ ~exl' /\ ~erl' /\ exl
    BY <1>1, <1>5, Zenon DEF Base
  <2>3. TypeOK'
    <3>1. Flags'
      BY <1>3, <2>1, Zenon DEF TypeOK, Flags
    <3>2. Places'
      BY <1>3, <2>1, AddrAssumption, SMT DEF TypeOK, Places
    <3> QED BY <3>1, <3>2 DEF TypeOK
  <2>4. DelayConsistent'
    BY <1>2, <1>3, SMT DEF DelayConsistent
  <2>5. ErrPcSafe' /\ SyscallFresh'
    BY <2>1, Zenon DEF ErrPcSafe, SyscallFresh
  <2>6. Levels'
    BY <1>0, <1>2, <1>3, <2>1, SMT DEF Levels, Base
  <2>7. Stays
    BY <1>2, <1>3, <2>1, SMT DEF Stays, ResumeAt
  <2> QED BY <2>3, <2>4, <2>5, <2>6, <2>7
<1> QED BY <1>4, <1>5

(* An instruction of a handler, wherever it puts epc.                      *)
LEMMA HandlerInv ==
  ASSUME IInv, Runs, ~nullify, Fetched.op \in Kernel \ {"ERET"}, Advance(pc + 1),
         bev' \in BOOLEAN, ecce' \in BOOLEAN, ecce' => ecce \/ ~erl, epc' \in Text,
         UNCHANGED <<code, exl, erl, iv, errPc, bd, exc, int, cche, wait, regs>>
  PROVE  IInv' /\ ~Base /\ pc \in Handlers \cup ErrHandlers
               /\ (ResumeAt' = ResumeAt \/ (exl /\ epc' # epc))
<1> USE DEF IInv, Runs, Fetched, Advance
<1>0. code \in Programs /\ pc \in Addr /\ delay \in {0, 1}
  BY SMT DEF TypeOK, Places
<1>1. ~Base
  BY <1>0, HandlerCode, SMT
  DEF Levels, Base, Plain, Transfers, Jumps, Compares, Signs, Regimms, FpBranches, Kernel
<1>2. delay = 0 /\ ~taken /\ ~int /\ ~wait /\ ~cche
  BY <1>0, <1>1, SMT DEF Levels, DelayConsistent
<1>3. /\ code' = code /\ delay' = 0 /\ taken' = taken /\ delayPc' = delayPc
      /\ nullify' = nullify /\ exl' = exl /\ erl' = erl /\ iv' = iv
      /\ errPc' = errPc /\ bd' = bd /\ exc' = exc
      /\ int' = int /\ cche' = cche /\ wait' = wait /\ regs' = regs /\ pc' = pc + 1
  BY <1>2, SMT
<1>4. /\ erl => pc \in ErrHandlers /\ pc' \in ErrHandlers
      /\ ~erl => exl /\ pc \in Handlers /\ pc' \in Handlers /\ pc' \notin General
  BY <1>0, <1>1, <1>3, HandlerCode, SMT DEF Levels, Base
<1>5. TypeOK'
  <2>1. Flags'
    BY <1>3, Zenon DEF TypeOK, Flags
  <2>2. Places'
    BY <1>3, <1>4, AddrAssumption, SMT DEF TypeOK, Places
  <2> QED BY <2>1, <2>2 DEF TypeOK
<1>6. DelayConsistent'
  BY <1>2, <1>3, SMT DEF DelayConsistent
<1>7. ErrPcSafe' /\ SyscallFresh'
  <2>1. ErrPcSafe'
    BY <1>2, <1>3, SMT DEF ErrPcSafe
  <2>2. SyscallFresh'
    BY <1>3, <1>4, SMT DEF SyscallFresh, General
  <2> QED BY <2>1, <2>2
<1>8. Levels'
  BY <1>1, <1>2, <1>3, <1>4, SMT DEF Levels, Base
<1>9. ResumeAt' = ResumeAt \/ (exl /\ epc' # epc)
  BY <1>1, <1>3, SMT DEF ResumeAt, Base
<1> QED BY <1>1, <1>4, <1>5, <1>6, <1>7, <1>8, <1>9

LEMMA HandlersInv ==
  ASSUME IInv, HandlerNop \/ Arm \/ ClearBev
  PROVE  IInv' /\ Stays
<1> USE DEF level, saved, events
<1>0. epc \in Text /\ bev \in BOOLEAN /\ ecce \in BOOLEAN
  BY Zenon DEF IInv, TypeOK, Places, Flags
<1>1. /\ Runs /\ ~nullify /\ Fetched.op \in Kernel \ {"ERET"} /\ Advance(pc + 1)
  BY SMT DEF HandlerNop, Arm, ClearBev, Executes, Kernel
<1>2. /\ UNCHANGED <<code, exl, erl, iv, errPc, bd, exc, int, cche, wait, regs>>
      /\ epc' = epc
  BY SMT DEF HandlerNop, Arm, ClearBev
<1>3. bev' \in BOOLEAN /\ ecce' \in BOOLEAN
  BY <1>0, Zenon DEF HandlerNop, Arm, ClearBev
<1>4. ecce' => ecce \/ ~erl
  <2>1. CASE Arm
    BY <2>1, HandlerCode, SMT DEF Arm, Executes, Fetched, IInv, Levels, TypeOK, Places
  <2>2. CASE HandlerNop \/ ClearBev
    <3>1. ecce' = ecce
      BY <2>2, SMT DEF HandlerNop, ClearBev
    <3> QED BY <3>1
  <2> QED BY <2>1, <2>2
<1>5. IInv' /\ ResumeAt' = ResumeAt
  BY <1>0, <1>1, <1>2, <1>3, <1>4, HandlerInv
<1> QED BY <1>2, <1>5 DEF Stays

(* The handler of a system call moves the program past the call.           *)
LEMMA PastSyscallInv ==
  ASSUME IInv, PastSyscall
  PROVE  IInv' /\ OnPath
<1> USE DEF PastSyscall, level, events
<1> DEFINE i == code[epc]
<1>0. /\ code \in Programs /\ epc \in Text /\ regs \in Regs /\ regs.link \in Text
  BY Zenon DEF IInv, TypeOK, Places
<1>1. Runs /\ ~nullify /\ Fetched.op = "ADVANCE" /\ Advance(pc + 1)
  BY DEF Executes
<1>2. /\ UNCHANGED <<code, exl, erl, iv, errPc, bd, exc, int, cche, wait, regs>>
      /\ bev' = bev /\ ecce' = ecce
  OBVIOUS
<1>3. bev' \in BOOLEAN /\ ecce' \in BOOLEAN /\ (ecce' => ecce \/ ~erl)
  <2>1. bev \in BOOLEAN /\ ecce \in BOOLEAN
    BY Zenon DEF IInv, TypeOK, Flags
  <2>2. bev' \in BOOLEAN /\ ecce' \in BOOLEAN
    BY <1>2, <2>1, Zenon
  <2>3. ecce' => ecce
    BY <1>2, SMT
  <2> QED BY <2>2, <2>3
<1>4. exl /\ ~erl /\ pc \in General
  BY <1>0, <1>1, HandlerCode, SMT
  DEF Fetched, IInv, TypeOK, Places, Levels, Base, Plain, Transfers, Jumps, Compares,
      Signs, Regimms, FpBranches
<1>5. exc = "SYS" =>
        IF bd THEN /\ i.op \in Transfers /\ code[epc + 1].op = "SYSCALL"
                   /\ regs = Linked(i.op, epc, regs)
                   /\ ~ (i.op \in Likely /\ ~Taken(i.op, regs))
              ELSE i.op = "SYSCALL"
  BY <1>4, Zenon DEF IInv, SyscallFresh
<1>6. epc' \in Text
  BY <1>0, <1>5, TextClosed, SMT DEF Plain
<1>7. IInv'
  BY <1>1, <1>2, <1>3, <1>6, HandlerInv, SMT DEF Kernel
<1>8. ResumeAt = epc /\ ResumeAt' = epc'
  BY <1>2, <1>4, SMT DEF ResumeAt
<1>9. DOMAIN code = Addr /\ Text \subseteq Addr
  <2>1. code \in [Addr -> Instr]
    BY <1>0, ProgramAssumption, Zenon
  <2> QED BY <2>1, AddrAssumption, Zenon
<1>10. CASE exc # "SYS"
  BY <1>7, <1>8, <1>10, StaysOnPath DEF Stays
<1>11. CASE exc = "SYS" /\ ~bd
  <2>1. Effect(i.op, regs) = regs
    BY <1>5, <1>11, SMT DEF Effect
  <2>2. Path!StepPlain
    BY <1>0, <1>5, <1>8, <1>9, <1>11, <2>1, SameSets, SameOps, SMT DEF Path!StepPlain, Plain
  <2> QED BY <1>7, <2>2, Zenon DEF OnPath, Path!PathNext
<1>12. CASE exc = "SYS" /\ bd
  <2>1. Effect(code[epc + 1].op, regs) = regs
    BY <1>5, <1>12, SMT DEF Effect
  <2>2. epc + 1 \in Text /\ "SYSCALL" \in Plain
    BY <1>0, <1>5, <1>12, TextClosed, SMT DEF Plain
  <2>3. ~Path!Annulled
    BY <1>5, <1>8, <1>12, SameSets, SameTaken, Zenon DEF Path!Annulled
  <2>4. Path!CanTransfer
    BY <1>0, <1>5, <1>8, <1>9, <1>12, <2>2, SameSets, Zenon
    DEF Path!CanTransfer, Path!Wellformed
  <2>5. Path!StepTransfer
    BY <1>2, <1>5, <1>8, <1>12, <2>1, <2>3, <2>4, SameOps, Zenon DEF Path!StepTransfer
  <2> QED BY <1>7, <2>5, Zenon DEF OnPath, Path!PathNext
<1> QED BY <1>10, <1>11, <1>12
-----------------------------------------------------------------------------
LEMMA UnchangedInv ==
  ASSUME IInv, UNCHANGED vars
  PROVE  IInv' /\ Stays
<1> USE DEF IInv, vars, flow, level, saved, events
<1>1. Flags' /\ Places'
  <2>1. Flags'
    BY Zenon DEF TypeOK, Flags
  <2>2. Places'
    BY Zenon DEF TypeOK, Places
  <2> QED BY <2>1, <2>2
<1>2. DelayConsistent' /\ ErrPcSafe' /\ SyscallFresh' /\ Levels'
  BY SMT DEF DelayConsistent, ErrPcSafe, SyscallFresh, Levels, Base, General
<1>3. Stays
  BY SMT DEF Stays, ResumeAt
<1> QED BY <1>1, <1>2, <1>3 DEF TypeOK

(* Every step of a core.                                                   *)
LEMMA StepInv ==
  ASSUME IInv, [Next]_vars
  PROVE  IInv' /\ OnPath
<1>1. CASE InterruptArrives \/ CacheErrorArrives
  BY <1>1, EventsInv, StaysOnPath
<1>2. CASE TakeCacheError
  BY <1>2, CacheErrorInv, StaysOnPath
<1>3. CASE TakeInterrupt
  BY <1>3, InterruptInv, StaysOnPath
<1>4. CASE FetchFault \/ LoadFault \/ TransferInSlot \/ Reserved \/ Syscall
  BY <1>4, TrapsInv, StaysOnPath
<1>5. CASE Nullify
  BY <1>5, NullifyInv
<1>6. CASE Transfer
  BY <1>6, TransferInv
<1>7. CASE \E op \in {"ADDU", "CMP", "LW"} : Operate(op)
  BY <1>7, OperateInv
<1>8. CASE Wait
  BY <1>8, WaitInv
<1>9. CASE Eret
  BY <1>9, EretInv, StaysOnPath
<1>10. CASE HandlerNop \/ Arm \/ ClearBev
  BY <1>10, HandlersInv, StaysOnPath
<1>11. CASE PastSyscall
  BY <1>11, PastSyscallInv
<1>12. CASE UNCHANGED vars
  BY <1>12, UnchangedInv, StaysOnPath
<1> QED
  BY <1>1, <1>2, <1>3, <1>4, <1>5, <1>6, <1>7, <1>8, <1>9, <1>10, <1>11, <1>12
  DEF Next, Execute
-----------------------------------------------------------------------------
(* Whatever events arrive, the countdown of sc1_cpu.c:2500 and EVT_NLFY    *)
(* belong to the transfer just before pc; see DelayConsistent.             *)
THEOREM DelayCorrect == Spec => []DelayConsistent
<1>1. Spec => []IInv
  BY InitInv, StepInv, PTL DEF Spec
<1>2. IInv => DelayConsistent
  BY DEF IInv
<1> QED BY <1>1, <1>2, PTL

(* The core keeps its types.                                               *)
THEOREM TypeCorrect == Spec => []TypeOK
<1>1. Spec => []IInv
  BY InitInv, StepInv, PTL DEF Spec
<1>2. IInv => TypeOK
  BY DEF IInv
<1> QED BY <1>1, <1>2, PTL

(* No second cache error overwrites the ErrorEPC of a handler that has not *)
(* returned (sc1_cpu.c:541 tests no level).                                *)
THEOREM ErrPcCorrect == Spec => []ErrPcSafe
<1>1. Spec => []IInv
  BY InitInv, StepInv, PTL DEF Spec
<1>2. IInv => ErrPcSafe
  BY DEF IInv
<1> QED BY <1>1, <1>2, PTL

(* A system call's handler finds the call where EPC and Cause.BD say       *)
(* (sc1_cpu.c:2436).                                                       *)
THEOREM SyscallCorrect == Spec => []SyscallFresh
<1>1. Spec => []IInv
  BY InitInv, StepInv, PTL DEF Spec
<1>2. IInv => SyscallFresh
  BY DEF IInv
<1> QED BY <1>1, <1>2, PTL

(* Traps, interrupts and cache errors, wherever they strike, leave the     *)
(* program on its path: the core implements ProgramPath.                   *)
THEOREM ControlImplementsPath == Spec => Implements
<1>1. Init => Path!PathInit
  BY Zenon DEF Init, Path!PathInit, ResumeAt
<1>2. IInv /\ [Next]_vars => [Path!PathNext]_(Path!pathVars)
  BY StepInv DEF OnPath
<1> QED
  BY <1>1, <1>2, InitInv, StepInv, PTL DEF Spec, Implements, Path!PathSpec
=============================================================================
