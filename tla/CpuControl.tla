----------------------------- MODULE CpuControl -----------------------------
(***************************************************************************)
(* The control of a core in cpu_one_inst (sc1_cpu.c): program counter,     *)
(* delay slots, annulled slots, traps, interrupts, cache errors and the    *)
(* return from them.                                                       *)
(*                                                                         *)
(* One call of cpu_one_inst is the handling of the pending events and then *)
(* one instruction; here each event is a step of its own.  At base level   *)
(* (neither EXL nor ERL) the core runs the program, above it the exception *)
(* handlers, which save and restore the program's registers: regs is what  *)
(* the program sees, and only its own instructions change it.              *)
(*                                                                         *)
(* Left out: debug mode and breakpoints, stop on trap, stalls.             *)
(***************************************************************************)
EXTENDS CpuInstr

CONSTANTS
  Text,          \* addresses of the program
  Handlers,      \* of the handlers that run with EXL
  ErrHandlers,   \* of the boot code and the cache error handler, with ERL
  Mapped,        \* those of the program whose fetch may miss the TLB
  Programs,      \* the memories of instructions a run may start with
  Vectors,       \* where each kind of exception goes, with BEV and without
  Reset,         \* VEC_RESET
  Start          \* where the boot code enters the program

Offsets == {"TLB", "XTLB", "CERR", "GEN", "INT"}

General == {Vectors[<<"GEN", b>>] : b \in BOOLEAN}

ASSUME AddrAssumption ==
  /\ Addr \subseteq Nat /\ Addr = Text \cup Handlers \cup ErrHandlers
  /\ Text \cap (Handlers \cup ErrHandlers) = {} /\ Handlers \cap ErrHandlers = {}
  /\ Mapped \subseteq Text /\ Start \in Text /\ Reset \in ErrHandlers
  /\ \A b \in BOOLEAN :
       /\ Vectors[<<"CERR", b>>] \in ErrHandlers
       /\ \A o \in Offsets \ {"CERR"} : Vectors[<<o, b>>] \in Handlers

(* A program stays in its text, and handlers in theirs until they return.  *)
(* The general handler begins by looking for a system call; the error      *)
(* handlers touch neither EPC nor mapped memory.                           *)
ASSUME ProgramAssumption ==
  \A c \in Programs :
    /\ c \in [Addr -> Instr]
    /\ \A a \in Text :
         /\ c[a].op \in Plain => a + 1 \in Text
         /\ c[a].op \in Transfers => {a + 1, a + 2, c[a].to} \subseteq Text
         /\ c[a].op \in Plain \cup Transfers \cup {"RESERVED"}
    /\ \A a \in Handlers :
         /\ c[a].op \in Kernel
         /\ c[a].op # "ERET" => a + 1 \in Handlers \ General
         /\ c[a].op = "ADVANCE" => a \in General
    /\ \A a \in ErrHandlers :
         \/ c[a].op = "ERET"
         \/ c[a].op \in {"NOP", "CLEARBEV"} /\ a + 1 \in ErrHandlers

VARIABLES
  code,          \* the instructions in memory
  pc, delay, taken, delayPc, nullify,          \* nullify is EVT_NLFY
  exl, erl, bev, iv,                           \* of SR, and Cause.IV
  epc, errPc, bd, exc,                         \* bd and exc are of Cause
  int, cche, wait,                             \* EVT_INT, EVT_CCHE, EVT_WAIT
  ecce,                                        \* ErrCtl.ECCE
  regs

flow == <<pc, delay, taken, delayPc, nullify>>
level == <<exl, erl, bev, iv>>
saved == <<epc, errPc, bd, exc>>
events == <<int, cche, wait, ecce>>
vars == <<code, flow, level, saved, events, regs>>

Excs == {"NONE", "INT", "CERR", "TLB", "RI", "SYS"}

Base == ~exl /\ ~erl

(* cpu_reset and cpu_boot: bootstrap vectors, error level.  The program    *)
(* starts where ErrorEPC says when the boot code returns from there.       *)
Init ==
  /\ code \in Programs
  /\ pc = Reset /\ delay = 0 /\ taken = FALSE /\ delayPc = Start
  /\ nullify = FALSE
  /\ exl = FALSE /\ erl = TRUE /\ bev = TRUE /\ iv \in BOOLEAN
  /\ epc = Start /\ errPc = Start /\ bd = FALSE /\ exc = "NONE"
  /\ int = FALSE /\ cche = FALSE /\ wait = FALSE /\ ecce = FALSE
  /\ regs = [s |-> 0, cc |-> FALSE, link |-> Start]

Fetched == code[pc]
-----------------------------------------------------------------------------
(* A device event between two instructions leaves EVT_INT set; eval_intr   *)
(* sets it at base level only.                                             *)
InterruptArrives ==
  /\ Base /\ ~int
  /\ int' = TRUE
  /\ UNCHANGED <<code, flow, level, saved, cche, wait, ecce, regs>>

(* cac_ecc_svc reports an error of the first-level cache once each time    *)
(* ErrCtl.ECCE is set.                                                     *)
CacheErrorArrives ==
  /\ ecce
  /\ cche' = TRUE /\ ecce' = FALSE
  /\ UNCHANGED <<code, flow, level, saved, int, wait, regs>>

(* Mutant of TakeCacheError: returns behind the branch.                    *)
TakeCacheErrorSlot ==
  /\ cche
  /\ exc' = "CERR"
  /\ bd' = IF exl THEN bd ELSE delay # 0
  /\ errPc' = pc
  /\ pc' = Vectors[<<"CERR", bev>>]
  /\ erl' = TRUE
  /\ delay' = 0 /\ taken' = FALSE /\ nullify' = FALSE
  /\ cche' = FALSE /\ int' = FALSE /\ wait' = FALSE
  /\ UNCHANGED <<code, delayPc, exl, bev, iv, epc, ecce, regs>>

TakeCacheError ==
  /\ cche
  /\ exc' = "CERR"
  /\ bd' = IF exl THEN bd ELSE delay # 0
  /\ errPc' = IF delay # 0 THEN pc - 1 ELSE pc
  /\ pc' = Vectors[<<"CERR", bev>>]
  /\ erl' = TRUE
  /\ delay' = 0 /\ taken' = FALSE /\ nullify' = FALSE
  /\ cche' = FALSE /\ int' = FALSE /\ wait' = FALSE
  /\ UNCHANGED <<code, delayPc, exl, bev, iv, epc, ecce, regs>>

(* Mutant of TakeInterrupt: EVT_NLFY stays set.                            *)
TakeInterruptNullified ==
  /\ ~cche /\ int
  /\ exc' = "INT"
  /\ bd' = (delay # 0)
  /\ epc' = IF delay # 0 THEN pc - 1 ELSE pc
  /\ pc' = Vectors[<<IF iv THEN "INT" ELSE "GEN", bev>>]
  /\ exl' = TRUE
  /\ delay' = 0 /\ taken' = FALSE
  /\ int' = FALSE /\ wait' = FALSE
  /\ UNCHANGED <<code, nullify, delayPc, erl, bev, iv, errPc, cche, ecce, regs>>

TakeInterrupt ==
  /\ ~cche /\ int
  /\ exc' = "INT"
  /\ bd' = (delay # 0)
  /\ epc' = IF delay # 0 THEN pc - 1 ELSE pc
  /\ pc' = Vectors[<<IF iv THEN "INT" ELSE "GEN", bev>>]
  /\ exl' = TRUE
  /\ delay' = 0 /\ taken' = FALSE /\ nullify' = FALSE
  /\ int' = FALSE /\ wait' = FALSE
  /\ UNCHANGED <<code, delayPc, erl, bev, iv, errPc, cche, ecce, regs>>

(* Nothing pending: the instruction at pc is fetched.  A core in WAIT      *)
(* fetches nothing.                                                        *)
Runs == ~cche /\ ~int /\ ~wait

(* Mutant of Trap: BD is set and never cleared.                            *)
TrapNoBd(cause, refill) ==
  /\ exc' = cause
  /\ IF exl
     THEN UNCHANGED <<bd, epc>> /\ pc' = Vectors[<<"GEN", bev>>]
     ELSE /\ bd' = (bd \/ delay = 1)
          /\ epc' = IF delay = 1 THEN pc - 1 ELSE pc
          /\ IF refill THEN \E o \in {"TLB", "XTLB"} : pc' = Vectors[<<o, bev>>]
                       ELSE pc' = Vectors[<<"GEN", bev>>]
  /\ exl' = TRUE
  /\ delay' = 0 /\ taken' = FALSE /\ nullify' = FALSE
  /\ int' = FALSE
  /\ UNCHANGED <<code, delayPc, erl, bev, iv, errPc, cche, wait, ecce, regs>>

(* A trap, where the code has advanced pc by one already: bd and the place *)
(* to resume are kept when one is saved already.                           *)
Trap(cause, refill) ==
  /\ exc' = cause
  /\ IF exl
     THEN UNCHANGED <<bd, epc>> /\ pc' = Vectors[<<"GEN", bev>>]
     ELSE /\ bd' = (delay = 1)
          /\ epc' = IF delay = 1 THEN pc - 1 ELSE pc
          /\ IF refill THEN \E o \in {"TLB", "XTLB"} : pc' = Vectors[<<o, bev>>]
                       ELSE pc' = Vectors[<<"GEN", bev>>]
  /\ exl' = TRUE
  /\ delay' = 0 /\ taken' = FALSE /\ nullify' = FALSE
  /\ int' = FALSE
  /\ UNCHANGED <<code, delayPc, erl, bev, iv, errPc, cche, wait, ecce, regs>>

FetchFault ==
  /\ Runs /\ pc \in Mapped
  /\ \E refill \in BOOLEAN : Trap("TLB", refill)

(* The slot of a branch likely that is not taken.                          *)
Nullify ==
  /\ Runs /\ nullify
  /\ nullify' = FALSE /\ delay' = 0 /\ pc' = pc + 1
  /\ UNCHANGED <<code, taken, delayPc, level, saved, events, regs>>

Executes(op) == Runs /\ ~nullify /\ Fetched.op = op

(* The end of cpu_one_inst for an instruction that is no transfer: the     *)
(* countdown behind a branch.                                              *)
Advance(next) ==
  /\ IF delay = 1 /\ taken
     THEN pc' = delayPc /\ taken' = FALSE
     ELSE pc' = next /\ UNCHANGED taken
  /\ delay' = IF delay = 0 THEN 0 ELSE delay - 1
  /\ UNCHANGED <<delayPc, nullify>>

(* A jump or branch: delay is 2, and 1 after the countdown.                *)
Transfer ==
  /\ Runs /\ ~nullify /\ Fetched.op \in Transfers /\ delay = 0
  /\ delay' = 1
  /\ taken' = Taken(Fetched.op, regs)
  /\ delayPc' = IF taken' THEN Target(Fetched, regs) ELSE delayPc
  /\ nullify' = (Fetched.op \in Likely /\ ~taken')
  /\ regs' = Linked(Fetched.op, pc, regs)
  /\ pc' = pc + 1
  /\ UNCHANGED <<code, level, saved, events>>

(* "5KF traps": a transfer in a delay slot is a reserved instruction.      *)
TransferInSlot ==
  /\ Runs /\ ~nullify /\ Fetched.op \in Transfers /\ delay # 0
  /\ Trap("RI", FALSE)

Reserved == Executes("RESERVED") /\ Trap("RI", FALSE)

Operate(op) ==
  /\ Executes(op)
  /\ Advance(pc + 1)
  /\ regs' = Effect(op, regs)
  /\ UNCHANGED <<code, level, saved, events>>

(* A load, of the program or of a handler, may fault, and then leaves its  *)
(* register alone.                                                         *)
LoadFault ==
  /\ Executes("LW") \/ Executes("KLW")
  /\ \E refill \in BOOLEAN : Trap("TLB", refill)

Syscall == Executes("SYSCALL") /\ Trap("SYS", FALSE)

(* Mutant of Wait: the interrupt that ends it returns to it.               *)
WaitAgain ==
  /\ Executes("WAIT")
  /\ wait' = TRUE
  /\ UNCHANGED <<code, flow, level, saved, int, cche, ecce, regs>>

Wait ==
  /\ Executes("WAIT")
  /\ Advance(pc + 1)
  /\ wait' = TRUE
  /\ UNCHANGED <<code, level, saved, int, cche, ecce, regs>>

(* CP0T_ERET of op_cop0; it is never in a delay slot.                      *)
Eret ==
  /\ Executes("ERET")
  /\ IF erl THEN pc' = errPc /\ erl' = FALSE /\ UNCHANGED exl
            ELSE pc' = epc /\ exl' = FALSE /\ UNCHANGED erl
  /\ UNCHANGED <<code, delay, taken, delayPc, nullify, bev, iv, saved, events,
                 regs>>
-----------------------------------------------------------------------------
(* The registers the handlers write (cp0_putreg): EPC, SR and ErrCtl.  The *)
(* handler of a system call goes on behind it, or where the branch goes    *)
(* whose slot it is in.                                                    *)
HandlerNop ==
  /\ \E op \in {"NOP", "KLW"} : Executes(op)
  /\ Advance(pc + 1)
  /\ UNCHANGED <<code, level, saved, events, regs>>

Arm ==
  /\ Executes("ARM")
  /\ ecce' = TRUE
  /\ Advance(pc + 1)
  /\ UNCHANGED <<code, level, saved, int, cche, wait, regs>>

ClearBev ==
  /\ Executes("CLEARBEV")
  /\ bev' = FALSE
  /\ Advance(pc + 1)
  /\ UNCHANGED <<code, exl, erl, iv, saved, events, regs>>

PastSyscall ==
  /\ Executes("ADVANCE")
  /\ epc' = IF exc # "SYS" THEN epc
            ELSE IF bd THEN Destination(code[epc], epc, regs) ELSE epc + 1
  /\ Advance(pc + 1)
  /\ UNCHANGED <<code, level, errPc, bd, exc, events, regs>>
-----------------------------------------------------------------------------
Execute ==
  \/ Nullify \/ Transfer \/ TransferInSlot \/ Reserved \/ Syscall
  \/ Wait \/ Eret \/ HandlerNop \/ Arm \/ ClearBev \/ PastSyscall
  \/ \E op \in {"ADDU", "CMP", "LW"} : Operate(op)

Next ==
  \/ InterruptArrives \/ CacheErrorArrives
  \/ TakeCacheError \/ TakeInterrupt
  \/ FetchFault \/ LoadFault
  \/ Execute

Spec == Init /\ [][Next]_vars

(* sim_instr goes round the cores, and the timer's interrupt comes again   *)
(* and again.  That events, and faults of a handler's or the program's     *)
(* memory, let an instruction through in the end, and a cache error not    *)
(* replace the cause of every system call, is up to the machine.           *)
Fairness ==
  /\ WF_vars(TakeCacheError \/ TakeInterrupt \/ Execute)
  /\ WF_vars(InterruptArrives)
  /\ SF_vars(Execute /\ Base /\ delay = 0) /\ SF_vars(Execute /\ Base /\ delay = 1)
  /\ SF_vars(HandlerNop) /\ SF_vars(PastSyscall /\ exc = "SYS")

FairSpec == Spec /\ Fairness
-----------------------------------------------------------------------------
Flags ==
  /\ taken \in BOOLEAN /\ nullify \in BOOLEAN
  /\ exl \in BOOLEAN /\ erl \in BOOLEAN /\ bev \in BOOLEAN /\ iv \in BOOLEAN
  /\ int \in BOOLEAN /\ cche \in BOOLEAN /\ wait \in BOOLEAN /\ ecce \in BOOLEAN
  /\ bd \in BOOLEAN

Places ==
  /\ code \in Programs
  /\ pc \in Addr /\ delay \in 0 .. 1 /\ delayPc \in Text
  /\ epc \in Text /\ errPc \in Text \cup Handlers /\ exc \in Excs
  /\ regs \in Regs /\ regs.link \in Text

TypeOK == Flags /\ Places

(* The countdown of sc1_cpu.c:2500 and EVT_NLFY agree with the branch they *)
(* stand for: between two instructions a pending delay is that of the      *)
(* transfer just before pc, going where that transfer goes, annulled only  *)
(* when it is a branch likely not taken.                                   *)
DelayConsistent ==
  /\ delay = 0 => ~taken /\ ~nullify
  /\ delay = 1 =>
       /\ Base /\ pc - 1 \in Text /\ code[pc - 1].op \in Transfers
       /\ taken = Taken(code[pc - 1].op, regs)
       /\ taken => delayPc = Target(code[pc - 1], regs)
       /\ nullify = (code[pc - 1].op \in Likely /\ ~taken)
       /\ regs = Linked(code[pc - 1].op, pc - 1, regs)

(* An error handler's return address is not lost to a second cache error   *)
(* (sc1_cpu.c:541 tests no level): none is armed or pending before it has  *)
(* returned.                                                               *)
ErrPcSafe == erl => ~ecce /\ ~cche

(* At the general vector with the cause of a system call, EPC and BD still *)
(* name that call (sc1_cpu.c:2436); behind it the handler has moved EPC.   *)
SyscallFresh ==
  exl /\ ~erl /\ exc = "SYS" /\ pc \in General =>
    IF bd THEN /\ code[epc].op \in Transfers /\ code[epc + 1].op = "SYSCALL"
               /\ regs = Linked(code[epc].op, epc, regs)
               /\ ~ (code[epc].op \in Likely /\ ~Taken(code[epc].op, regs))
          ELSE code[epc].op = "SYSCALL"

(* The instruction the program resumes at, wherever the core is now.       *)
ResumeAt ==
  IF exl THEN epc
  ELSE IF erl THEN errPc
  ELSE IF delay = 1 THEN pc - 1 ELSE pc

Path == INSTANCE ProgramPath WITH at <- ResumeAt

(* Whatever traps, interrupts and cache errors come between, in slots,     *)
(* annulled slots and handlers, the program goes its path.                 *)
Implements == Path!PathSpec

(* And it goes on: the events that come again and again leave it its turn. *)
Progress == Path!PathProgress
=============================================================================
