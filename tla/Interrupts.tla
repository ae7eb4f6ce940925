----------------------------- MODULE Interrupts -----------------------------
(***************************************************************************)
(* Interrupts, from their sources to the core: the cache controller's      *)
(* interrupt cause registers and slow interrupts (sc1_cac.c), the counter  *)
(* and eval_intr (sc1_io.c), the CP0 instructions that end in eval_intr    *)
(* (sc1_mmu.c, op_cop0) and the head of cpu_one_inst (sc1_cpu.c).          *)
(*                                                                         *)
(* EVT_INT is a cached answer: eval_intr computes it, cpu_one_inst tests   *)
(* it before each instruction, and it is right only as long as whoever     *)
(* changes a source, a mask or an enable has it computed again.            *)
(*                                                                         *)
(* A cycle of a core, one call of cpu_one_inst, is a Tick and then cache   *)
(* error, interrupt, and a sleep or an instruction.  The console register  *)
(* INT_REQ (global_int) stays 0, and the debug interrupt is left out.      *)
(***************************************************************************)
EXTENDS Integers, FiniteSets

CONSTANTS
  NumCores,     \* NUM_CORES
  NumIcr,       \* CAC_ICR_NUM
  Causes,       \* the cause bytes the programs send
  CountMod,     \* 2^32, the width of Count and Compare
  NumPerf,      \* NUM_PERF, the pairs of performance registers
  SlowGlobal,   \* SLOW_GLOBAL
  SlowLocal,    \* SLOW_LOCAL
  Uart          \* SLOW_UART, the one of SlowGlobal that is withdrawn again

Cores == 0 .. NumCores - 1
Icrs == 0 .. NumIcr - 1
Counts == 0 .. CountMod - 1
PerfRegs == 0 .. 2 * NumPerf - 1

(* The bits of Cause.IP and SR.IM.                                         *)
Soft == {0, 1}
Levels == 0 .. 7
SlowLevel == 5
CountLevel == 6
PerfLevel == 7

ASSUME SizesAssumption ==
  /\ NumCores \in Nat \ {0} /\ CountMod \in Nat \ {0}
  /\ NumIcr \in 1 .. 12 /\ NumPerf \in {2, 4}
  /\ Uart \in SlowGlobal /\ SlowGlobal \cap SlowLocal = {}

Sr == [ie : BOOLEAN, exl : BOOLEAN, erl : BOOLEAN, im : SUBSET Levels]
Icr == [act : BOOLEAN, ovf : BOOLEAN, cause : Causes \cup {0}]

VARIABLES
  icr,          \* cac_icr
  slowInt,      \* cac_slow_int
  slowLocal,    \* cac_slow_local
  slowMask,     \* cac_slow_mask
  count,        \* CP0 Count and Compare
  compare,
  irqCount,     \* irq_count
  perf,         \* cp0_perf, as the set of bits that matter of each register
  sr,           \* CP0 SR
  cause,        \* the IP bits of CP0 Cause
  ecce,         \* CP0 ErrCtl.ECCE, per core
  events,       \* EVT_INT, EVT_WAIT and EVT_CCHE
  turn,         \* the core whose cycle is next or under way
  ticked        \* whether its counter has advanced

cac == <<icr, slowInt, slowLocal, slowMask>>
timer == <<count, compare, irqCount, perf>>
loop == <<turn, ticked>>
vars == <<cac, timer, sr, cause, ecce, events, loop>>

NoIcr == [act |-> FALSE, ovf |-> FALSE, cause |-> 0]
ResetSr == [ie |-> FALSE, exl |-> FALSE, erl |-> TRUE, im |-> {}]

(* cac_eval_intr: two cause registers to a pin, and the slow interrupts.   *)
Slow(c) == (slowLocal[c] \cup slowInt) \cap slowMask[c]

Pins(c) ==
  {2 + (i \div 2) : i \in {j \in Icrs : icr[c][j].act}}
    \cup {l \in {SlowLevel} : Slow(c) # {}}

PerfRequest(c) ==
  \E p \in 0 .. NumPerf - 1 :
    "sign" \in perf[c][2 * p + 1] /\ "enable" \in perf[c][2 * p]

Requests(c) ==
  Pins(c) \cup {l \in {CountLevel} : irqCount[c]}
          \cup {l \in {PerfLevel} : PerfRequest(c)}

Enabled(s) == s.ie /\ ~s.exl /\ ~s.erl

(* Mutant of Deliverable: interrupts nest in an exception handler.         *)
DeliverableNested(c) == cause[c] \cap sr[c].im # {} /\ sr[c].ie /\ ~sr[c].erl

Deliverable(c) == cause[c] \cap sr[c].im # {} /\ Enabled(sr[c])

(* Mutant of Eval: only the first core of the set.                         *)
EvalFirst(S, soft, ev) ==
  LET T == {c \in S : \A d \in S : c <= d}
  IN /\ cause' = [c \in Cores |->
                    IF c \in T THEN (soft[c] \cap Soft) \cup Requests(c)'
                    ELSE soft[c]]
     /\ events' = [c \in Cores |->
                     IF c \notin T THEN ev[c]
                     ELSE IF Deliverable(c)' THEN ev[c] \cup {"INT"}
                     ELSE ev[c] \ {"INT"}]

(* eval_intr of the cores S, after Cause became soft and the events ev.    *)
Eval(S, soft, ev) ==
  /\ cause' = [c \in Cores |->
                 IF c \in S THEN (soft[c] \cap Soft) \cup Requests(c)'
                 ELSE soft[c]]
  /\ events' = [c \in Cores |->
                  IF c \notin S THEN ev[c]
                  ELSE IF Deliverable(c)' THEN ev[c] \cup {"INT"}
                  ELSE ev[c] \ {"INT"}]

EvalOwn(c) == Eval({c}, cause, events)
EvalAll == Eval(Cores, cause, events)
-----------------------------------------------------------------------------
(* sim_process_event between two rounds, and the eval_intr_all after it.   *)
Between == turn = 0 /\ ~ticked

(* A device's service routine raises its slow interrupt, or the UART       *)
(* withdraws its own (cac_set_slow, cac_clr_slow).                         *)
DeviceSlow ==
  /\ Between
  /\ \/ \E s \in SlowGlobal : slowInt' = slowInt \cup {s}
     \/ slowInt' = slowInt \ {Uart}
  /\ UNCHANGED <<icr, slowLocal, slowMask, timer, sr, ecce, loop>>
  /\ EvalAll

(* cac_ecc_svc for a core: errors of the second-level cache and the        *)
(* switch, which the mode register may hide, and an error of the           *)
(* first-level cache, reported once each time ErrCtl.ECCE is set.          *)
EccEvent(c) ==
  /\ Between
  /\ \E s \in SUBSET SlowLocal :
       slowLocal' = [slowLocal EXCEPT ![c] = @ \cup s]
  /\ UNCHANGED <<icr, slowInt, slowMask, timer, sr, loop>>
  /\ \/ UNCHANGED ecce /\ EvalAll
     \/ /\ ecce[c]
        /\ ecce' = [ecce EXCEPT ![c] = FALSE]
        /\ Eval(Cores, cause, [events EXCEPT ![c] = @ \cup {"CCHE"}])

(* The console resets a core, and sim_instr evaluates every core when it   *)
(* is entered again.  Cause keeps its bits.                                *)
Reset(c) ==
  /\ Between
  /\ icr' = [icr EXCEPT ![c] = [i \in Icrs |-> NoIcr]]
  /\ slowLocal' = [slowLocal EXCEPT ![c] = {}]
  /\ slowMask' = [slowMask EXCEPT ![c] = {}]
  /\ count' = [count EXCEPT ![c] = 0]
  /\ compare' = [compare EXCEPT ![c] = 0]
  /\ irqCount' = [irqCount EXCEPT ![c] = FALSE]
  /\ perf' = [perf EXCEPT ![c] = [r \in PerfRegs |-> {}]]
  /\ sr' = [sr EXCEPT ![c] = ResetSr]
  /\ UNCHANGED <<slowInt, ecce, loop>>
  /\ Eval(Cores, cause, [events EXCEPT ![c] = {}])
-----------------------------------------------------------------------------
(* Mutant of Tick: the counter stops during a sleep.                       *)
TickAwake(c) ==
  /\ turn = c /\ ~ticked
  /\ ticked' = TRUE
  /\ count' = [count EXCEPT ![c] =
                 IF "WAIT" \in events[c] THEN @ ELSE (@ + 1) % CountMod]
  /\ IF count'[c] = compare[c] /\ "WAIT" \notin events[c]
     THEN /\ irqCount' = [irqCount EXCEPT ![c] = TRUE]
          /\ UNCHANGED <<cac, compare, perf, sr>>
          /\ EvalOwn(c)
     ELSE UNCHANGED <<cac, compare, irqCount, perf, sr, cause, events>>
  /\ UNCHANGED <<ecce, turn>>

(* The head of the cycle: the counter advances, asleep or not.             *)
Tick(c) ==
  /\ turn = c /\ ~ticked
  /\ ticked' = TRUE
  /\ count' = [count EXCEPT ![c] = (@ + 1) % CountMod]
  /\ IF count'[c] = compare[c]
     THEN /\ irqCount' = [irqCount EXCEPT ![c] = TRUE]
          /\ UNCHANGED <<cac, compare, perf, sr>>
          /\ EvalOwn(c)
     ELSE UNCHANGED <<cac, compare, irqCount, perf, sr, cause, events>>
  /\ UNCHANGED <<ecce, turn>>

Running(c) == turn = c /\ ticked

EndCycle == turn' = (turn + 1) % NumCores /\ ticked' = FALSE

TakeCacheError(c) ==
  /\ Running(c) /\ "CCHE" \in events[c]
  /\ sr' = [sr EXCEPT ![c].erl = TRUE]
  /\ events' = [events EXCEPT ![c] = {}]
  /\ UNCHANGED <<cac, timer, cause, ecce, loop>>

TakeInterrupt(c) ==
  /\ Running(c) /\ "CCHE" \notin events[c] /\ "INT" \in events[c]
  /\ sr' = [sr EXCEPT ![c].exl = TRUE]
  /\ events' = [events EXCEPT ![c] = {}]
  /\ UNCHANGED <<cac, timer, cause, ecce, loop>>

Sleep(c) ==
  /\ Running(c) /\ events[c] = {"WAIT"}
  /\ EndCycle
  /\ UNCHANGED <<cac, timer, sr, cause, ecce, events>>

(* The cycle goes on to an instruction.                                    *)
Issue(c) == Running(c) /\ events[c] = {} /\ EndCycle
-----------------------------------------------------------------------------
(* A store to an interrupt cause register with the active bit set.         *)
AckIcr(c, i) ==
  /\ Issue(c)
  /\ icr' = [icr EXCEPT ![c][i].act = FALSE, ![c][i].ovf = FALSE]
  /\ UNCHANGED <<slowInt, slowLocal, slowMask, timer, sr, ecce>>
  /\ EvalOwn(c)

(* A store to the slow interrupt select register; nothing is evaluated.    *)
WriteSlsel(c, mask) ==
  /\ Issue(c)
  /\ slowMask' = [slowMask EXCEPT ![c] = mask]
  /\ UNCHANGED <<icr, slowInt, slowLocal, timer, sr, cause, ecce, events>>

(* A store to the slow interrupt status register.                          *)
WriteSlsta(c, clear) ==
  /\ Issue(c)
  /\ slowLocal' = [slowLocal EXCEPT ![c] = @ \ clear]
  /\ UNCHANGED <<icr, slowInt, slowMask, timer, sr, ecce>>
  /\ EvalOwn(c)

(* cac_csw_int: what a delivered interrupt does to its cause register.     *)
Deliver(r, val) ==
  IF r.act THEN [r EXCEPT !.ovf = TRUE]
  ELSE [act |-> TRUE, ovf |-> r.ovf, cause |-> val]

(* A store to the interrupt delivery register.                             *)
SendInterrupt(c, d, i, val) ==
  /\ Issue(c)
  /\ icr' = [icr EXCEPT ![d][i] = Deliver(@, val)]
  /\ UNCHANGED <<slowInt, slowLocal, slowMask, timer, sr, ecce>>
  /\ IF icr[d][i].act THEN UNCHANGED <<cause, events>> ELSE EvalAll

(* A load or store of a UART register: uart_eval_intr.                     *)
AccessUart(c) ==
  /\ Issue(c)
  /\ slowInt' \in {slowInt \cup {Uart}, slowInt \ {Uart}}
  /\ UNCHANGED <<icr, slowLocal, slowMask, timer, sr, ecce>>
  /\ EvalAll
-----------------------------------------------------------------------------
(* Coprocessor 0: op_cop0 evaluates after every one of its instructions.   *)
Cop0(c) == Issue(c) /\ UNCHANGED cac

Mtc0Sr(c, s) ==
  /\ Cop0(c)
  /\ sr' = [sr EXCEPT ![c] = s]
  /\ UNCHANGED <<timer, ecce>>
  /\ EvalOwn(c)

Mtc0ErrCtl(c, e) ==
  /\ Cop0(c)
  /\ ecce' = [ecce EXCEPT ![c] = e]
  /\ UNCHANGED <<timer, sr>>
  /\ EvalOwn(c)

Mtc0Cause(c, soft) ==
  /\ Cop0(c)
  /\ UNCHANGED <<timer, sr, ecce>>
  /\ Eval({c}, [cause EXCEPT ![c] = soft], events)

Mtc0Count(c, v) ==
  /\ Cop0(c)
  /\ count' = [count EXCEPT ![c] = v]
  /\ UNCHANGED <<compare, irqCount, perf, sr, ecce>>
  /\ EvalOwn(c)

(* Mutant of Mtc0Compare: the interrupt stays.                             *)
Mtc0CompareKeeps(c, v) ==
  /\ Cop0(c)
  /\ compare' = [compare EXCEPT ![c] = v]
  /\ UNCHANGED <<count, irqCount, perf, sr, ecce>>
  /\ EvalOwn(c)

(* counter_wr_compr withdraws the counter's interrupt.                     *)
Mtc0Compare(c, v) ==
  /\ Cop0(c)
  /\ compare' = [compare EXCEPT ![c] = v]
  /\ irqCount' = [irqCount EXCEPT ![c] = FALSE]
  /\ UNCHANGED <<count, perf, sr, ecce>>
  /\ EvalOwn(c)

(* The bits of a performance register: a counter's sign, and the enable    *)
(* bit of the control registers, the even ones, which have no sign.        *)
PerfBits == {"sign", "enable"}
Written(sel, v) == IF sel % 2 = 1 THEN v ELSE v \ {"sign"}

(* set_cp0_perf takes its argument for a pair and writes both registers of *)
(* it, where cp0_putreg gives it a register.  The pair after the last is   *)
(* ErrCtl and CCHERR in the build's layout (NUM_PERF is even, so the value *)
(* is a control register's, without ECCE); the pairs after that one are    *)
(* not modelled.                                                           *)
EcceAfter(c, sel) == [ecce EXCEPT ![c] = @ /\ sel # NumPerf]

Mtc0Perf(c, sel, v) ==
  /\ Cop0(c)
  /\ perf' = [perf EXCEPT ![c] = [r \in PerfRegs |->
                 IF r \div 2 = sel THEN Written(sel, v) ELSE @[r]]]
  /\ ecce' = EcceAfter(c, sel)
  /\ UNCHANGED <<count, compare, irqCount, sr>>
  /\ EvalOwn(c)

(* cp0_getreg reads a control register through set_cp0_perf as well, with  *)
(* the sign set in all but the last pair to say that more follow; a        *)
(* counter it only reads.                                                  *)
Mfc0PerfControl(c, sel) ==
  /\ Cop0(c) /\ sel % 2 = 0
  /\ LET more == {b \in {"sign"} : sel # 2 * (NumPerf - 1)}
     IN perf' = [perf EXCEPT ![c] = [r \in PerfRegs |->
                   IF r \div 2 = sel THEN Written(sel, @[sel]) \cup more
                   ELSE @[r]]]
  /\ ecce' = EcceAfter(c, sel)
  /\ UNCHANGED <<count, compare, irqCount, sr>>
  /\ EvalOwn(c)

(* Mutant of Eret: nothing is evaluated.                                   *)
EretSilent(c) ==
  /\ Cop0(c)
  /\ sr' = IF sr[c].erl THEN [sr EXCEPT ![c].erl = FALSE]
           ELSE [sr EXCEPT ![c].exl = FALSE]
  /\ UNCHANGED <<timer, cause, ecce, events>>

(* An error return comes before an exception return.                       *)
Eret(c) ==
  /\ Cop0(c)
  /\ sr' = IF sr[c].erl THEN [sr EXCEPT ![c].erl = FALSE]
           ELSE [sr EXCEPT ![c].exl = FALSE]
  /\ UNCHANGED <<timer, ecce>>
  /\ EvalOwn(c)

Wait(c) ==
  /\ Cop0(c)
  /\ UNCHANGED <<timer, sr, ecce>>
  /\ Eval({c}, cause, [events EXCEPT ![c] = @ \cup {"WAIT"}])

(* The TLB instructions, a move of another register, a move from one.      *)
Cop0Other(c) ==
  /\ Cop0(c)
  /\ UNCHANGED <<timer, sr, ecce>>
  /\ EvalOwn(c)

(* An instruction that traps.                                              *)
Exception(c) ==
  /\ Issue(c)
  /\ sr' = [sr EXCEPT ![c].exl = TRUE]
  /\ UNCHANGED <<cac, timer, cause, ecce, events>>

(* Any other instruction.                                                  *)
Other(c) ==
  /\ Issue(c)
  /\ UNCHANGED <<cac, timer, sr, cause, ecce, events>>
-----------------------------------------------------------------------------
(* The machine after cpu_reset of every core and cac_reset.                *)
Init ==
  /\ icr = [c \in Cores |-> [i \in Icrs |-> NoIcr]]
  /\ slowInt = {}
  /\ slowLocal = [c \in Cores |-> {}] /\ slowMask = [c \in Cores |-> {}]
  /\ count = [c \in Cores |-> 0] /\ compare = [c \in Cores |-> 0]
  /\ irqCount = [c \in Cores |-> FALSE]
  /\ perf = [c \in Cores |-> [r \in PerfRegs |-> {}]]
  /\ sr = [c \in Cores |-> ResetSr]
  /\ cause = [c \in Cores |-> {}] /\ ecce = [c \in Cores |-> FALSE]
  /\ events = [c \in Cores |-> {}]
  /\ turn = 0 /\ ticked = FALSE

Head(c) == Tick(c) \/ TakeCacheError(c) \/ TakeInterrupt(c) \/ Sleep(c)

CacAccess(c) ==
  \/ \E i \in Icrs : AckIcr(c, i)
  \/ \E mask \in SUBSET (SlowGlobal \cup SlowLocal) : WriteSlsel(c, mask)
  \/ \E clear \in SUBSET SlowLocal : WriteSlsta(c, clear)
  \/ \E d \in Cores, i \in Icrs, val \in Causes : SendInterrupt(c, d, i, val)
  \/ AccessUart(c)

Cop0Instruction(c) ==
  \/ \E s \in Sr : Mtc0Sr(c, s)
  \/ \E e \in BOOLEAN : Mtc0ErrCtl(c, e)
  \/ \E soft \in SUBSET Soft : Mtc0Cause(c, soft)
  \/ \E v \in Counts : Mtc0Count(c, v) \/ Mtc0Compare(c, v)
  \/ \E sel \in PerfRegs, v \in SUBSET PerfBits : Mtc0Perf(c, sel, v)
  \/ \E sel \in PerfRegs : Mfc0PerfControl(c, sel)
  \/ Eret(c) \/ Wait(c) \/ Cop0Other(c)

Next ==
  \/ DeviceSlow
  \/ \E c \in Cores :
       \/ EccEvent(c) \/ Reset(c)
       \/ Head(c) \/ CacAccess(c) \/ Cop0Instruction(c)
       \/ Exception(c) \/ Other(c)

Spec == Init /\ [][Next]_vars
-----------------------------------------------------------------------------
TypeOK ==
  /\ icr \in [Cores -> [Icrs -> Icr]]
  /\ slowInt \subseteq SlowGlobal
  /\ slowLocal \in [Cores -> SUBSET SlowLocal]
  /\ slowMask \in [Cores -> SUBSET (SlowGlobal \cup SlowLocal)]
  /\ count \in [Cores -> Counts] /\ compare \in [Cores -> Counts]
  /\ irqCount \in [Cores -> BOOLEAN]
  /\ perf \in [Cores -> [PerfRegs -> SUBSET PerfBits]]
  /\ sr \in [Cores -> Sr]
  /\ cause \in [Cores -> SUBSET Levels] /\ ecce \in [Cores -> BOOLEAN]
  /\ events \in [Cores -> SUBSET {"INT", "WAIT", "CCHE"}]
  /\ turn \in Cores /\ ticked \in BOOLEAN

(* What the core would be told if its sources were looked at now.          *)
Pending(c) == ((cause[c] \cap Soft) \cup Requests(c)) \cap sr[c].im

(* A core is interrupted only when interrupts are on, outside every        *)
(* handler, and for a source that is still asking and not masked, whatever *)
(* the other cores and the devices did since eval_intr last looked.        *)
NoStrayInterrupt ==
  \A c \in Cores :
    "INT" \in events[c] =>
      Enabled(sr[c]) /\ Pending(c) # {} /\ cause[c] \cap sr[c].im # {}

(* No interrupt is overlooked: when a core could be interrupted, EVT_INT   *)
(* is set before its next instruction.  The exception is a slow interrupt, *)
(* which cac_wr leaves unnoticed when it changes the mask.                 *)
OnlySlowIsLate ==
  \A c \in Cores :
    Enabled(sr[c]) /\ Pending(c) \ {SlowLevel} # {} => "INT" \in events[c]

(* What cp0_getreg and cp0_putreg say of the performance registers: 0 and  *)
(* 2 control, 1 and 3 count, and a register changes only when it is        *)
(* written.                                                                *)
PerfAsWritten ==
  [][\A c \in Cores, r \in PerfRegs :
       perf'[c][r] # perf[c][r] =>
         Reset(c) \/ \E v \in SUBSET PerfBits : Mtc0Perf(c, r, v)]_vars
=============================================================================
