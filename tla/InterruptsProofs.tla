-------------------------- MODULE InterruptsProofs --------------------------
(***************************************************************************)
(* What the runs check of module Interrupts on two cores, for any number   *)
(* of cores, cause registers and performance counters; and of module       *)
(* Kernel, that its cores do not sleep over what asks for them.            *)
(***************************************************************************)
EXTENDS Kernel, TLAPS

(* Cause is out of date, if at all, in the bit of the slow interrupts.     *)
Fresh(c) ==
  \A l \in Levels \ {SlowLevel} :
    l \in cause[c] /\ l \notin Soft <=> l \in Requests(c)

(* EVT_INT speaks of an interrupt that can be delivered, and then the bit  *)
(* of the slow interrupts is up to date as well.                           *)
Known(c) ==
  "INT" \in events[c] =>
    Deliverable(c) /\ (SlowLevel \in cause[c] => SlowLevel \in Requests(c))

(* What Cause shows has been noticed.                                      *)
Noticed(c) == Deliverable(c) => "INT" \in events[c]

CoreInv(c) == Fresh(c) /\ Known(c) /\ Noticed(c)

IntInv == TypeOK /\ \A c \in Cores : CoreInv(c)
-----------------------------------------------------------------------------
(* No source asks at one of the software levels, or outside Cause.IP.      *)
RequestsTyped == \A c \in Cores : Requests(c) \subseteq Levels \ Soft

LEMMA RequestLevels == RequestsTyped
<1> SUFFICES ASSUME NEW c \in Cores, NEW l \in Requests(c)
             PROVE  l \in Levels \ Soft
  BY DEF RequestsTyped
<1>1. CASE \E i \in Icrs : l = 2 + (i \div 2)
  BY <1>1, SizesAssumption DEF Icrs, Levels, Soft
<1>2. CASE l \in {SlowLevel, CountLevel, PerfLevel}
  BY <1>2 DEF Levels, Soft, SlowLevel, CountLevel, PerfLevel
<1>3. (\E i \in Icrs : l = 2 + (i \div 2)) \/ l \in {SlowLevel, CountLevel, PerfLevel}
  BY DEF Requests, Pins
<1> QED BY <1>1, <1>2, <1>3

(* What a core asks for depends on its own registers and the slow          *)
(* interrupts all cores share.                                             *)
LEMMA RequestsFrame ==
  ASSUME NEW c \in Cores,
         \A i \in Icrs : icr'[c][i].act = icr[c][i].act,
         Slow(c)' = Slow(c), irqCount'[c] = irqCount[c], perf'[c] = perf[c]
  PROVE  Requests(c)' = Requests(c)
BY DEF Requests, Pins, PerfRequest

(* The core whose bit eval_intr has just computed.                         *)
LEMMA Evaluated ==
  ASSUME NEW S, NEW soft, NEW ev, Eval(S, soft, ev),
         NEW c \in Cores, c \in S, Requests(c)' \subseteq Levels \ Soft
  PROVE  CoreInv(c)'
<1>1. cause'[c] = (soft[c] \cap Soft) \cup Requests(c)'
  BY DEF Eval
<1>2. "INT" \in events'[c] <=> Deliverable(c)'
  BY DEF Eval
<1>3. Fresh(c)'
  BY <1>1 DEF Fresh
<1>4. Known(c)'
  BY <1>1, <1>2 DEF Known, Soft, SlowLevel
<1>5. Noticed(c)'
  BY <1>2 DEF Noticed
<1> QED BY <1>3, <1>4, <1>5 DEF CoreInv

(* A core of which nothing changed but its other events.                   *)
LEMMA Untouched ==
  ASSUME NEW c \in Cores, CoreInv(c),
         Requests(c)' = Requests(c), cause'[c] = cause[c], sr'[c] = sr[c],
         "INT" \in events'[c] <=> "INT" \in events[c]
  PROVE  CoreInv(c)'
<1>1. Fresh(c)' BY DEF CoreInv, Fresh
<1>2. Known(c)' BY DEF CoreInv, Known, Deliverable
<1>3. Noticed(c)' BY DEF CoreInv, Noticed, Deliverable
<1> QED BY <1>1, <1>2, <1>3 DEF CoreInv

(* A core that enters a handler.                                           *)
LEMMA Entered ==
  ASSUME NEW c \in Cores, CoreInv(c),
         Requests(c)' = Requests(c), cause'[c] = cause[c],
         ~Enabled(sr'[c]), events'[c] = {}
  PROVE  CoreInv(c)'
<1>1. Fresh(c)' BY DEF CoreInv, Fresh
<1>2. Known(c)' BY DEF Known
<1>3. Noticed(c)' BY DEF Noticed, Deliverable
<1> QED BY <1>1, <1>2, <1>3 DEF CoreInv
-----------------------------------------------------------------------------
LEMMA RequestLevelsNext == \A c \in Cores : Requests(c)' \subseteq Levels \ Soft
<1>1. RequestsTyped'
  BY RequestLevels, PTL
<1> QED BY <1>1 DEF RequestsTyped

(* eval_intr keeps the types of Cause and of the events.                   *)
LEMMA EvalTyped ==
  ASSUME NEW S, NEW soft \in [Cores -> SUBSET Levels],
         NEW ev \in [Cores -> SUBSET {"INT", "WAIT", "CCHE"}],
         Eval(S, soft, ev)
  PROVE  /\ cause' \in [Cores -> SUBSET Levels]
         /\ events' \in [Cores -> SUBSET {"INT", "WAIT", "CCHE"}]
<1>1. \A c \in Cores : Requests(c)' \subseteq Levels
  BY RequestLevelsNext
<1>2. cause' \in [Cores -> SUBSET Levels]
  BY <1>1 DEF Eval
<1>3. events' \in [Cores -> SUBSET {"INT", "WAIT", "CCHE"}]
  BY DEF Eval
<1> QED BY <1>2, <1>3

LEMMA OwnTyped ==
  ASSUME TypeOK, NEW c \in Cores, EvalOwn(c) \/ EvalAll
  PROVE  /\ cause' \in [Cores -> SUBSET Levels]
         /\ events' \in [Cores -> SUBSET {"INT", "WAIT", "CCHE"}]
<1>1. PICK S : Eval(S, cause, events)
  BY DEF EvalOwn, EvalAll
<1> QED BY <1>1, EvalTyped DEF TypeOK

(* Changing one bit of SR, and what a delivered interrupt leaves.          *)
LEMMA SrTyped ==
  ASSUME NEW s \in Sr, NEW b \in BOOLEAN
  PROVE  [s EXCEPT !.exl = b] \in Sr /\ [s EXCEPT !.erl = b] \in Sr
BY DEF Sr

LEMMA DeliverTyped ==
  ASSUME NEW r \in Icr, NEW val \in Causes
  PROVE  Deliver(r, val) \in Icr
BY DEF Icr, Deliver

LEMMA InitTyped == Init => TypeOK
<1> SUFFICES ASSUME Init PROVE TypeOK
  OBVIOUS
<1> USE SizesAssumption DEF Init
<1>1. icr \in [Cores -> [Icrs -> Icr]]
  BY DEF NoIcr, Icr
<1>2. slowInt \subseteq SlowGlobal
  OBVIOUS
<1>3. slowLocal \in [Cores -> SUBSET SlowLocal]
  OBVIOUS
<1>4. slowMask \in [Cores -> SUBSET (SlowGlobal \cup SlowLocal)]
  OBVIOUS
<1>5. count \in [Cores -> Counts] /\ compare \in [Cores -> Counts]
  BY DEF Counts
<1>6. irqCount \in [Cores -> BOOLEAN] /\ ecce \in [Cores -> BOOLEAN]
  OBVIOUS
<1>7. perf \in [Cores -> [PerfRegs -> SUBSET PerfBits]]
  OBVIOUS
<1>8. sr \in [Cores -> Sr]
  BY DEF ResetSr, Sr
<1>9. cause \in [Cores -> SUBSET Levels]
  OBVIOUS
<1>10. events \in [Cores -> SUBSET {"INT", "WAIT", "CCHE"}]
  OBVIOUS
<1>11. turn \in Cores
  BY DEF Cores
<1>12. ticked \in BOOLEAN
  OBVIOUS
<1> QED
  BY <1>1, <1>2, <1>3, <1>4, <1>5, <1>6, <1>7, <1>8, <1>9, <1>10, <1>11,
     <1>12
     DEF TypeOK

LEMMA EndCycleTyped ==
  ASSUME TypeOK, EndCycle
  PROVE  turn' \in Cores /\ ticked' \in BOOLEAN
<1>1. turn \in Int /\ NumCores \in Int /\ NumCores > 0
  BY SizesAssumption DEF TypeOK, Cores
<1>2. (turn + 1) % NumCores \in 0 .. NumCores - 1
  BY <1>1
<1> QED BY <1>2 DEF EndCycle, Cores

(* Devices and the console keep the types.                                 *)
LEMMA OutsideTyped ==
  ASSUME TypeOK, NEW c \in Cores,
         DeviceSlow \/ EccEvent(c) \/ Reset(c)
  PROVE  TypeOK'
<1> USE DEF TypeOK
<1>1. CASE DeviceSlow
  <2>1. slowInt' \subseteq SlowGlobal
    BY <1>1, SizesAssumption DEF DeviceSlow
  <2>2. /\ cause' \in [Cores -> SUBSET Levels]
        /\ events' \in [Cores -> SUBSET {"INT", "WAIT", "CCHE"}]
    BY <1>1, OwnTyped DEF DeviceSlow
  <2> QED BY <1>1, <2>1, <2>2 DEF DeviceSlow, timer, loop
<1>2. CASE EccEvent(c)
  <2>1. slowLocal' \in [Cores -> SUBSET SlowLocal]
    BY <1>2 DEF EccEvent
  <2>2. ecce' \in [Cores -> BOOLEAN]
    BY <1>2 DEF EccEvent
  <2>3. PICK ev \in [Cores -> SUBSET {"INT", "WAIT", "CCHE"}] :
          Eval(Cores, cause, ev)
    BY <1>2 DEF EccEvent, EvalAll
  <2>4. /\ cause' \in [Cores -> SUBSET Levels]
        /\ events' \in [Cores -> SUBSET {"INT", "WAIT", "CCHE"}]
    BY <2>3, EvalTyped
  <2> QED BY <1>2, <2>1, <2>2, <2>4 DEF EccEvent, timer, loop
<1>3. CASE Reset(c)
  <2>1. icr' \in [Cores -> [Icrs -> Icr]]
    BY <1>3 DEF Reset, NoIcr, Icr
  <2>2. slowLocal' \in [Cores -> SUBSET SlowLocal] /\
        slowMask' \in [Cores -> SUBSET (SlowGlobal \cup SlowLocal)]
    BY <1>3 DEF Reset
  <2>3. count' \in [Cores -> Counts] /\ compare' \in [Cores -> Counts]
    BY <1>3, SizesAssumption DEF Reset, Counts
  <2>4. irqCount' \in [Cores -> BOOLEAN]
    BY <1>3 DEF Reset
  <2>5. perf' \in [Cores -> [PerfRegs -> SUBSET PerfBits]]
    BY <1>3 DEF Reset
  <2>6. sr' \in [Cores -> Sr]
    BY <1>3 DEF Reset, Sr, ResetSr
  <2>7. /\ cause' \in [Cores -> SUBSET Levels]
        /\ events' \in [Cores -> SUBSET {"INT", "WAIT", "CCHE"}]
    <3>1. [events EXCEPT ![c] = {}] \in [Cores -> SUBSET {"INT", "WAIT", "CCHE"}]
      OBVIOUS
    <3>2. Eval(Cores, cause, [events EXCEPT ![c] = {}])
      BY <1>3 DEF Reset
    <3> QED BY <3>1, <3>2, EvalTyped
  <2> QED BY <1>3, <2>1, <2>2, <2>3, <2>4, <2>5, <2>6, <2>7 DEF Reset, loop
<1> QED BY <1>1, <1>2, <1>3

(* So does the head of a cycle,                                            *)
LEMMA HeadTyped ==
  ASSUME TypeOK, NEW c \in Cores, Head(c)
  PROVE  TypeOK'
<1> USE DEF TypeOK
<1>1. CASE Tick(c)
  <2>1. count' \in [Cores -> Counts]
    <3>1. \A n \in Counts : (n + 1) % CountMod \in Counts
      BY SizesAssumption DEF Counts
    <3> QED BY <1>1, <3>1 DEF Tick
  <2>2. irqCount' \in [Cores -> BOOLEAN]
    BY <1>1 DEF Tick
  <2>3. /\ cause' \in [Cores -> SUBSET Levels]
        /\ events' \in [Cores -> SUBSET {"INT", "WAIT", "CCHE"}]
    BY <1>1, OwnTyped DEF Tick
  <2> QED BY <1>1, <2>1, <2>2, <2>3 DEF Tick, cac
<1>2. CASE TakeCacheError(c) \/ TakeInterrupt(c)
  <2>1. sr' \in [Cores -> Sr]
    <3>1. \/ sr' = [sr EXCEPT ![c] = [sr[c] EXCEPT !.erl = TRUE]]
          \/ sr' = [sr EXCEPT ![c] = [sr[c] EXCEPT !.exl = TRUE]]
      BY <1>2 DEF TakeCacheError, TakeInterrupt
    <3>2. /\ [sr[c] EXCEPT !.erl = TRUE] \in Sr
          /\ [sr[c] EXCEPT !.exl = TRUE] \in Sr
      BY SrTyped
    <3> QED BY <3>1, <3>2
  <2>2. events' \in [Cores -> SUBSET {"INT", "WAIT", "CCHE"}]
    BY <1>2 DEF TakeCacheError, TakeInterrupt
  <2> QED BY <1>2, <2>1, <2>2 DEF TakeCacheError, TakeInterrupt, cac, timer, loop
<1>3. CASE Sleep(c)
  BY <1>3, EndCycleTyped DEF Sleep, cac, timer
<1> QED BY <1>1, <1>2, <1>3 DEF Head

(* a load or store of the cache controller or the UART,                    *)
LEMMA CacTyped ==
  ASSUME TypeOK, NEW c \in Cores, CacAccess(c)
  PROVE  TypeOK'
<1> USE DEF TypeOK
<1>0. turn' \in Cores /\ ticked' \in BOOLEAN
  BY EndCycleTyped
     DEF CacAccess, AckIcr, WriteSlsel, WriteSlsta, SendInterrupt, AccessUart, Issue
<1>1. ASSUME NEW i \in Icrs, AckIcr(c, i) PROVE TypeOK'
  <2>1. icr' \in [Cores -> [Icrs -> Icr]]
    <3>1. icr' = [icr EXCEPT ![c] = [icr[c] EXCEPT ![i] =
                    [icr[c][i] EXCEPT !.act = FALSE, !.ovf = FALSE]]]
      BY <1>1 DEF AckIcr
    <3>2. icr[c] \in [Icrs -> Icr] /\ icr[c][i] \in Icr
      OBVIOUS
    <3>3. [icr[c][i] EXCEPT !.act = FALSE, !.ovf = FALSE] \in Icr
      BY <3>2 DEF Icr
    <3> QED BY <3>1, <3>2, <3>3
  <2>2. /\ cause' \in [Cores -> SUBSET Levels]
        /\ events' \in [Cores -> SUBSET {"INT", "WAIT", "CCHE"}]
    BY <1>1, OwnTyped DEF AckIcr
  <2> QED BY <1>0, <1>1, <2>1, <2>2 DEF AckIcr, timer
<1>2. ASSUME NEW m \in SUBSET (SlowGlobal \cup SlowLocal), WriteSlsel(c, m)
      PROVE  TypeOK'
  <2>1. slowMask' \in [Cores -> SUBSET (SlowGlobal \cup SlowLocal)]
    BY <1>2 DEF WriteSlsel
  <2> QED BY <1>0, <1>2, <2>1 DEF WriteSlsel, timer
<1>3. ASSUME NEW e \in SUBSET SlowLocal, WriteSlsta(c, e) PROVE TypeOK'
  <2>1. slowLocal' \in [Cores -> SUBSET SlowLocal]
    BY <1>3 DEF WriteSlsta
  <2>2. /\ cause' \in [Cores -> SUBSET Levels]
        /\ events' \in [Cores -> SUBSET {"INT", "WAIT", "CCHE"}]
    BY <1>3, OwnTyped DEF WriteSlsta
  <2> QED BY <1>0, <1>3, <2>1, <2>2 DEF WriteSlsta, timer
<1>4. ASSUME NEW d \in Cores, NEW i \in Icrs, NEW val \in Causes,
             SendInterrupt(c, d, i, val)
      PROVE  TypeOK'
  <2>1. Deliver(icr[d][i], val) \in Icr
    <3>1. icr[d][i] \in Icr
      OBVIOUS
    <3> QED BY <3>1, DeliverTyped
  <2>2. icr' \in [Cores -> [Icrs -> Icr]]
    BY <1>4, <2>1 DEF SendInterrupt
  <2>3. /\ cause' \in [Cores -> SUBSET Levels]
        /\ events' \in [Cores -> SUBSET {"INT", "WAIT", "CCHE"}]
    BY <1>4, OwnTyped DEF SendInterrupt
  <2> QED BY <1>0, <1>4, <2>2, <2>3 DEF SendInterrupt, timer
<1>5. ASSUME AccessUart(c) PROVE TypeOK'
  <2>1. slowInt' \subseteq SlowGlobal
    BY <1>5, SizesAssumption DEF AccessUart
  <2>2. /\ cause' \in [Cores -> SUBSET Levels]
        /\ events' \in [Cores -> SUBSET {"INT", "WAIT", "CCHE"}]
    BY <1>5, OwnTyped DEF AccessUart
  <2> QED BY <1>0, <1>5, <2>1, <2>2 DEF AccessUart, timer
<1> QED BY <1>1, <1>2, <1>3, <1>4, <1>5 DEF CacAccess

(* an instruction of coprocessor 0,                                        *)
LEMMA Cop0Typed ==
  ASSUME TypeOK, NEW c \in Cores, Cop0Instruction(c)
  PROVE  TypeOK'
<1> USE DEF TypeOK
<1>1. /\ turn' \in Cores /\ ticked' \in BOOLEAN
      /\ UNCHANGED cac
  BY EndCycleTyped
     DEF Cop0Instruction, Mtc0Sr, Mtc0ErrCtl, Mtc0Cause, Mtc0Count, Mtc0Compare,
         Mtc0Perf, Mfc0PerfControl, Eret, Wait, Cop0Other, Cop0, Issue
<1>2. sr' \in [Cores -> Sr]
  <2>1. \/ \E s \in Sr : sr' = [sr EXCEPT ![c] = s]
        \/ sr' = [sr EXCEPT ![c] = [sr[c] EXCEPT !.erl = FALSE]]
        \/ sr' = [sr EXCEPT ![c] = [sr[c] EXCEPT !.exl = FALSE]]
        \/ sr' = sr
    BY DEF Cop0Instruction, Mtc0Sr, Mtc0ErrCtl, Mtc0Cause, Mtc0Count,
           Mtc0Compare, Mtc0Perf, Mfc0PerfControl, Eret, Wait, Cop0Other
  <2>2. /\ [sr[c] EXCEPT !.erl = FALSE] \in Sr
        /\ [sr[c] EXCEPT !.exl = FALSE] \in Sr
    BY SrTyped
  <2> QED BY <2>1, <2>2
<1>3. ecce' \in [Cores -> BOOLEAN]
  <2>1. ASSUME NEW sel \in PerfRegs
        PROVE  EcceAfter(c, sel) \in [Cores -> BOOLEAN]
    BY Zenon DEF EcceAfter
  <2>2. \/ \E sel \in PerfRegs : ecce' = EcceAfter(c, sel)
        \/ \E e \in BOOLEAN : ecce' = [ecce EXCEPT ![c] = e]
        \/ ecce' = ecce
    BY DEF Cop0Instruction, Mtc0Sr, Mtc0ErrCtl, Mtc0Cause, Mtc0Count,
           Mtc0Compare, Mtc0Perf, Mfc0PerfControl, Eret, Wait, Cop0Other
  <2> QED BY <2>1, <2>2
<1>4. /\ count' \in [Cores -> Counts] /\ compare' \in [Cores -> Counts]
      /\ irqCount' \in [Cores -> BOOLEAN]
  <2>1. \/ \E v \in Counts : Mtc0Count(c, v) \/ Mtc0Compare(c, v)
        \/ UNCHANGED <<count, compare, irqCount>>
    BY DEF Cop0Instruction, Mtc0Sr, Mtc0ErrCtl, Mtc0Cause, Mtc0Perf,
           Mfc0PerfControl, Eret, Wait, Cop0Other, timer
  <2>2. ASSUME NEW v \in Counts, Mtc0Count(c, v) \/ Mtc0Compare(c, v)
        PROVE  /\ count' \in [Cores -> Counts] /\ compare' \in [Cores -> Counts]
               /\ irqCount' \in [Cores -> BOOLEAN]
    BY <2>2 DEF Mtc0Count, Mtc0Compare
  <2> QED BY <2>1, <2>2
<1>5. perf' \in [Cores -> [PerfRegs -> SUBSET PerfBits]]
  <2>1. ASSUME NEW sel \in PerfRegs, NEW v \in SUBSET PerfBits, Mtc0Perf(c, sel, v)
        PROVE  perf' \in [Cores -> [PerfRegs -> SUBSET PerfBits]]
    BY <2>1 DEF Mtc0Perf, Written
  <2>2. ASSUME NEW sel \in PerfRegs, Mfc0PerfControl(c, sel)
        PROVE  perf' \in [Cores -> [PerfRegs -> SUBSET PerfBits]]
    BY <2>2 DEF Mfc0PerfControl, Written, PerfBits
  <2>3. \/ \E sel \in PerfRegs, v \in SUBSET PerfBits : Mtc0Perf(c, sel, v)
        \/ \E sel \in PerfRegs : Mfc0PerfControl(c, sel)
        \/ perf' = perf
    BY DEF Cop0Instruction, Mtc0Sr, Mtc0ErrCtl, Mtc0Cause, Mtc0Count,
           Mtc0Compare, Eret, Wait, Cop0Other, timer
  <2> QED BY <2>1, <2>2, <2>3
<1>6. PICK soft \in [Cores -> SUBSET Levels],
           ev \in [Cores -> SUBSET {"INT", "WAIT", "CCHE"}] : Eval({c}, soft, ev)
  <2>1. CASE EvalOwn(c)
    BY <2>1 DEF EvalOwn
  <2>2. ASSUME NEW s \in SUBSET Soft, Mtc0Cause(c, s)
        PROVE  /\ Eval({c}, [cause EXCEPT ![c] = s], events)
               /\ [cause EXCEPT ![c] = s] \in [Cores -> SUBSET Levels]
    BY <2>2 DEF Mtc0Cause, Soft, Levels
  <2>3. ASSUME Wait(c)
        PROVE  /\ Eval({c}, cause, [events EXCEPT ![c] = @ \cup {"WAIT"}])
               /\ [events EXCEPT ![c] = @ \cup {"WAIT"}]
                    \in [Cores -> SUBSET {"INT", "WAIT", "CCHE"}]
    BY <2>3 DEF Wait
  <2>4. EvalOwn(c) \/ (\E s \in SUBSET Soft : Mtc0Cause(c, s)) \/ Wait(c)
    BY DEF Cop0Instruction, Mtc0Sr, Mtc0ErrCtl, Mtc0Count, Mtc0Compare,
           Mtc0Perf, Mfc0PerfControl, Eret, Cop0Other
  <2> QED BY <2>1, <2>2, <2>3, <2>4
<1>7. /\ cause' \in [Cores -> SUBSET Levels]
      /\ events' \in [Cores -> SUBSET {"INT", "WAIT", "CCHE"}]
  BY <1>6, EvalTyped
<1> QED BY <1>1, <1>2, <1>3, <1>4, <1>5, <1>7 DEF cac

(* and every other instruction.                                            *)
LEMMA OtherTyped ==
  ASSUME TypeOK, NEW c \in Cores, Exception(c) \/ Other(c)
  PROVE  TypeOK'
<1>1. turn' \in Cores /\ ticked' \in BOOLEAN
  BY EndCycleTyped DEF Exception, Other, Issue
<1>2. sr' \in [Cores -> Sr]
  <2>1. sr' = sr \/ sr' = [sr EXCEPT ![c] = [sr[c] EXCEPT !.exl = TRUE]]
    BY DEF Exception, Other
  <2>2. [sr[c] EXCEPT !.exl = TRUE] \in Sr
    BY SrTyped DEF TypeOK
  <2> QED BY <2>1, <2>2 DEF TypeOK
<1> QED BY <1>1, <1>2 DEF TypeOK, Exception, Other, cac, timer

LEMMA NextTyped == TypeOK /\ [Next]_vars => TypeOK'
<1> SUFFICES ASSUME TypeOK, [Next]_vars PROVE TypeOK'
  OBVIOUS
<1>1. CASE UNCHANGED vars
  BY <1>1 DEF TypeOK, vars, cac, timer, loop
<1>2. CASE DeviceSlow
  <2>1. 0 \in Cores
    BY SizesAssumption DEF Cores
  <2> QED BY <1>2, <2>1, OutsideTyped
<1>3. ASSUME NEW c \in Cores,
             \/ EccEvent(c) \/ Reset(c)
             \/ Head(c) \/ CacAccess(c) \/ Cop0Instruction(c)
             \/ Exception(c) \/ Other(c)
      PROVE  TypeOK'
  BY <1>3, OutsideTyped, HeadTyped, CacTyped, Cop0Typed, OtherTyped
<1> QED BY <1>1, <1>2, <1>3 DEF Next

(* The interrupt state keeps its type: Cause never shows a level it does   *)
(* not have, and Count stays within its width.                             *)
THEOREM InterruptsTyped == Spec => []TypeOK
BY InitTyped, NextTyped, PTL DEF Spec
-----------------------------------------------------------------------------
LEMMA InitCore ==
  ASSUME Init, NEW c \in Cores
  PROVE  CoreInv(c)
<1>1. Requests(c) = {}
  <2>1. \A i \in Icrs : ~icr[c][i].act
    BY DEF Init, NoIcr
  <2>2. Slow(c) = {} /\ ~irqCount[c]
    BY DEF Init, Slow
  <2>3. ~PerfRequest(c)
    <3>1. \A p \in 0 .. NumPerf - 1 : 2 * p + 1 \in PerfRegs
      BY SizesAssumption DEF PerfRegs
    <3>2. \A r \in PerfRegs : perf[c][r] = {}
      BY DEF Init
    <3> QED BY <3>1, <3>2 DEF PerfRequest
  <2> QED BY <2>1, <2>2, <2>3 DEF Requests, Pins
<1>2. cause[c] = {} /\ events[c] = {}
  BY DEF Init
<1> QED BY <1>1, <1>2 DEF CoreInv, Fresh, Known, Noticed, Deliverable

(* Evaluating one core, with the rest of the machine as it was.            *)
LEMMA EvaluatedOne ==
  ASSUME \A d \in Cores : CoreInv(d),
         NEW c \in Cores, NEW soft, NEW ev, Eval({c}, soft, ev),
         \A d \in Cores \ {c} :
           /\ soft[d] = cause[d] /\ ev[d] = events[d] /\ sr'[d] = sr[d]
           /\ Requests(d)' = Requests(d)
  PROVE  \A d \in Cores : CoreInv(d)'
<1>1. CoreInv(c)'
  BY Evaluated, RequestLevelsNext
<1>2. ASSUME NEW d \in Cores \ {c} PROVE CoreInv(d)'
  <2>1. cause'[d] = cause[d] /\ events'[d] = events[d]
    BY DEF Eval
  <2> QED BY <2>1, Untouched
<1> QED BY <1>1, <1>2

LEMMA EvaluatedAll ==
  ASSUME NEW soft, NEW ev, Eval(Cores, soft, ev)
  PROVE  \A d \in Cores : CoreInv(d)'
BY Evaluated, RequestLevelsNext

LEMMA OutsideCore ==
  ASSUME NEW c \in Cores, DeviceSlow \/ EccEvent(c) \/ Reset(c)
  PROVE  \A d \in Cores : CoreInv(d)'
<1>1. \E soft, ev : Eval(Cores, soft, ev)
  BY DEF DeviceSlow, EccEvent, Reset, EvalAll
<1> QED BY <1>1, EvaluatedAll

LEMMA HeadCore ==
  ASSUME TypeOK, \A d \in Cores : CoreInv(d), NEW c \in Cores, Head(c)
  PROVE  \A d \in Cores : CoreInv(d)'
<1>1. CASE Tick(c) /\ EvalOwn(c)
  <2>1. ASSUME NEW d \in Cores \ {c} PROVE Requests(d)' = Requests(d)
    <3>1. irqCount'[d] = irqCount[d]
      BY <1>1 DEF Tick, TypeOK
    <3>2. icr' = icr /\ Slow(d)' = Slow(d) /\ perf' = perf
      BY <1>1 DEF Tick, cac, Slow
    <3> QED BY <3>1, <3>2, RequestsFrame
  <2>2. sr' = sr
    BY <1>1 DEF Tick
  <2> QED BY <1>1, <2>1, <2>2, EvaluatedOne DEF EvalOwn
<1>2. CASE Tick(c) /\ ~EvalOwn(c)
  <2>1. UNCHANGED <<cac, irqCount, perf, sr, cause, events>>
    BY <1>2 DEF Tick
  <2>2. \A d \in Cores : Requests(d)' = Requests(d)
    BY <2>1, RequestsFrame DEF cac, Slow
  <2> QED BY <2>1, <2>2, Untouched
<1>3. CASE TakeCacheError(c) \/ TakeInterrupt(c)
  <2>1. UNCHANGED <<cac, irqCount, perf, cause>>
    BY <1>3 DEF TakeCacheError, TakeInterrupt, timer
  <2>2. \A d \in Cores : Requests(d)' = Requests(d)
    BY <2>1, RequestsFrame DEF cac, Slow
  <2>3. events'[c] = {} /\ ~Enabled(sr'[c])
    BY <1>3 DEF TakeCacheError, TakeInterrupt, TypeOK, Enabled, Sr
  <2>4. CoreInv(c)'
    BY <2>1, <2>2, <2>3, Entered
  <2>5. ASSUME NEW d \in Cores \ {c} PROVE CoreInv(d)'
    <3>1. events'[d] = events[d] /\ sr'[d] = sr[d]
      BY <1>3 DEF TakeCacheError, TakeInterrupt, TypeOK
    <3> QED BY <2>1, <2>2, <3>1, Untouched
  <2> QED BY <2>4, <2>5
<1>4. CASE Sleep(c)
  <2>1. UNCHANGED <<cac, irqCount, perf, sr, cause, events>>
    BY <1>4 DEF Sleep, timer
  <2>2. \A d \in Cores : Requests(d)' = Requests(d)
    BY <2>1, RequestsFrame DEF cac, Slow
  <2> QED BY <2>1, <2>2, Untouched
<1> QED BY <1>1, <1>2, <1>3, <1>4 DEF Head

LEMMA CacCore ==
  ASSUME TypeOK, \A d \in Cores : CoreInv(d), NEW c \in Cores, CacAccess(c)
  PROVE  \A d \in Cores : CoreInv(d)'
<1>1. ASSUME NEW i \in Icrs, AckIcr(c, i)
      PROVE  \A d \in Cores : CoreInv(d)'
  <2>1. ASSUME NEW d \in Cores \ {c} PROVE Requests(d)' = Requests(d)
    <3>1. icr'[d] = icr[d]
      BY <1>1 DEF AckIcr, TypeOK
    <3>2. Slow(d)' = Slow(d) /\ irqCount' = irqCount /\ perf' = perf
      BY <1>1 DEF AckIcr, Slow, timer
    <3> QED BY <3>1, <3>2, RequestsFrame
  <2> QED BY <1>1, <2>1, EvaluatedOne DEF AckIcr, EvalOwn
<1>2. ASSUME NEW m \in SUBSET (SlowGlobal \cup SlowLocal), WriteSlsel(c, m)
      PROVE  \A d \in Cores : CoreInv(d)'
  <2>1. ASSUME NEW d \in Cores \ {c} PROVE CoreInv(d)'
    <3>1. Slow(d)' = Slow(d)
      BY <1>2 DEF WriteSlsel, Slow, TypeOK
    <3>2. Requests(d)' = Requests(d)
      BY <1>2, <3>1, RequestsFrame DEF WriteSlsel, timer
    <3> QED BY <1>2, <3>2, Untouched DEF WriteSlsel
  <2>2. events[c] = {}
    BY <1>2 DEF WriteSlsel, Issue
  <2>3. \A l \in Levels \ {SlowLevel} : l \in Requests(c)' <=> l \in Requests(c)
    <3>1. icr' = icr /\ irqCount' = irqCount /\ perf' = perf
      BY <1>2 DEF WriteSlsel, timer
    <3> QED BY <3>1 DEF Requests, Pins, PerfRequest
  <2>4. Fresh(c)'
    BY <1>2, <2>3 DEF WriteSlsel, Fresh, CoreInv
  <2>5. Known(c)'
    BY <1>2, <2>2 DEF WriteSlsel, Known
  <2>6. Noticed(c)'
    BY <1>2 DEF WriteSlsel, Noticed, Deliverable, CoreInv
  <2> QED BY <2>1, <2>4, <2>5, <2>6 DEF CoreInv
<1>3. ASSUME NEW e \in SUBSET SlowLocal, WriteSlsta(c, e)
      PROVE  \A d \in Cores : CoreInv(d)'
  <2>1. ASSUME NEW d \in Cores \ {c} PROVE Requests(d)' = Requests(d)
    <3>1. Slow(d)' = Slow(d)
      BY <1>3 DEF WriteSlsta, Slow, TypeOK
    <3> QED BY <1>3, <3>1, RequestsFrame DEF WriteSlsta, timer
  <2> QED BY <1>3, <2>1, EvaluatedOne DEF WriteSlsta, EvalOwn
<1>4. ASSUME NEW d \in Cores, NEW i \in Icrs, NEW val \in Causes,
             SendInterrupt(c, d, i, val)
      PROVE  \A e \in Cores : CoreInv(e)'
  <2>1. CASE icr[d][i].act
    <3>1. \A e \in Cores, j \in Icrs : icr'[e][j].act = icr[e][j].act
      BY <1>4, <2>1 DEF SendInterrupt, Deliver, TypeOK, Icr
    <3>2. UNCHANGED <<slowInt, slowLocal, slowMask, irqCount, perf, sr, cause, events>>
      BY <1>4, <2>1 DEF SendInterrupt, timer
    <3>3. \A e \in Cores : Requests(e)' = Requests(e)
      BY <3>1, <3>2, RequestsFrame DEF Slow
    <3> QED BY <3>2, <3>3, Untouched
  <2>2. CASE ~icr[d][i].act
    BY <1>4, <2>2, EvaluatedAll DEF SendInterrupt, EvalAll
  <2> QED BY <2>1, <2>2
<1>5. ASSUME AccessUart(c) PROVE \A d \in Cores : CoreInv(d)'
  BY <1>5, EvaluatedAll DEF AccessUart, EvalAll
<1> QED BY <1>1, <1>2, <1>3, <1>4, <1>5 DEF CacAccess

(* Every instruction of coprocessor 0 ends in eval_intr of its core and    *)
(* leaves the other cores alone.                                           *)
LEMMA Cop0Core ==
  ASSUME TypeOK, \A d \in Cores : CoreInv(d), NEW c \in Cores,
         Cop0Instruction(c)
  PROVE  \A d \in Cores : CoreInv(d)'
<1>1. UNCHANGED cac
  BY DEF Cop0Instruction, Mtc0Sr, Mtc0ErrCtl, Mtc0Cause, Mtc0Count, Mtc0Compare,
         Mtc0Perf, Mfc0PerfControl, Eret, Wait, Cop0Other, Cop0
<1>2. \A d \in Cores \ {c} :
        sr'[d] = sr[d] /\ irqCount'[d] = irqCount[d] /\ perf'[d] = perf[d]
  BY DEF TypeOK, Cop0Instruction, Mtc0Sr, Mtc0ErrCtl, Mtc0Cause, Mtc0Count,
         Mtc0Compare, Mtc0Perf, Mfc0PerfControl, Eret, Wait, Cop0Other, timer
<1>3. \A d \in Cores \ {c} : Requests(d)' = Requests(d)
  BY <1>1, <1>2, RequestsFrame DEF cac, Slow
<1>4. CASE EvalOwn(c)
  BY <1>2, <1>3, <1>4, EvaluatedOne DEF EvalOwn
<1>5. ASSUME NEW s \in SUBSET Soft, Mtc0Cause(c, s)
      PROVE  \A d \in Cores : CoreInv(d)'
  <2>1. Eval({c}, [cause EXCEPT ![c] = s], events)
    BY <1>5 DEF Mtc0Cause
  <2>2. \A d \in Cores \ {c} : [cause EXCEPT ![c] = s][d] = cause[d]
    BY DEF TypeOK
  <2> QED BY <1>2, <1>3, <2>1, <2>2, EvaluatedOne
<1>6. CASE Wait(c)
  <2>1. Eval({c}, cause, [events EXCEPT ![c] = @ \cup {"WAIT"}])
    BY <1>6 DEF Wait
  <2>2. \A d \in Cores \ {c} :
          [events EXCEPT ![c] = @ \cup {"WAIT"}][d] = events[d]
    BY DEF TypeOK
  <2> QED BY <1>2, <1>3, <2>1, <2>2, EvaluatedOne
<1>7. EvalOwn(c) \/ (\E s \in SUBSET Soft : Mtc0Cause(c, s)) \/ Wait(c)
  BY DEF Cop0Instruction, Mtc0Sr, Mtc0ErrCtl, Mtc0Count, Mtc0Compare,
         Mtc0Perf, Mfc0PerfControl, Eret, Cop0Other
<1> QED BY <1>4, <1>5, <1>6, <1>7

LEMMA OtherCore ==
  ASSUME TypeOK, \A d \in Cores : CoreInv(d), NEW c \in Cores,
         Exception(c) \/ Other(c)
  PROVE  \A d \in Cores : CoreInv(d)'
<1>1. UNCHANGED <<cac, irqCount, perf, cause, events>> /\ events[c] = {}
  BY DEF Exception, Other, Issue, timer
<1>2. \A d \in Cores : Requests(d)' = Requests(d)
  BY <1>1, RequestsFrame DEF cac, Slow
<1>3. sr' = sr \/ (~Enabled(sr'[c]) /\ \A d \in Cores \ {c} : sr'[d] = sr[d])
  BY DEF Exception, Other, TypeOK, Enabled, Sr
<1>4. ASSUME NEW d \in Cores, sr'[d] = sr[d] PROVE CoreInv(d)'
  BY <1>1, <1>2, <1>4, Untouched
<1>5. ASSUME ~Enabled(sr'[c]) PROVE CoreInv(c)'
  BY <1>1, <1>2, <1>5, Entered
<1> QED BY <1>3, <1>4, <1>5

THEOREM Inductive == IntInv /\ [Next]_vars => IntInv'
<1> SUFFICES ASSUME IntInv, [Next]_vars PROVE IntInv'
  OBVIOUS
<1>1. TypeOK'
  BY NextTyped DEF IntInv
<1>2. CASE UNCHANGED vars
  <2>1. \A d \in Cores : Requests(d)' = Requests(d)
    BY <1>2, RequestsFrame DEF vars, cac, timer, Slow
  <2> QED BY <1>1, <1>2, <2>1, Untouched DEF IntInv, vars
<1>3. CASE DeviceSlow
  <2>1. 0 \in Cores
    BY SizesAssumption DEF Cores
  <2> QED BY <1>1, <1>3, <2>1, OutsideCore DEF IntInv
<1>4. ASSUME NEW c \in Cores,
             \/ EccEvent(c) \/ Reset(c)
             \/ Head(c) \/ CacAccess(c) \/ Cop0Instruction(c)
             \/ Exception(c) \/ Other(c)
      PROVE  IntInv'
  BY <1>1, <1>4, OutsideCore, HeadCore, CacCore, Cop0Core, OtherCore DEF IntInv
<1> QED BY <1>2, <1>3, <1>4 DEF Next

THEOREM InterruptsInvariant == Spec => []IntInv
<1>1. Init => IntInv
  BY InitTyped, InitCore DEF IntInv
<1> QED BY <1>1, Inductive, PTL DEF Spec

(* For any number of cores and cause registers: a core is interrupted only *)
(* outside its handlers and for a source that still asks.                  *)
THEOREM NoStraySound == Spec => []NoStrayInterrupt
<1>1. IntInv => NoStrayInterrupt
  <2> SUFFICES ASSUME IntInv, NEW c \in Cores, "INT" \in events[c]
               PROVE  Enabled(sr[c]) /\ Pending(c) # {} /\ cause[c] \cap sr[c].im # {}
    BY DEF NoStrayInterrupt
  <2>1. Deliverable(c) /\ (SlowLevel \in cause[c] => SlowLevel \in Requests(c))
    BY DEF IntInv, CoreInv, Known
  <2>2. PICK l \in cause[c] \cap sr[c].im : TRUE
    BY <2>1 DEF Deliverable
  <2>3. l \in Levels
    BY <2>2 DEF IntInv, TypeOK
  <2>4. l \in Soft \/ l \in Requests(c)
    BY <2>1, <2>2, <2>3 DEF IntInv, CoreInv, Fresh
  <2> QED BY <2>1, <2>2, <2>4 DEF Pending, Deliverable
<1> QED BY <1>1, InterruptsInvariant, PTL

(* And none but a slow interrupt is overlooked.                            *)
THEOREM OnlySlowSound == Spec => []OnlySlowIsLate
<1>1. IntInv => OnlySlowIsLate
  <2> SUFFICES ASSUME IntInv, NEW c \in Cores, Enabled(sr[c]),
                      NEW l \in Pending(c) \ {SlowLevel}
               PROVE  "INT" \in events[c]
    BY DEF OnlySlowIsLate
  <2>1. l \in Levels /\ l \in sr[c].im
    BY RequestLevels DEF Pending, RequestsTyped, Soft, Levels
  <2>2. l \in cause[c]
    BY <2>1 DEF Pending, IntInv, CoreInv, Fresh
  <2> QED BY <2>1, <2>2 DEF IntInv, CoreInv, Noticed, Deliverable
<1> QED BY <1>1, InterruptsInvariant, PTL
-----------------------------------------------------------------------------
(* The kernel on this machine.  Outside the boot, where it selects its     *)
(* slow interrupts, Cause is up to date in their bit too, and a core       *)
(* sleeps with its interrupts on.                                          *)
SlowSeen(c) == Booting(c) \/ (SlowLevel \in Requests(c) => SlowLevel \in cause[c])

SleepsEnabled(c) == "WAIT" \in events[c] => sr[c] = ThreadSr

KernelInv == IntInv /\ \A c \in Cores : SlowSeen(c) /\ SleepsEnabled(c)

(* What the kernel is promised: whatever asks for a core that takes        *)
(* interrupts is about to interrupt it, the slow sources included, and no  *)
(* core sleeps while a source it enabled asks for it.                      *)
NoneLate ==
  \A c \in Cores : Enabled(sr[c]) /\ Pending(c) # {} => "INT" \in events[c]

NoneOverslept ==
  \A c \in Cores :
    "WAIT" \in events[c] /\ Requests(c) \cap Mask # {} => "INT" \in events[c]

(* What the kernel executes, as the machine's instructions.                *)
KernelCac(c) ==
  \/ \E i \in Icrs : AckIcr(c, i)
  \/ WriteSlsta(c, SlowLocal)
  \/ \E d \in Cores, i \in Icrs, val \in Causes : SendInterrupt(c, d, i, val)
  \/ AccessUart(c)

KernelCop0(c) == Cop0Instruction(c) /\ ("WAIT" \in events'[c] => sr'[c] = ThreadSr)

LEMMA KernelSteps ==
  ASSUME TypeOK, KernelNext
  PROVE  \/ DeviceSlow
         \/ \E c \in Cores :
              \/ EccEvent(c) \/ Head(c) \/ BootMask(c)
              \/ KernelCac(c) \/ KernelCop0(c)
<1>1. ASSUME NEW c \in Cores, NEW s \in {ThreadSr, CriticalSr}, Mtc0Sr(c, s)
      PROVE  KernelCop0(c)
  <2>1. s \in Sr
    <3>1. Mask \subseteq Levels
      BY KernelAssumption
    <3>2. ThreadSr \in Sr
      BY <3>1 DEF ThreadSr, Sr
    <3>3. CriticalSr \in Sr
      BY <3>2 DEF CriticalSr, Sr
    <3> QED BY <3>2, <3>3
  <2>2. "WAIT" \notin events'[c]
    BY <1>1 DEF Mtc0Sr, Cop0, Issue, EvalOwn, Eval
  <2> QED BY <1>1, <2>1, <2>2 DEF KernelCop0, Cop0Instruction
<1>2. ASSUME NEW c \in Cores, Mtc0ErrCtl(c, TRUE) \/ Eret(c) PROVE KernelCop0(c)
  <2>1. "WAIT" \notin events'[c]
    BY <1>2 DEF Mtc0ErrCtl, Eret, Cop0, Issue, EvalOwn, Eval
  <2> QED BY <1>2, <2>1 DEF KernelCop0, Cop0Instruction
<1>3. ASSUME NEW c \in Cores, Mtc0Compare(c, compare[c]) PROVE KernelCop0(c)
  <2>1. "WAIT" \notin events'[c]
    BY <1>3 DEF Mtc0Compare, Cop0, Issue, EvalOwn, Eval
  <2>2. compare[c] \in Counts
    BY DEF TypeOK
  <2> QED BY <1>3, <2>1, <2>2 DEF KernelCop0, Cop0Instruction
<1>4. ASSUME NEW c \in Cores, Idle(c) PROVE KernelCop0(c)
  BY <1>4 DEF Idle, Wait, KernelCop0, Cop0Instruction
<1>5. ASSUME NEW c \in Cores, Serve(c) PROVE KernelCac(c) \/ KernelCop0(c)
  BY <1>3, <1>5 DEF Serve, KernelCac
<1>6. ASSUME NEW c \in Cores, Thread(c) PROVE KernelCac(c) \/ KernelCop0(c)
  BY <1>1, <1>2, <1>6 DEF Thread, KernelCac
<1>7. ASSUME NEW c \in Cores,
             BootEnable(c) \/ LeaveCritical(c) \/ CacheErrorReturn(c) \/ Return(c)
      PROVE  KernelCop0(c)
  BY <1>1, <1>2, <1>7 DEF BootEnable, LeaveCritical, CacheErrorReturn, Return
<1> QED BY <1>4, <1>5, <1>6, <1>7 DEF KernelNext, Loop, Devices

LEMMA KernelIsMachine == TypeOK /\ [KernelNext]_kernelVars => [Next]_vars
<1> SUFFICES ASSUME TypeOK, [KernelNext]_kernelVars PROVE [Next]_vars
  OBVIOUS
<1>1. CASE UNCHANGED kernelVars
  BY <1>1 DEF kernelVars
<1>2. CASE KernelNext
  <2>1. ASSUME NEW c \in Cores, BootMask(c) PROVE CacAccess(c)
    <3>1. SlowOf(c) \in SUBSET (SlowGlobal \cup SlowLocal)
      BY SizesAssumption DEF SlowOf
    <3> QED BY <2>1, <3>1 DEF BootMask, CacAccess
  <2>2. ASSUME NEW c \in Cores, KernelCac(c) PROVE CacAccess(c)
    BY <2>2 DEF KernelCac, CacAccess
  <2> QED BY <1>2, <2>1, <2>2, KernelSteps DEF Next, KernelCop0
<1> QED BY <1>1, <1>2

(* A core whose slow bit is still right, and one that has been evaluated.  *)
LEMMA SlowKept ==
  ASSUME NEW c \in Cores, SlowSeen(c),
         Requests(c)' = Requests(c), cause'[c] = cause[c],
         Booting(c) => Booting(c)'
  PROVE  SlowSeen(c)'
BY DEF SlowSeen

LEMMA SlowEvaluated ==
  ASSUME NEW S, NEW soft, NEW ev, Eval(S, soft, ev), NEW c \in Cores, c \in S
  PROVE  SlowSeen(c)'
BY DEF SlowSeen, Eval

LEMMA SlowHead ==
  ASSUME IntInv, NEW d \in Cores, SlowSeen(d), NEW c \in Cores, Head(c)
  PROVE  SlowSeen(d)'
<1> USE DEF IntInv
<1>1. CASE Tick(c) /\ d = c /\ EvalOwn(c)
  BY <1>1, SlowEvaluated DEF EvalOwn
<1>2. CASE Tick(c) /\ ~(d = c /\ EvalOwn(c))
  <2>1. UNCHANGED <<cac, perf, sr>> /\ irqCount'[d] = irqCount[d]
    BY <1>2 DEF Tick, TypeOK
  <2>2. cause'[d] = cause[d]
    BY <1>2 DEF Tick, EvalOwn, Eval
  <2>3. Requests(d)' = Requests(d)
    BY <2>1, RequestsFrame DEF cac, Slow
  <2> QED BY <2>1, <2>2, <2>3, SlowKept DEF Booting
<1>3. CASE TakeCacheError(c) \/ TakeInterrupt(c) \/ Sleep(c)
  <2>1. UNCHANGED <<cac, irqCount, perf, cause>>
    BY <1>3 DEF TakeCacheError, TakeInterrupt, Sleep, timer
  <2>2. Requests(d)' = Requests(d)
    BY <2>1, RequestsFrame DEF cac, Slow
  <2>3. ASSUME TakeInterrupt(c) PROVE ~Booting(c)
    BY <2>3 DEF TakeInterrupt, CoreInv, Known, Deliverable, Enabled, Booting, ResetSr
  <2>4. ASSUME Booting(d) PROVE Booting(d)'
    <3>1. CASE TakeCacheError(c) /\ d = c
      <4>1. sr'[c] = [sr[c] EXCEPT !.erl = TRUE]
        BY <3>1 DEF TakeCacheError, TypeOK
      <4>2. [ResetSr EXCEPT !.erl = TRUE] = ResetSr
        <5>1. ResetSr \in Sr /\ ResetSr.erl
          BY DEF ResetSr, Sr
        <5>2. \A s \in Sr : s.erl => [s EXCEPT !.erl = TRUE] = s
          BY DEF Sr
        <5> QED BY <5>1, <5>2
      <4> QED BY <2>4, <3>1, <4>1, <4>2 DEF Booting
    <3>2. CASE ~(TakeCacheError(c) /\ d = c)
      <4>1. sr'[d] = sr[d]
        BY <1>3, <2>3, <2>4, <3>2 DEF TakeCacheError, TakeInterrupt, Sleep, TypeOK
      <4> QED BY <2>4, <4>1 DEF Booting
    <3> QED BY <3>1, <3>2
  <2> QED BY <2>1, <2>2, <2>4, SlowKept
<1> QED BY <1>1, <1>2, <1>3 DEF Head

LEMMA SlowCac ==
  ASSUME TypeOK, NEW d \in Cores, SlowSeen(d), NEW c \in Cores,
         BootMask(c) \/ KernelCac(c)
  PROVE  SlowSeen(d)'
<1>1. sr' = sr
  BY DEF BootMask, WriteSlsel, KernelCac, AckIcr, WriteSlsta, SendInterrupt, AccessUart
<1>2. CASE BootMask(c) /\ d = c
  BY <1>1, <1>2 DEF BootMask, Booting, SlowSeen
<1>3. CASE BootMask(c) /\ d # c
  <2>1. Slow(d)' = Slow(d)
    BY <1>3 DEF BootMask, WriteSlsel, Slow, TypeOK
  <2>2. Requests(d)' = Requests(d)
    BY <1>3, <2>1, RequestsFrame DEF BootMask, WriteSlsel, timer
  <2> QED BY <1>1, <1>3, <2>2, SlowKept DEF BootMask, WriteSlsel, Booting
<1>4. CASE EvalAll \/ (d = c /\ EvalOwn(c))
  BY <1>4, SlowEvaluated DEF EvalAll, EvalOwn
<1>5. ASSUME d # c, EvalOwn(c), (\E i \in Icrs : AckIcr(c, i)) \/ WriteSlsta(c, SlowLocal)
      PROVE  SlowSeen(d)'
  <2>1. icr'[d] = icr[d] /\ Slow(d)' = Slow(d) /\ irqCount' = irqCount /\ perf' = perf
    BY <1>5 DEF AckIcr, WriteSlsta, Slow, TypeOK, timer
  <2>2. Requests(d)' = Requests(d)
    BY <2>1, RequestsFrame
  <2>3. cause'[d] = cause[d]
    BY <1>5 DEF EvalOwn, Eval
  <2> QED BY <1>1, <2>2, <2>3, SlowKept DEF Booting
<1>6. ASSUME NEW e \in Cores, NEW i \in Icrs, NEW val \in Causes,
             SendInterrupt(c, e, i, val), icr[e][i].act
      PROVE  SlowSeen(d)'
  <2>1. \A j \in Icrs : icr'[d][j].act = icr[d][j].act
    BY <1>6 DEF SendInterrupt, Deliver, TypeOK, Icr
  <2>2. UNCHANGED <<slowInt, slowLocal, slowMask, irqCount, perf, cause>>
    BY <1>6 DEF SendInterrupt, timer
  <2>3. Requests(d)' = Requests(d)
    BY <2>1, <2>2, RequestsFrame DEF Slow
  <2> QED BY <1>1, <2>2, <2>3, SlowKept DEF Booting
<1>7. \/ BootMask(c) \/ EvalAll
      \/ EvalOwn(c) /\ ((\E i \in Icrs : AckIcr(c, i)) \/ WriteSlsta(c, SlowLocal))
      \/ \E e \in Cores, i \in Icrs, val \in Causes :
           SendInterrupt(c, e, i, val) /\ icr[e][i].act
  BY DEF KernelCac, AckIcr, WriteSlsta, SendInterrupt, AccessUart
<1> QED BY <1>2, <1>3, <1>4, <1>5, <1>6, <1>7

LEMMA SlowCop0 ==
  ASSUME TypeOK, NEW d \in Cores, SlowSeen(d), NEW c \in Cores, KernelCop0(c)
  PROVE  SlowSeen(d)'
<1>1. UNCHANGED cac
  BY DEF KernelCop0, Cop0Instruction, Mtc0Sr, Mtc0ErrCtl, Mtc0Cause, Mtc0Count,
         Mtc0Compare, Mtc0Perf, Mfc0PerfControl, Eret, Wait, Cop0Other, Cop0
<1>0. \E soft, ev : Eval({c}, soft, ev) /\ (d # c => soft[d] = cause[d])
  <2>1. \/ EvalOwn(c)
        \/ \E s \in SUBSET Soft : Eval({c}, [cause EXCEPT ![c] = s], events)
        \/ Eval({c}, cause, [events EXCEPT ![c] = @ \cup {"WAIT"}])
    BY DEF KernelCop0, Cop0Instruction, Mtc0Sr, Mtc0ErrCtl, Mtc0Cause, Mtc0Count,
           Mtc0Compare, Mtc0Perf, Mfc0PerfControl, Eret, Wait, Cop0Other
  <2>2. \A s : d # c => [cause EXCEPT ![c] = s][d] = cause[d]
    BY DEF TypeOK
  <2> QED BY <2>1, <2>2 DEF EvalOwn
<1>2. CASE d = c
  BY <1>0, <1>2, SlowEvaluated
<1>3. CASE d # c
  <2>1. sr'[d] = sr[d] /\ irqCount'[d] = irqCount[d] /\ perf'[d] = perf[d]
    BY <1>3 DEF TypeOK, KernelCop0, Cop0Instruction, Mtc0Sr, Mtc0ErrCtl, Mtc0Cause,
         Mtc0Count, Mtc0Compare, Mtc0Perf, Mfc0PerfControl, Eret, Wait, Cop0Other, timer
  <2>2. Requests(d)' = Requests(d)
    BY <1>1, <2>1, RequestsFrame DEF cac, Slow
  <2>3. cause'[d] = cause[d]
    BY <1>0, <1>3 DEF Eval
  <2> QED BY <2>1, <2>2, <2>3, SlowKept DEF Booting
<1> QED BY <1>2, <1>3

LEMMA SlowStep ==
  ASSUME IntInv, NEW d \in Cores, SlowSeen(d), KernelNext
  PROVE  SlowSeen(d)'
<1>1. ASSUME NEW c \in Cores, DeviceSlow \/ EccEvent(c) PROVE SlowSeen(d)'
  <2>1. \E soft, ev : Eval(Cores, soft, ev)
    BY <1>1 DEF DeviceSlow, EccEvent, EvalAll
  <2> QED BY <2>1, SlowEvaluated
<1> QED BY <1>1, KernelSteps, SlowHead, SlowCac, SlowCop0 DEF IntInv

(* A core falls asleep with interrupts on, and stays so until it wakes.    *)
LEMMA SleepStep ==
  ASSUME TypeOK, NEW d \in Cores, SleepsEnabled(d), KernelNext
  PROVE  SleepsEnabled(d)'
<1>1. ASSUME sr'[d] = sr[d], "WAIT" \in events'[d] => "WAIT" \in events[d]
      PROVE  SleepsEnabled(d)'
  BY <1>1 DEF SleepsEnabled
<1>2. ASSUME NEW S, NEW soft, Eval(S, soft, events)
      PROVE  "WAIT" \in events'[d] => "WAIT" \in events[d]
  BY <1>2 DEF Eval
<1>3. CASE DeviceSlow
  BY <1>1, <1>2, <1>3 DEF DeviceSlow, EvalAll
<1>4. ASSUME NEW c \in Cores, EccEvent(c) PROVE SleepsEnabled(d)'
  <2>1. PICK ev : /\ Eval(Cores, cause, ev)
                  /\ \/ ev = events
                     \/ ev = [events EXCEPT ![c] = @ \cup {"CCHE"}]
    BY <1>4 DEF EccEvent, EvalAll
  <2>2. ev[d] = events[d] \/ ev[d] = events[d] \cup {"CCHE"}
    BY <2>1 DEF TypeOK
  <2>3. "WAIT" \in events'[d] => "WAIT" \in ev[d]
    BY <2>1 DEF Eval
  <2>4. sr'[d] = sr[d]
    BY <1>4 DEF EccEvent
  <2> QED BY <1>1, <2>2, <2>3, <2>4
<1>5. ASSUME NEW c \in Cores, Tick(c) \/ Sleep(c) PROVE SleepsEnabled(d)'
  BY <1>1, <1>2, <1>5 DEF Tick, Sleep, EvalOwn
<1>6. ASSUME NEW c \in Cores, TakeCacheError(c) \/ TakeInterrupt(c)
      PROVE  SleepsEnabled(d)'
  <2>1. CASE d = c
    BY <1>6, <2>1 DEF TakeCacheError, TakeInterrupt, SleepsEnabled, TypeOK
  <2>2. CASE d # c
    BY <1>1, <1>6, <2>2 DEF TakeCacheError, TakeInterrupt, TypeOK
  <2> QED BY <2>1, <2>2
<1>7. ASSUME NEW c \in Cores, BootMask(c) \/ KernelCac(c) PROVE SleepsEnabled(d)'
  <2>1. sr' = sr
    BY <1>7 DEF BootMask, WriteSlsel, KernelCac, AckIcr, WriteSlsta,
                SendInterrupt, AccessUart
  <2>2. events' = events \/ EvalOwn(c) \/ EvalAll
    BY <1>7 DEF BootMask, WriteSlsel, KernelCac, AckIcr, WriteSlsta,
                SendInterrupt, AccessUart
  <2> QED BY <1>1, <1>2, <2>1, <2>2 DEF EvalOwn, EvalAll
<1>8. ASSUME NEW c \in Cores, KernelCop0(c) PROVE SleepsEnabled(d)'
  <2>1. CASE d = c
    BY <1>8, <2>1 DEF KernelCop0, SleepsEnabled
  <2>2. CASE d # c
    <3>1. sr'[d] = sr[d]
      BY <1>8, <2>2 DEF TypeOK, KernelCop0, Cop0Instruction, Mtc0Sr, Mtc0ErrCtl,
         Mtc0Cause, Mtc0Count, Mtc0Compare, Mtc0Perf, Mfc0PerfControl, Eret,
         Wait, Cop0Other
    <3>2. \E soft : Eval({c}, soft, events)
                      \/ Eval({c}, soft, [events EXCEPT ![c] = @ \cup {"WAIT"}])
      BY <1>8 DEF KernelCop0, Cop0Instruction, Mtc0Sr, Mtc0ErrCtl, Mtc0Cause,
         Mtc0Count, Mtc0Compare, Mtc0Perf, Mfc0PerfControl, Eret, Wait,
         Cop0Other, EvalOwn
    <3>3. events'[d] = events[d]
      BY <2>2, <3>2 DEF Eval, TypeOK
    <3> QED BY <1>1, <3>1, <3>3
  <2> QED BY <2>1, <2>2
<1> QED BY <1>3, <1>4, <1>5, <1>6, <1>7, <1>8, KernelSteps DEF Head

LEMMA KernelStep == KernelInv /\ [KernelNext]_kernelVars => KernelInv'
<1> SUFFICES ASSUME KernelInv, [KernelNext]_kernelVars PROVE KernelInv'
  OBVIOUS
<1>1. IntInv'
  BY KernelIsMachine, Inductive DEF KernelInv, IntInv
<1>2. CASE KernelNext
  BY <1>1, <1>2, SlowStep, SleepStep DEF KernelInv, IntInv
<1>3. CASE UNCHANGED kernelVars
  <2>1. UNCHANGED <<cac, irqCount, perf, sr, cause, events>>
    BY <1>3 DEF kernelVars, vars, timer
  <2>2. \A d \in Cores : Requests(d)' = Requests(d)
    BY <2>1, RequestsFrame DEF cac, Slow
  <2>3. \A d \in Cores : SlowSeen(d)' /\ SleepsEnabled(d)'
    BY <2>1, <2>2 DEF KernelInv, SlowSeen, Booting, SleepsEnabled
  <2> QED BY <1>1, <2>3 DEF KernelInv
<1> QED BY <1>2, <1>3

THEOREM KernelInvariant == KernelSpec => []KernelInv
<1>1. KernelInit => KernelInv
  BY InitTyped, InitCore
     DEF KernelInit, KernelInv, IntInv, SlowSeen, SleepsEnabled, Booting, Init
<1> QED BY <1>1, KernelStep, PTL DEF KernelSpec

(* A kernel that selects its slow interrupts before it first enables any   *)
(* meets no late one: while a core takes interrupts, whatever asks for it  *)
(* at a level it enabled has EVT_INT set, the slow sources included, for   *)
(* any number of cores and cause registers.                                *)
THEOREM KernelNeverLate == KernelSpec => []NoneLate
<1>1. KernelInv => NoneLate
  <2> SUFFICES ASSUME KernelInv, NEW c \in Cores, Enabled(sr[c]), NEW l \in Pending(c)
               PROVE  "INT" \in events[c]
    BY DEF NoneLate
  <2>1. l \in Levels /\ l \in sr[c].im
    BY RequestLevels DEF Pending, RequestsTyped, Soft, Levels
  <2>2. ~Booting(c)
    BY DEF Enabled, Booting, ResetSr
  <2>3. l \in cause[c]
    BY <2>1, <2>2 DEF Pending, KernelInv, IntInv, CoreInv, Fresh, SlowSeen
  <2>4. Deliverable(c)
    BY <2>1, <2>3 DEF Deliverable
  <2> QED BY <2>4 DEF KernelInv, IntInv, CoreInv, Noticed
<1> QED BY <1>1, KernelInvariant, PTL

(* And no core sleeps over a source it enabled, whether the request comes  *)
(* before its WAIT, during it, or while it handles another: with the       *)
(* rounds of sim_instr that is why every sleeper wakes.                    *)
THEOREM KernelNeverOversleeps == KernelSpec => []NoneOverslept
<1>1. KernelInv /\ NoneLate => NoneOverslept
  <2> SUFFICES ASSUME KernelInv, NoneLate, NEW c \in Cores,
                      "WAIT" \in events[c], NEW l \in Requests(c) \cap Mask
               PROVE  "INT" \in events[c]
    BY DEF NoneOverslept
  <2>1. sr[c] = ThreadSr
    BY DEF KernelInv, SleepsEnabled
  <2>2. Enabled(sr[c]) /\ l \in Pending(c)
    BY <2>1 DEF ThreadSr, Enabled, Pending
  <2> QED BY <2>2 DEF NoneLate
<1> QED BY <1>1, KernelInvariant, KernelNeverLate, PTL
-----------------------------------------------------------------------------
(* What happens to a request until it is served.  The handler of a core    *)
(* reaches a request when the next step of its pass is for it.             *)
PollInv ==
  /\ poll \in [Cores -> 0 .. AskLocal + 1]
  /\ \A c \in Cores : poll[c] # 0 => sr[c].exl

Reaches(c, a) == InHandler(c) /\ a \in Ahead(c) /\ poll'[c] = a + 1

Kept(c) ==
  /\ \A i \in Icrs :
       icr[c][i].act /\ ~Reaches(c, i) =>
         icr'[c][i].act /\ icr'[c][i].cause = icr[c][i].cause
  /\ irqCount[c] /\ ~Reaches(c, AskCount) => irqCount'[c]
  /\ Reaches(c, AskLocal) \/ slowLocal[c] \subseteq slowLocal'[c]

(* A pass goes up, passes over nothing that asks and silences what it      *)
(* comes to.                                                               *)
Advances(c) ==
  /\ poll[c] < poll'[c] /\ poll'[c] - 1 \notin Asks(c)'
  /\ \A a \in Ahead(c) : poll'[c] <= a + 1

(* It ends as the handler returns, and the handler returns only then.      *)
Ends(c) == poll'[c] = 0 /\ Ahead(c) = {} /\ sr[c].exl /\ ~sr'[c].exl

InOrder(c) ==
  /\ poll'[c] # poll[c] => Advances(c) \/ Ends(c)
  /\ sr[c].exl /\ ~sr'[c].exl => Ends(c)

LEMMA AsksTyped == \A c \in Cores : Asks(c) \subseteq 0 .. AskLocal
<1> SUFFICES ASSUME NEW c \in Cores, NEW a \in Asks(c) PROVE a \in 0 .. AskLocal
  OBVIOUS
<1>1. NumIcr \in Nat
  BY SizesAssumption
<1>2. a \in Icrs \cup {AskCount, AskUart, AskLocal}
  BY DEF Asks
<1> QED BY <1>1, <1>2 DEF Icrs, AskCount, AskUart, AskLocal

(* The steps that leave every pass where it is.                            *)
Aside(c) ==
  \/ EccEvent(c) \/ Head(c) \/ BootMask(c) \/ BootEnable(c)
  \/ Idle(c) \/ Thread(c) \/ LeaveCritical(c) \/ CacheErrorReturn(c)

LEMMA StepCases ==
  ASSUME KernelNext
  PROVE  \/ poll' = poll /\ (DeviceSlow \/ \E c \in Cores : Aside(c))
         \/ \E c \in Cores : Serve(c) \/ Return(c)
BY DEF KernelNext, Loop, Devices, Aside

(* Of these none takes a core out of an exception handler.                 *)
LEMMA AsideStays ==
  ASSUME TypeOK, NEW d \in Cores, sr[d].exl,
         DeviceSlow \/ \E c \in Cores : Aside(c)
  PROVE  sr'[d].exl
<1>1. CASE DeviceSlow
  BY <1>1 DEF DeviceSlow
<1>2. ASSUME NEW c \in Cores, EccEvent(c) \/ BootMask(c) \/ Idle(c) PROVE sr'[d].exl
  BY <1>2 DEF EccEvent, BootMask, WriteSlsel, Idle, Wait
<1>3. ASSUME NEW c \in Cores, Head(c) PROVE sr'[d].exl
  <2>1. sr' = sr \/ sr' = [sr EXCEPT ![c].erl = TRUE] \/ sr' = [sr EXCEPT ![c].exl = TRUE]
    BY <1>3 DEF Head, Tick, TakeCacheError, TakeInterrupt, Sleep
  <2> QED BY <2>1 DEF TypeOK, Sr
<1>4. ASSUME NEW c \in Cores, NEW s, Mtc0Sr(c, s), ~sr[c].exl PROVE sr'[d].exl
  <2>1. d # c
    BY <1>4
  <2>2. sr' = [sr EXCEPT ![c] = s]
    BY <1>4 DEF Mtc0Sr
  <2> QED BY <2>1, <2>2 DEF TypeOK
<1>5. ASSUME NEW c \in Cores, BootEnable(c) \/ LeaveCritical(c) PROVE sr'[d].exl
  BY <1>4, <1>5
     DEF BootEnable, LeaveCritical, Booting, ResetSr, CriticalSr, ThreadSr
<1>6. ASSUME NEW c \in Cores, Thread(c) PROVE sr'[d].exl
  <2>1. CASE Mtc0Sr(c, CriticalSr)
    BY <1>4, <1>6, <2>1 DEF Thread, ThreadSr
  <2>2. CASE ~Mtc0Sr(c, CriticalSr)
    BY <1>6, <2>2 DEF Thread, SendInterrupt, Mtc0ErrCtl
  <2> QED BY <2>1, <2>2
<1>7. ASSUME NEW c \in Cores, CacheErrorReturn(c) PROVE sr'[d].exl
  <2>1. sr' = [sr EXCEPT ![c].erl = FALSE]
    BY <1>7 DEF CacheErrorReturn, Eret
  <2> QED BY <2>1 DEF TypeOK, Sr
<1> QED BY <1>1, <1>2, <1>3, <1>5, <1>6, <1>7 DEF Aside

(* Nor do they withdraw a request.                                         *)
LEMMA AsideKept ==
  ASSUME TypeOK, NEW d \in Cores, DeviceSlow \/ \E c \in Cores : Aside(c)
  PROVE  /\ \A i \in Icrs :
              icr[d][i].act => icr'[d][i].act /\ icr'[d][i].cause = icr[d][i].cause
         /\ irqCount[d] => irqCount'[d]
         /\ slowLocal[d] \subseteq slowLocal'[d]
<1> DEFINE Goal ==
      /\ \A i \in Icrs :
           icr[d][i].act => icr'[d][i].act /\ icr'[d][i].cause = icr[d][i].cause
      /\ irqCount[d] => irqCount'[d]
      /\ slowLocal[d] \subseteq slowLocal'[d]
<1>1. ASSUME UNCHANGED <<icr, irqCount, slowLocal>> PROVE Goal
  BY <1>1
<1>2. CASE DeviceSlow
  BY <1>1, <1>2 DEF DeviceSlow, timer
<1>3. ASSUME NEW c \in Cores, EccEvent(c) PROVE Goal
  <2>1. PICK s : slowLocal' = [slowLocal EXCEPT ![c] = @ \cup s]
    BY <1>3 DEF EccEvent
  <2>2. slowLocal[d] \subseteq slowLocal'[d]
    BY <2>1 DEF TypeOK
  <2>3. UNCHANGED <<icr, irqCount>>
    BY <1>3 DEF EccEvent, timer
  <2> QED BY <2>2, <2>3
<1>4. ASSUME NEW c \in Cores, Head(c) PROVE Goal
  <2>1. UNCHANGED <<icr, slowLocal>>
    BY <1>4 DEF Head, Tick, TakeCacheError, TakeInterrupt, Sleep, cac
  <2>2. irqCount' = irqCount \/ irqCount' = [irqCount EXCEPT ![c] = TRUE]
    BY <1>4 DEF Head, Tick, TakeCacheError, TakeInterrupt, Sleep, timer
  <2>3. irqCount[d] => irqCount'[d]
    BY <2>2 DEF TypeOK
  <2> QED BY <2>1, <2>3
<1>5. ASSUME NEW c \in Cores,
             BootMask(c) \/ BootEnable(c) \/ Idle(c) \/ LeaveCritical(c) \/ CacheErrorReturn(c)
      PROVE  Goal
  BY <1>1, <1>5 DEF BootMask, WriteSlsel, BootEnable, Idle, LeaveCritical,
     CacheErrorReturn, Mtc0Sr, Wait, Eret, Cop0, cac, timer
<1>6. ASSUME NEW c \in Cores, Thread(c) PROVE Goal
  <2>1. ASSUME NEW e \in Cores, NEW i \in Icrs, NEW val \in Causes,
               SendInterrupt(c, e, i, val)
        PROVE  Goal
    <3>1. icr' = [icr EXCEPT ![e][i] = Deliver(icr[e][i], val)]
      BY <2>1 DEF SendInterrupt
    <3>2. ASSUME NEW j \in Icrs, icr[d][j].act
          PROVE  icr'[d][j].act /\ icr'[d][j].cause = icr[d][j].cause
      <4>1. CASE e = d /\ i = j
        <5>1. icr'[d][j] = [icr[d][j] EXCEPT !.ovf = TRUE]
          BY <3>1, <3>2, <4>1 DEF Deliver, TypeOK
        <5> QED BY <3>2, <5>1 DEF TypeOK, Icr
      <4>2. CASE ~(e = d /\ i = j)
        <5>1. icr'[d][j] = icr[d][j]
          BY <3>1, <4>2 DEF TypeOK
        <5> QED BY <3>2, <5>1
      <4> QED BY <4>1, <4>2
    <3>3. UNCHANGED <<irqCount, slowLocal>>
      BY <2>1 DEF SendInterrupt, timer
    <3> QED BY <3>2, <3>3
  <2>2. CASE Mtc0Sr(c, CriticalSr) \/ Mtc0ErrCtl(c, TRUE)
    BY <1>1, <2>2 DEF Mtc0Sr, Mtc0ErrCtl, Cop0, cac, timer
  <2> QED BY <1>6, <2>1, <2>2 DEF Thread
<1> QED BY <1>2, <1>3, <1>4, <1>5, <1>6 DEF Aside

(* A request of one place in the pass is not one of another.               *)
LEMMA Places ==
  /\ NumIcr \in Nat
  /\ AskCount \notin Icrs /\ AskUart \notin Icrs /\ AskLocal \notin Icrs
  /\ AskCount # AskUart /\ AskCount # AskLocal /\ AskUart # AskLocal
<1>1. NumIcr \in Nat
  BY SizesAssumption
<1> QED BY <1>1 DEF Icrs, AskCount, AskUart, AskLocal

(* What a pass comes to stops asking, and all the rest goes on.            *)
LEMMA ServeOne ==
  ASSUME TypeOK, NEW c \in Cores, NEW a \in Ahead(c), poll'[c] = a + 1, InHandler(c),
         \/ a \in Icrs /\ AckIcr(c, a)
         \/ a = AskCount /\ Mtc0Compare(c, compare[c])
         \/ a = AskUart /\ AccessUart(c) /\ Uart \notin slowInt'
         \/ a = AskLocal /\ WriteSlsta(c, SlowLocal)
  PROVE  sr' = sr /\ a \notin Asks(c)' /\ \A d \in Cores : Kept(d)
<1>0. Reaches(c, a)
  BY DEF Reaches
<1>1. CASE a \in Icrs /\ AckIcr(c, a)
  <2>1. icr' = [icr EXCEPT ![c] = [@ EXCEPT ![a].act = FALSE, ![a].ovf = FALSE]]
    BY <1>1 DEF AckIcr, TypeOK
  <2>2. UNCHANGED <<irqCount, slowLocal, sr>>
    BY <1>1 DEF AckIcr, timer
  <2>3. ~icr'[c][a].act
    BY <1>1, <2>1 DEF TypeOK, Icr
  <2>4. a \notin Asks(c)'
    BY <1>1, <2>3, Places DEF Asks
  <2>5. ASSUME NEW d \in Cores, NEW i \in Icrs, d # c \/ i # a
        PROVE  icr'[d][i] = icr[d][i]
    BY <1>1, <2>1, <2>5 DEF TypeOK
  <2>6. ASSUME NEW d \in Cores PROVE Kept(d)
    BY <1>0, <2>2, <2>5 DEF Kept
  <2> QED BY <2>2, <2>4, <2>6
<1>2. CASE a = AskCount /\ Mtc0Compare(c, compare[c])
  <2>1. irqCount' = [irqCount EXCEPT ![c] = FALSE]
    BY <1>2 DEF Mtc0Compare
  <2>2. UNCHANGED <<icr, slowLocal, sr>>
    BY <1>2 DEF Mtc0Compare, Cop0, cac
  <2>3. a \notin Asks(c)'
    BY <1>2, <2>1, Places DEF Asks, TypeOK
  <2>4. ASSUME NEW d \in Cores, d # c PROVE irqCount'[d] = irqCount[d]
    BY <2>1, <2>4 DEF TypeOK
  <2>5. ASSUME NEW d \in Cores PROVE Kept(d)
    BY <1>0, <1>2, <2>2, <2>4 DEF Kept
  <2> QED BY <2>2, <2>3, <2>5
<1>3. CASE a = AskUart /\ AccessUart(c) /\ Uart \notin slowInt'
  <2>1. UNCHANGED <<icr, irqCount, slowLocal, sr>>
    BY <1>3 DEF AccessUart, timer
  <2>2. Uart \notin slowLocal[c]
    BY SizesAssumption DEF TypeOK
  <2>3. Uart \notin Slow(c)'
    BY <1>3, <2>1, <2>2 DEF Slow
  <2>4. a \notin Asks(c)'
    BY <1>3, <2>3, Places DEF Asks
  <2> QED BY <2>1, <2>4 DEF Kept
<1>4. CASE a = AskLocal /\ WriteSlsta(c, SlowLocal)
  <2>1. slowLocal' = [slowLocal EXCEPT ![c] = @ \ SlowLocal]
    BY <1>4 DEF WriteSlsta
  <2>2. UNCHANGED <<icr, irqCount, slowInt, sr>>
    BY <1>4 DEF WriteSlsta, timer
  <2>3. slowLocal'[c] = {}
    BY <2>1 DEF TypeOK
  <2>4. Slow(c)' \cap SlowLocal = {}
    BY <2>2, <2>3, SizesAssumption DEF Slow, TypeOK
  <2>5. a \notin Asks(c)'
    BY <1>4, <2>4, Places DEF Asks
  <2>6. ASSUME NEW d \in Cores, d # c PROVE slowLocal'[d] = slowLocal[d]
    BY <2>1, <2>6 DEF TypeOK
  <2>7. ASSUME NEW d \in Cores PROVE Kept(d)
    BY <1>0, <1>4, <2>2, <2>6 DEF Kept
  <2> QED BY <2>2, <2>5, <2>7
<1> QED BY <1>1, <1>2, <1>3, <1>4

LEMMA ServeStep ==
  ASSUME TypeOK, PollInv, NEW c \in Cores, Serve(c)
  PROVE  /\ sr' = sr /\ PollInv' /\ \A d \in Cores : Kept(d)
         /\ \A d \in Cores : poll'[d] # poll[d] => Advances(d)
<1>1. PICK a \in Ahead(c) :
        /\ \A b \in Ahead(c) : a <= b
        /\ poll' = [poll EXCEPT ![c] = a + 1]
        /\ \/ a \in Icrs /\ AckIcr(c, a)
           \/ a = AskCount /\ Mtc0Compare(c, compare[c])
           \/ a = AskUart /\ AccessUart(c) /\ Uart \notin slowInt'
           \/ a = AskLocal /\ WriteSlsta(c, SlowLocal)
  BY DEF Serve
<1>2. InHandler(c)
  BY DEF Serve
<1>3. poll'[c] = a + 1 /\ \A d \in Cores : d # c => poll'[d] = poll[d]
  BY <1>1 DEF PollInv
<1>4. sr' = sr /\ a \notin Asks(c)' /\ \A d \in Cores : Kept(d)
  BY ServeOne, <1>1, <1>2, <1>3
<1>5. AskLocal \in Nat /\ Ahead(c) \subseteq 0 .. AskLocal
  BY AsksTyped, Places DEF Ahead, AskLocal
<1>6. a \in 0 .. AskLocal /\ poll[c] \in 0 .. AskLocal + 1 /\ a >= poll[c]
  BY <1>5 DEF PollInv, Ahead
<1>7. PollInv'
  <2>1. a + 1 \in 0 .. AskLocal + 1
    BY <1>5, <1>6
  <2>2. poll' \in [Cores -> 0 .. AskLocal + 1]
    BY <1>1, <2>1 DEF PollInv
  <2>3. (AskLocal + 1)' = AskLocal + 1
    BY DEF AskLocal
  <2> QED BY <1>2, <1>3, <1>4, <2>2, <2>3 DEF PollInv, InHandler
<1>8. Advances(c)
  <2>1. poll'[c] - 1 = a /\ poll[c] < poll'[c]
    BY <1>3, <1>6
  <2>2. \A b \in Ahead(c) : poll'[c] <= b + 1
    BY <1>1, <1>3, <1>5, <1>6
  <2> QED BY <1>4, <2>1, <2>2 DEF Advances
<1> QED BY <1>3, <1>4, <1>7, <1>8

LEMMA ReturnStep ==
  ASSUME TypeOK, PollInv, NEW c \in Cores, Return(c)
  PROVE  /\ PollInv' /\ UNCHANGED <<icr, irqCount, slowLocal>>
         /\ Ends(c) /\ \A d \in Cores : d # c => poll'[d] = poll[d] /\ sr'[d] = sr[d]
<1>1. sr' = [sr EXCEPT ![c].exl = FALSE] /\ poll' = [poll EXCEPT ![c] = 0]
  BY DEF Return, InHandler, Eret
<1>2. sr[c].exl /\ Ahead(c) = {}
  BY DEF Return, InHandler
<1>3. UNCHANGED <<icr, irqCount, slowLocal>>
  BY DEF Return, Eret, Cop0, cac, timer
<1>4. ~sr'[c].exl /\ \A d \in Cores : d # c => sr'[d] = sr[d]
  BY <1>1 DEF TypeOK, Sr
<1>5. poll'[c] = 0 /\ \A d \in Cores : d # c => poll'[d] = poll[d]
  BY <1>1 DEF PollInv
<1>6. PollInv'
  <2>1. 0 \in 0 .. AskLocal + 1
    BY Places DEF AskLocal
  <2>2. poll' \in [Cores -> 0 .. AskLocal + 1]
    BY <1>1, <2>1 DEF PollInv
  <2>3. (AskLocal + 1)' = AskLocal + 1
    BY DEF AskLocal
  <2> QED BY <1>4, <1>5, <2>2, <2>3 DEF PollInv
<1> QED BY <1>2, <1>3, <1>4, <1>5, <1>6 DEF Ends

LEMMA PassStep ==
  ASSUME TypeOK, PollInv, [KernelNext]_kernelVars
  PROVE  PollInv' /\ \A d \in Cores : Kept(d) /\ InOrder(d)
<1>1. (AskLocal + 1)' = AskLocal + 1
  BY DEF AskLocal
<1>2. CASE UNCHANGED kernelVars
  <2>1. UNCHANGED <<icr, irqCount, slowLocal, sr, poll>>
    BY <1>2 DEF kernelVars, vars, cac, timer
  <2> QED BY <1>1, <2>1 DEF PollInv, Kept, InOrder
<1>3. CASE poll' = poll /\ (DeviceSlow \/ \E c \in Cores : Aside(c))
  <2>1. PollInv'
    BY <1>1, <1>3, AsideStays DEF PollInv
  <2>2. ASSUME NEW d \in Cores PROVE Kept(d)
    BY <1>3, AsideKept DEF Kept
  <2>3. ASSUME NEW d \in Cores PROVE InOrder(d)
    BY <1>3, AsideStays DEF InOrder
  <2> QED BY <2>1, <2>2, <2>3
<1>4. ASSUME NEW c \in Cores, Serve(c)
      PROVE  PollInv' /\ \A d \in Cores : Kept(d) /\ InOrder(d)
  BY <1>4, ServeStep DEF InOrder
<1>5. ASSUME NEW c \in Cores, Return(c)
      PROVE  PollInv' /\ \A d \in Cores : Kept(d) /\ InOrder(d)
  <2>1. ASSUME NEW d \in Cores PROVE Kept(d)
    BY <1>5, ReturnStep DEF Kept
  <2>2. ASSUME NEW d \in Cores PROVE InOrder(d)
    <3>1. CASE d = c
      BY <1>5, <3>1, ReturnStep DEF InOrder
    <3>2. CASE d # c
      BY <1>5, <3>2, ReturnStep DEF InOrder
    <3> QED BY <3>1, <3>2
  <2> QED BY <1>5, <2>1, <2>2, ReturnStep
<1> QED BY <1>2, <1>3, <1>4, <1>5, StepCases

LEMMA PassInvariant == KernelSpec => [](TypeOK /\ PollInv)
<1>1. KernelInit => PollInv
  <2>1. 0 \in 0 .. AskLocal + 1
    BY Places DEF AskLocal
  <2> QED BY <2>1 DEF KernelInit, PollInv
<1>2. KernelInv => TypeOK
  BY DEF KernelInv, IntInv
<1>3. TypeOK /\ PollInv /\ [KernelNext]_kernelVars => PollInv'
  BY PassStep
<1> QED BY <1>1, <1>2, <1>3, KernelInvariant, PTL DEF KernelSpec

(* No request is lost: an interrupt from another core, with the cause it   *)
(* was sent with, a tick of the counter or an event of the cache goes on   *)
(* asking, whatever the other cores and the devices do meanwhile, until    *)
(* the pass of the core it asks for comes to it.  An interrupt sent to a   *)
(* register that is still active sets its overflow bit and no more.        *)
THEOREM RequestsKept == KernelSpec => [][\A c \in Cores : Kept(c)]_kernelVars
<1>1. TypeOK /\ PollInv /\ [KernelNext]_kernelVars => [\A c \in Cores : Kept(c)]_kernelVars
  BY PassStep
<1> QED BY <1>1, PassInvariant, PTL DEF KernelSpec

(* And no pass leaves one behind: it goes up through what asks, passes     *)
(* over nothing, silences what it comes to, and a handler returns to its   *)
(* thread only when nothing ahead of it asks.  With the fairness of the    *)
(* loop that is why every request is served.                               *)
THEOREM PassesComplete == KernelSpec => [][\A c \in Cores : InOrder(c)]_kernelVars
<1>1. TypeOK /\ PollInv /\ [KernelNext]_kernelVars => [\A c \in Cores : InOrder(c)]_kernelVars
  BY PassStep
<1> QED BY <1>1, PassInvariant, PTL DEF KernelSpec
=============================================================================
