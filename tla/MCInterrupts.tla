---------------------------- MODULE MCInterrupts ----------------------------
(***************************************************************************)
(* Two cores.  Three programs in which core 0 does anything with one kind  *)
(* of source (and core 1 sends or has the UART change its request), and    *)
(* the kernel, whose two cores are alike.                                  *)
(***************************************************************************)
EXTENDS Kernel

VARIABLE program

mcVars == <<kernelVars, program>>

SrWith(m) ==
  {[ie |-> i, exl |-> x, erl |-> FALSE, im |-> m] : i \in BOOLEAN, x \in BOOLEAN}

Inputs ==
  [ipi |->
     [srs |-> SrWith({2}), icrs |-> {0}, slows |-> {}, masks |-> {},
      counts |-> {}, softs |-> {}, perfs |-> {}],
   slow |->
     [srs |-> SrWith({5}), icrs |-> {}, slows |-> {"UART", "COHO"},
      masks |-> {{}, {"COHO", "L2"}, {"UART", "L2"}},
      counts |-> {}, softs |-> {}, perfs |-> {}],
   timer |->
     [srs |-> SrWith({0, 6, 7}), icrs |-> {}, slows |-> {}, masks |-> {},
      counts |-> {1}, softs |-> SUBSET {0}, perfs |-> PerfRegs]]

Free(i) ==
  \/ \E s \in i.slows : DeviceSlow /\ slowInt' = slowInt \cup {s}
  \/ i.slows # {} /\ DeviceSlow /\ slowInt' = slowInt \ {"UART"}
  \/ i.slows # {} /\ EccEvent(0)
  \/ i.perfs # {} /\ Reset(0)
  \/ \E c \in Cores : Head(c) \/ Other(c)
  \/ \E k \in i.icrs, v \in Causes : SendInterrupt(1, 0, k, v)
  \/ i.slows # {} /\ AccessUart(1)
  \/ \E s \in i.srs : Mtc0Sr(0, s)
  \/ Eret(0) \/ Wait(0) \/ Exception(0) \/ Cop0Other(0)
  \/ \E e \in BOOLEAN : i.slows # {} /\ Mtc0ErrCtl(0, e)
  \/ \E k \in i.icrs : AckIcr(0, k)
  \/ \E m \in i.masks : WriteSlsel(0, m)
  \/ i.slows # {} /\ WriteSlsta(0, SlowLocal)
  \/ \E v \in i.counts : Mtc0Count(0, v) \/ Mtc0Compare(0, v)
  \/ \E soft \in i.softs : Mtc0Cause(0, soft)
  \/ \E r \in i.perfs :
       Mfc0PerfControl(0, r) \/ \E v \in SUBSET PerfBits : Mtc0Perf(0, r, v)

MCInit == program \in DOMAIN Inputs \cup {"kernel"} /\ KernelInit

MCNext ==
  /\ UNCHANGED program
  /\ \/ program # "kernel" /\ UNCHANGED poll /\ Free(Inputs[program])
     \/ program = "kernel" /\ KernelNext

KernelLoop == program = "kernel" /\ Loop /\ UNCHANGED program

MCSpec == MCInit /\ [][MCNext]_mcVars /\ WF_mcVars(KernelLoop)

(* The promises of module Kernel, for the program that is the kernel.      *)
RequestsServed == program = "kernel" => EveryRequestServed
SleepersWake == program = "kernel" => EverySleeperWakes
=============================================================================
