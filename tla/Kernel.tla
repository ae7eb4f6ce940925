------------------------------- MODULE Kernel -------------------------------
(***************************************************************************)
(* A system that uses the interrupts of module Interrupts as they are      *)
(* meant to be used: its cores sleep, interrupt each other and turn        *)
(* interrupts off for an instruction, and its handlers serve what asks for *)
(* them and return.  This program is not part of the repository; the       *)
(* machine under it is.                                                    *)
(***************************************************************************)
EXTENDS Interrupts

CONSTANTS
  Mask,         \* the interrupt levels the kernel enables
  Workers       \* the cores whose threads do more than sleep

ASSUME KernelAssumption == Mask \subseteq Levels /\ Workers \subseteq Cores

VARIABLE poll   \* how far the handler of a core has come in its pass

kernelVars == <<vars, poll>>

ThreadSr == [ie |-> TRUE, exl |-> FALSE, erl |-> FALSE, im |-> Mask]
CriticalSr == [ThreadSr EXCEPT !.ie = FALSE]

(* Core 0 serves the UART, every core its own cache.                       *)
SlowOf(c) == SlowLocal \cup {s \in {Uart} : c = 0}

Booting(c) == sr[c] = ResetSr
InHandler(c) == sr[c].exl /\ ~sr[c].erl

(* What a handler looks at, in the order of its pass: the cause registers, *)
(* the counter, the UART and the cache.                                    *)
AskCount == NumIcr
AskUart == NumIcr + 1
AskLocal == NumIcr + 2

Asks(c) ==
  {i \in Icrs : icr[c][i].act}
    \cup {a \in {AskCount} : irqCount[c]}
    \cup {a \in {AskUart} : Uart \in Slow(c)}
    \cup {a \in {AskLocal} : Slow(c) \cap SlowLocal # {}}

Ahead(c) == {a \in Asks(c) : a >= poll[c]}
-----------------------------------------------------------------------------
BootMask(c) == Booting(c) /\ slowMask[c] # SlowOf(c) /\ WriteSlsel(c, SlowOf(c))

BootEnable(c) == Booting(c) /\ slowMask[c] = SlowOf(c) /\ Mtc0Sr(c, ThreadSr)

Idle(c) == sr[c] = ThreadSr /\ Wait(c)

Thread(c) ==
  /\ sr[c] = ThreadSr /\ c \in Workers
  /\ \/ \E d \in Cores \ {c}, i \in Icrs, val \in Causes :
          SendInterrupt(c, d, i, val)
     \/ Mtc0Sr(c, CriticalSr)
     \/ Mtc0ErrCtl(c, TRUE)

LeaveCritical(c) == sr[c] = CriticalSr /\ Mtc0Sr(c, ThreadSr)

(* One pass of a handler over what asks for the core, then the return.     *)
Serve(c) ==
  /\ InHandler(c)
  /\ \E a \in Ahead(c) :
       /\ \A b \in Ahead(c) : a <= b
       /\ poll' = [poll EXCEPT ![c] = a + 1]
       /\ \/ a \in Icrs /\ AckIcr(c, a)
          \/ a = AskCount /\ Mtc0Compare(c, compare[c])
          \/ a = AskUart /\ AccessUart(c) /\ Uart \notin slowInt'
          \/ a = AskLocal /\ WriteSlsta(c, SlowLocal)

Return(c) ==
  /\ InHandler(c) /\ Ahead(c) = {}
  /\ Eret(c)
  /\ poll' = [poll EXCEPT ![c] = 0]

CacheErrorReturn(c) == sr[c].erl /\ ~Booting(c) /\ Eret(c)

Loop ==
  \E c \in Cores :
    \/ /\ \/ Head(c)
          \/ BootMask(c) \/ BootEnable(c)
          \/ Idle(c) \/ Thread(c) \/ LeaveCritical(c)
          \/ CacheErrorReturn(c)
       /\ UNCHANGED poll
    \/ Serve(c) \/ Return(c)

Devices ==
  /\ \/ DeviceSlow /\ slowInt' \subseteq {Uart}
     \/ \E c \in Cores : ~Booting(c) /\ EccEvent(c)
  /\ UNCHANGED poll

KernelInit == Init /\ poll = [c \in Cores |-> 0]

KernelNext == Loop \/ Devices

(* sim_instr goes round as long as it runs; the devices owe nothing.       *)
KernelSpec ==
  KernelInit /\ [][KernelNext]_kernelVars /\ WF_kernelVars(Loop)
-----------------------------------------------------------------------------
(* Whatever asks for a core is served: no interrupt from another core, no  *)
(* tick of the counter, no request of the UART or the cache is forgotten   *)
(* while the core sleeps, handles another or has interrupts off.           *)
EveryRequestServed ==
  /\ \A c \in Cores, i \in Icrs : icr[c][i].act ~> ~icr[c][i].act
  /\ \A c \in Cores : irqCount[c] ~> ~irqCount[c]
  /\ \A c \in Cores, s \in SlowLocal : s \in slowLocal[c] ~> s \notin slowLocal[c]
  /\ Uart \in slowInt ~> Uart \notin slowInt

(* A core that executes WAIT wakes up again, also when the interrupt       *)
(* arrives just before or just after it.                                   *)
EverySleeperWakes ==
  \A c \in Cores : "WAIT" \in events[c] ~> "WAIT" \notin events[c]
=============================================================================
