------------------------------- MODULE MCUart -------------------------------
(***************************************************************************)
(* The UART under three programs: one that does anything with the          *)
(* receiver, one that does anything with the transmitter, and the driver.  *)
(***************************************************************************)
EXTENDS UartDriver

VARIABLE kind

mcVars == <<allVars, kind>>

(* Anything, with characters that differ in their errors only, or not.     *)
Receive ==
  \/ ReadRbuf \/ ReadLsta
  \/ \E e \in SUBSET {"RCV", "RSTA"} : WriteIe(e)
  \/ \E rrst \in BOOLEAN, a \in Alarms : WriteFctl(rrst, FALSE, a)
  \/ PollNothing \/ Overrun
  \/ \E s \in Arriving : s.data = 0 /\ PollChar(s)
  \/ Reset

Transmit ==
  \/ AccessOther
  \/ \E c \in Chars : WriteXbuf(c)
  \/ \E e \in SUBSET {"XMT"} : WriteIe(e)
  \/ \E xrst \in BOOLEAN : WriteFctl(FALSE, xrst, alarm)
  \/ \E d \in BOOLEAN : WriteLctl(d)
  \/ FifoSvc \/ XmtStall \/ XmtSvc
  \/ Reset

MCInit == kind \in {"receive", "transmit", "driver"} /\ InitDriver

MCNext ==
  /\ UNCHANGED kind
  /\ \/ kind = "receive" /\ Receive /\ UNCHANGED driver
     \/ kind = "transmit" /\ Transmit /\ UNCHANGED driver
     \/ kind = "driver" /\ NextDriver

MCSpec ==
  /\ MCInit /\ [][MCNext]_mcVars
  /\ WF_mcVars(kind = "driver" /\ Program /\ UNCHANGED kind)
  /\ WF_mcVars(kind = "driver" /\ PutOut /\ UNCHANGED kind)
  /\ WF_mcVars(kind = "driver" /\ FifoSvc /\ UNCHANGED <<driver, kind>>)
  /\ WF_mcVars(kind = "driver" /\ PollNothing /\ UNCHANGED <<driver, kind>>)
=============================================================================
