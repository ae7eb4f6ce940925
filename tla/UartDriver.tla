----------------------------- MODULE UartDriver -----------------------------
(***************************************************************************)
(* A program that uses the UART by its interrupts: on a request it reads   *)
(* the line status and then takes a character, or sends one when the       *)
(* transmitter is empty, until there is nothing to do.  It turns the       *)
(* transmit interrupt off when it has nothing to send.  The program, the   *)
(* line and the console are not part of the module sc1_uart.c.             *)
(***************************************************************************)
EXTENDS Uart, Sequences

CONSTANTS
  DriverAlarm,  \* the alarm level the program sets
  MaxTraffic    \* the characters that arrive and are sent, together

ASSUME DriverAssumption ==
  DriverAlarm \in Alarms /\ Timeout > 0 /\ MaxTraffic \in Nat

VARIABLES
  step,         \* where the program is
  status,       \* the line status it read last
  written,      \* how many of the characters to send it has written
  sent,         \* what the program was given to send,
  out,          \*   and what the console was given of it
  arrived,      \* what the line brought, and what the program got of it
  got,
  lost          \* a character was lost and the program does not know

driver == <<step, status, written, sent, out, arrived, got, lost>>
allVars == <<vars, driver>>

ToSend == written < Len(sent)

Goto(s) == step' = s

Boot ==
  /\ step = "boot" /\ Goto("enable")
  /\ WriteFctl(TRUE, TRUE, DriverAlarm)
  /\ UNCHANGED <<status, written, sent, out, arrived, got, lost>>

Enable ==
  /\ step = "enable" /\ Goto("poll")
  /\ WriteIe(Enables)
  /\ UNCHANGED <<status, written, sent, out, arrived, got, lost>>

(* The slow interrupt.                                                     *)
Wake ==
  /\ step = "idle" /\ request /\ Goto("poll")
  /\ UNCHANGED <<vars, status, written, sent, out, arrived, got, lost>>

StartSend ==
  /\ step = "idle" /\ ToSend /\ "XMT" \notin ie /\ Goto("poll")
  /\ WriteIe(Enables)
  /\ UNCHANGED <<status, written, sent, out, arrived, got, lost>>

Poll ==
  /\ step = "poll" /\ Goto("serve")
  /\ ReadLsta
  /\ status' = LineStatus
  /\ lost' = (lost /\ "OE" \notin status')
  /\ UNCHANGED <<written, sent, out, arrived, got>>

Take ==
  /\ step = "serve" /\ "DRDY" \in status /\ Goto("poll")
  /\ ReadRbuf
  /\ got' = Append(got, [data |-> rfifo[rrp].data, err |-> status \cap Errors])
  /\ UNCHANGED <<status, written, sent, out, arrived, lost>>

Put ==
  /\ step = "serve" /\ "DRDY" \notin status /\ "XEMP" \in status /\ ToSend
  /\ Goto("poll")
  /\ WriteXbuf(sent[written + 1])
  /\ written' = written + 1
  /\ UNCHANGED <<status, sent, out, arrived, got, lost>>

StopSend ==
  /\ step = "serve" /\ "DRDY" \notin status /\ "XEMP" \in status /\ ~ToSend
  /\ Goto("idle")
  /\ WriteIe(Enables \ {"XMT"})
  /\ UNCHANGED <<status, written, sent, out, arrived, got, lost>>

Rest ==
  /\ step = "serve" /\ status \cap {"DRDY", "XEMP"} = {} /\ Goto("idle")
  /\ UNCHANGED <<vars, status, written, sent, out, arrived, got, lost>>

Program ==
  Boot \/ Enable \/ Wake \/ StartSend \/ Poll \/ Take \/ Put \/ StopSend \/ Rest
-----------------------------------------------------------------------------
Traffic == Len(sent) + Len(arrived) < MaxTraffic

(* Somebody gives the program a character to send.                         *)
Submit(c) ==
  /\ Traffic
  /\ sent' = Append(sent, c)
  /\ UNCHANGED <<vars, step, status, written, out, arrived, got, lost>>

ArriveAtUart(s) ==
  /\ Traffic /\ step \notin {"boot", "enable"}
  /\ PollChar(s)
  /\ arrived' = Append(arrived, s)
  /\ UNCHANGED <<step, status, written, sent, out, got, lost>>

LoseAtUart ==
  /\ Overrun
  /\ lost' = TRUE
  /\ UNCHANGED <<step, status, written, sent, out, arrived, got>>

PutOut ==
  /\ XmtSvc
  /\ out' = IF xcnt > 0 THEN Append(out, xfifo[xrp]) ELSE out
  /\ UNCHANGED <<step, status, written, sent, arrived, got, lost>>

Queue == (FifoSvc \/ XmtStall \/ PollNothing) /\ UNCHANGED driver

InitDriver ==
  /\ Init
  /\ step = "boot" /\ status = {} /\ written = 0
  /\ sent = <<>> /\ out = <<>>
  /\ arrived = <<>> /\ got = <<>> /\ lost = FALSE

NextDriver ==
  \/ Program
  \/ \E c \in Chars : Submit(c)
  \/ \E s \in Arriving : ArriveAtUart(s)
  \/ LoseAtUart \/ PutOut \/ Queue

(* The program runs, the event queue calls what is in it, and the console  *)
(* is not busy for ever.                                                   *)
SpecDriver ==
  /\ InitDriver /\ [][NextDriver]_allVars
  /\ WF_allVars(Program) /\ WF_allVars(PutOut)
  /\ WF_allVars(FifoSvc /\ UNCHANGED driver)
  /\ WF_allVars(PollNothing /\ UNCHANGED driver)
-----------------------------------------------------------------------------
(* Every character sent comes out, once and in order, and every one that   *)
(* arrives reaches the program, in order and with its errors, however the  *)
(* events fall between the program's accesses; and a program that is too   *)
(* slow is told.                                                           *)
Line == INSTANCE SerialLine

ImplementsSerialLine == Line!Spec

=============================================================================
