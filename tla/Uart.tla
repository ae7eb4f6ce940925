-------------------------------- MODULE Uart --------------------------------
(***************************************************************************)
(* The UART (sc1_uart.c): a receive and a transmit FIFO in fixed arrays,   *)
(* the transmit buffer before the second, line status, interrupt status    *)
(* and the UART's slow interrupt request.  Register accesses come from     *)
(* the cores; uart_rcv_svc, uart_xmt_svc and uart_fifo_svc are called by   *)
(* the event queue, in any order the queue may hold them.                  *)
(*                                                                         *)
(* A character is what is left of it after the line's width and parity     *)
(* are applied.  The modem registers, the divisor's value, the debugging   *)
(* copy of IID and the option of disabling the receiver are left out.      *)
(***************************************************************************)
EXTENDS Integers

CONSTANTS
  Size,         \* UART_FIFO_SIZE
  Alarms,       \* rcv_alarm
  Timeout,      \* UART_RCV_TMO_CNT
  Chars         \* the characters on the line

ASSUME UartAssumption ==
  /\ Size \in Nat \ {0} /\ Timeout \in Nat
  /\ Alarms \subseteq 1 .. Size /\ 1 \in Alarms
  /\ 0 \in Chars

Slots == 0 .. Size - 1
Errors == {"BRK", "PE"}
Slot == [data : Chars, err : SUBSET Errors]
NoSlot == [data |-> 0, err |-> {}]

(* What may come from the line: a break has no character.                  *)
Arriving ==
  [data : Chars, err : {{}, {"PE"}}] \cup [data : {0}, err : {{"BRK"}}]

(* The bits of IE and of the interrupt status; no modem interrupt occurs.  *)
Enables == {"RCV", "XMT", "RSTA"}
Interrupts == Enables \cup {"TMO"}

VARIABLES
  rfifo,        \* uart_rcv_fifo, _ip, _rp and _cnt
  rip,
  rrp,
  rcnt,
  xfifo,        \* uart_xmt_fifo, _ip, _rp and _cnt
  xip,
  xrp,
  xcnt,
  xbuf,         \* uart_xbuf and uart_xbuf_full
  xfull,
  lsta,         \* the error bits of uart_lsta; a read computes the others
  ista,         \* uart_ista and uart_ie
  ie,
  alarm,        \* uart_rcv_alarm
  tmo,          \* uart_rcv_tmo
  dlab,         \* UART_LCTL_DLAB of uart_lctl
  request,      \* SLOW_UART in cac_slow_int
  xmtEvent,     \* UART_XMT and UART_FIFO are in the event queue
  fifoEvent

receive == <<rfifo, rip, rrp, rcnt>>
transmit == <<xfifo, xip, xrp, xcnt>>
buffer == <<xbuf, xfull>>
settings == <<ie, alarm, dlab>>
queued == <<xmtEvent, fifoEvent>>
vars == <<receive, transmit, buffer, lsta, ista, settings, tmo, request, queued>>

After(i) == (i + 1) % Size

(* uart_eval_intr                                                          *)
EvalIntr == request' = (ista' \cap ie' # {})

(* Mutant of EvalTorq: the slot before the read pointer moves.             *)
EvalTorqBefore(line, status) ==
  LET err == rfifo'[rrp].err
  IN /\ lsta' = line \cup err
     /\ ista' = status \cup {s \in {"RSTA"} : err # {}}

(* uart_eval_torq, with the other changes of the caller to the line status *)
(* and the interrupt status: the slot at the read pointer counts, whether  *)
(* or not the FIFO holds anything.                                         *)
EvalTorq(line, status) ==
  LET err == rfifo'[rrp'].err
  IN /\ lsta' = line \cup err
     /\ ista' = status \cup {s \in {"RSTA"} : err # {}}
-----------------------------------------------------------------------------
(* Reads.                                                                  *)
ReadRbuf ==
  /\ ~dlab
  /\ tmo' = 0
  /\ rfifo' = [rfifo EXCEPT ![rrp].err = {}]
  /\ UNCHANGED rip
  /\ IF rcnt > 0
     THEN /\ rcnt' = rcnt - 1
          /\ rrp' = After(rrp)
          /\ EvalTorq(lsta, ista \ ({"TMO"} \cup {s \in {"RCV"} : rcnt' < alarm}))
     ELSE /\ UNCHANGED <<rcnt, rrp, lsta>>
          /\ ista' = ista \ ({"TMO"} \cup {s \in {"RCV"} : rcnt' < alarm})
  /\ UNCHANGED <<transmit, buffer, settings, queued>>
  /\ EvalIntr

(* What a read of the line status returns.                                 *)
LineStatus ==
  lsta \cup {s \in {"DRDY"} : rcnt > 0}
       \cup {s \in {"FEMP"} : xcnt = 0}
       \cup {s \in {"XEMP"} : xcnt = 0 /\ ~xfull}

ReadLsta ==
  /\ ista' = ista \ {"RSTA"}
  /\ lsta' = {}
  /\ UNCHANGED <<receive, transmit, buffer, settings, tmo, queued>>
  /\ EvalIntr

(* A read or write of the divisor, of IID (whose read clears nothing), of  *)
(* the modem registers, a read of IE or of the line control.               *)
AccessOther ==
  /\ UNCHANGED <<receive, transmit, buffer, lsta, ista, settings, tmo, queued>>
  /\ EvalIntr
-----------------------------------------------------------------------------
(* Writes.  One into a full buffer replaces the character in it.           *)
WriteXbuf(c) ==
  /\ ~dlab
  /\ xbuf' = c /\ xfull' = TRUE
  /\ fifoEvent' = TRUE
  /\ ista' = ista \ {"XMT"}
  /\ UNCHANGED <<receive, transmit, lsta, settings, tmo, xmtEvent>>
  /\ EvalIntr

WriteIe(e) ==
  /\ ~dlab
  /\ ie' = e \cup {s \in {"TMO"} : "RCV" \in e}
  /\ UNCHANGED <<receive, transmit, buffer, lsta, ista, alarm, dlab, tmo, queued>>
  /\ EvalIntr

WriteFctl(rrst, xrst, a) ==
  /\ IF rrst THEN rip' = 0 /\ rrp' = 0 /\ rcnt' = 0
     ELSE UNCHANGED <<rip, rrp, rcnt>>
  /\ IF xrst THEN xip' = 0 /\ xrp' = 0 /\ xcnt' = 0
     ELSE UNCHANGED <<xip, xrp, xcnt>>
  /\ alarm' = a
  /\ UNCHANGED <<rfifo, xfifo, buffer, ie, dlab, tmo, queued>>
  /\ EvalTorq(lsta, ista)
  /\ EvalIntr

WriteLctl(d) ==
  /\ dlab' = d
  /\ UNCHANGED <<receive, transmit, buffer, lsta, ista, ie, alarm, tmo, queued>>
  /\ EvalIntr
-----------------------------------------------------------------------------
(* uart_rcv_svc without a character on the line.                           *)
(* Mutant of PollNothing: the timeout is not evaluated.                    *)
PollNothingSilent ==
  /\ tmo' = IF tmo > 0 THEN tmo - 1 ELSE 0
  /\ ista' = ista \cup {s \in {"TMO"} : tmo = 1}
  /\ UNCHANGED <<receive, transmit, buffer, lsta, settings, queued, request>>

PollNothing ==
  /\ tmo' = IF tmo > 0 THEN tmo - 1 ELSE 0
  /\ ista' = ista \cup {s \in {"TMO"} : tmo = 1}
  /\ UNCHANGED <<receive, transmit, buffer, lsta, settings, queued>>
  /\ IF tmo = 1 THEN EvalIntr ELSE UNCHANGED request

(* uart_rcv_svc with a character and room for it,                          *)
PollChar(s) ==
  /\ rcnt < Size
  /\ rcnt' = rcnt + 1
  /\ rfifo' = [rfifo EXCEPT ![rip] = s]
  /\ rip' = After(rip)
  /\ tmo' = IF rcnt' >= alarm THEN 0 ELSE Timeout
  /\ UNCHANGED rrp
  /\ EvalTorq(lsta, ista \cup {i \in {"RCV"} : rcnt' >= alarm})
  /\ UNCHANGED <<transmit, buffer, settings, queued>>
  /\ EvalIntr

(* and without room: the character is lost.                                *)
Overrun ==
  /\ rcnt >= Size
  /\ UNCHANGED <<receive, transmit, buffer, settings, tmo, queued>>
  /\ EvalTorq(lsta \cup {"OE"}, ista \cup {"RSTA"})
  /\ EvalIntr

(* uart_fifo_svc of a FIFO with n characters, with its read pointer where  *)
(* the caller has left it.                                                 *)
CanInsert(n) == xfull /\ n < Size

Insert ==
  /\ xfifo' = [xfifo EXCEPT ![xip] = xbuf]
  /\ xip' = After(xip)
  /\ xfull' = FALSE
  /\ UNCHANGED xbuf

FifoSvc ==
  /\ fifoEvent
  /\ fifoEvent' = FALSE
  /\ IF CanInsert(xcnt)
     THEN Insert /\ xcnt' = xcnt + 1 /\ xmtEvent' = TRUE
     ELSE UNCHANGED <<xfifo, xip, buffer, xcnt, xmtEvent>>
  /\ UNCHANGED <<receive, xrp, lsta, ista, settings, tmo, request>>

(* uart_xmt_svc when the console is busy: it tries again.                  *)
XmtStall ==
  /\ xmtEvent /\ xcnt > 0
  /\ UNCHANGED vars

(* Mutant of XmtSvc: the character in the buffer is left to its own event. *)
XmtSvcAlone ==
  /\ xmtEvent
  /\ xrp' = IF xcnt > 0 THEN After(xrp) ELSE xrp
  /\ xcnt' = IF xcnt > 0 THEN xcnt - 1 ELSE 0
  /\ xmtEvent' = (xcnt' > 0)
  /\ ista' = ista \cup {s \in {"XMT"} : ~xfull /\ xcnt' = 0}
  /\ UNCHANGED <<receive, xfifo, xip, buffer, lsta, settings, tmo, fifoEvent>>
  /\ EvalIntr

(* uart_xmt_svc when the console takes the character.                      *)
XmtSvc ==
  LET left == IF xcnt > 0 THEN xcnt - 1 ELSE 0
  IN /\ xmtEvent
     /\ xrp' = IF xcnt > 0 THEN After(xrp) ELSE xrp
     /\ IF CanInsert(left)
        THEN Insert /\ xcnt' = left + 1 /\ xmtEvent' = TRUE
        ELSE /\ UNCHANGED <<xfifo, xip, buffer>>
             /\ xcnt' = left /\ xmtEvent' = (left > 0)
     /\ ista' = ista \cup {s \in {"XMT"} : ~xfull /\ left = 0}
     /\ UNCHANGED <<receive, lsta, settings, tmo, fifoEvent>>
     /\ EvalIntr

(* uart_reset evaluates no interrupt.                                      *)
Reset ==
  /\ rfifo' = [s \in Slots |-> NoSlot] /\ rip' = 0 /\ rrp' = 0 /\ rcnt' = 0
  /\ xfifo' = [s \in Slots |-> 0] /\ xip' = 0 /\ xrp' = 0 /\ xcnt' = 0
  /\ xbuf' = 0 /\ xfull' = FALSE
  /\ lsta' = {} /\ ista' = {} /\ ie' = {}
  /\ alarm' = 1 /\ tmo' = 0 /\ dlab' = FALSE
  /\ xmtEvent' = FALSE /\ fifoEvent' = FALSE
  /\ UNCHANGED request
-----------------------------------------------------------------------------
Init ==
  /\ rfifo = [s \in Slots |-> NoSlot] /\ rip = 0 /\ rrp = 0 /\ rcnt = 0
  /\ xfifo = [s \in Slots |-> 0] /\ xip = 0 /\ xrp = 0 /\ xcnt = 0
  /\ xbuf = 0 /\ xfull = FALSE
  /\ lsta = {} /\ ista = {} /\ ie = {}
  /\ alarm = 1 /\ tmo = 0 /\ dlab = FALSE
  /\ request = FALSE
  /\ xmtEvent = FALSE /\ fifoEvent = FALSE

Access ==
  \/ ReadRbuf \/ ReadLsta \/ AccessOther
  \/ \E c \in Chars : WriteXbuf(c)
  \/ \E e \in SUBSET Enables : WriteIe(e)
  \/ \E rrst \in BOOLEAN, xrst \in BOOLEAN, a \in Alarms : WriteFctl(rrst, xrst, a)
  \/ \E d \in BOOLEAN : WriteLctl(d)

Events ==
  \/ PollNothing \/ Overrun
  \/ \E s \in Arriving : PollChar(s)
  \/ FifoSvc \/ XmtStall \/ XmtSvc

Next == Access \/ Events \/ Reset

Spec == Init /\ [][Next]_vars
-----------------------------------------------------------------------------
TypeOK ==
  /\ rfifo \in [Slots -> Slot]
  /\ rip \in Slots /\ rrp \in Slots /\ rcnt \in 0 .. Size
  /\ xfifo \in [Slots -> Chars]
  /\ xip \in Slots /\ xrp \in Slots /\ xcnt \in 0 .. Size
  /\ xbuf \in Chars /\ xfull \in BOOLEAN
  /\ lsta \subseteq Errors \cup {"OE"}
  /\ ista \subseteq Interrupts /\ ie \subseteq Interrupts
  /\ alarm \in Alarms /\ tmo \in 0 .. Timeout
  /\ dlab \in BOOLEAN /\ request \in BOOLEAN
  /\ xmtEvent \in BOOLEAN /\ fifoEvent \in BOOLEAN

(* No character to be sent is left without an event that moves it on,      *)
(* whatever order the events come in and whatever is reset in between, and *)
(* the transmitter does not call for more before it has sent everything.   *)
NothingStuck ==
  /\ xcnt > 0 => xmtEvent
  /\ xfull => fifoEvent \/ xmtEvent
  /\ "XMT" \in ista => xcnt = 0 /\ ~xfull

(* The FIFOs' counts agree with their pointers, and an interrupt that is   *)
(* enabled is requested of the cores.                                      *)
Consistent ==
  /\ rip = (rrp + rcnt) % Size
  /\ xip = (xrp + xcnt) % Size
  /\ ista \cap ie # {} => request
=============================================================================
