----------------------------- MODULE UartProofs -----------------------------
(***************************************************************************)
(* Proofs about the UART, for FIFOs of any size and any alarm levels.  The *)
(* three invariants together are inductive; each step first keeps the      *)
(* types, then the promises.                                               *)
(*                                                                         *)
(* Then the program of UartDriver: what LineInv says of the two FIFOs,     *)
(* the buffer and the error bits holds together with them, and from it     *)
(* every step is one of the serial line's or none.                         *)
(***************************************************************************)
EXTENDS UartDriver, SequenceTheorems, TLAPS

(* The ring buffers: a remainder by the size of the buffer,                *)
LEMMA ModSmall ==
  ASSUME NEW n \in Nat \ {0}, NEW a \in 0 .. n - 1
  PROVE  a % n = a
OBVIOUS

LEMMA ModOnce ==
  ASSUME NEW n \in Nat \ {0}, NEW a \in n .. 2 * n - 1
  PROVE  a % n = a - n
OBVIOUS

LEMMA ModSum ==
  ASSUME NEW n \in Nat \ {0}, NEW a \in 0 .. n - 1, NEW b \in 0 .. n, a + b >= n
  PROVE  (a + b) % n = a + b - n
OBVIOUS

(* the pointer after another one,                                          *)
LEMMA AfterIs ==
  ASSUME NEW p \in Slots
  PROVE  /\ After(p) = IF p = Size - 1 THEN 0 ELSE p + 1
         /\ After(p) \in Slots
<1>1. CASE p = Size - 1
  <2>1. Size % Size = 0
    BY ModOnce, UartAssumption
  <2> QED BY <1>1, <2>1, UartAssumption DEF After, Slots
<1>2. CASE p # Size - 1
  <2>1. (p + 1) % Size = p + 1
    BY <1>2, ModSmall, UartAssumption DEF Slots
  <2> QED BY <1>2, <2>1, UartAssumption DEF After, Slots
<1> QED BY <1>1, <1>2

(* a character put in and one taken out.                                   *)
LEMMA RingPush ==
  ASSUME NEW p \in Slots, NEW n \in 0 .. Size - 1
  PROVE  After((p + n) % Size) = (p + (n + 1)) % Size
<1>1. CASE p + n < Size - 1
  <2>1. (p + n) % Size = p + n /\ (p + (n + 1)) % Size = p + (n + 1)
    BY <1>1, ModSmall, UartAssumption DEF Slots
  <2> QED BY <1>1, <2>1, AfterIs, UartAssumption DEF Slots
<1>2. CASE p + n = Size - 1
  <2>1. (p + n) % Size = Size - 1 /\ (p + (n + 1)) % Size = 0
    BY <1>2, ModSmall, ModOnce, UartAssumption DEF Slots
  <2> QED BY <2>1, AfterIs, UartAssumption DEF Slots
<1>3. CASE p + n > Size - 1
  <2>1. p \in 0 .. Size - 1 /\ n \in 0 .. Size /\ n + 1 \in 0 .. Size
        /\ p + n >= Size /\ p + (n + 1) >= Size /\ Size \in Nat \ {0}
    BY <1>3, UartAssumption DEF Slots
  <2>3. (p + n) % Size = p + n - Size
    BY <2>1, ModSum
  <2>4. (p + (n + 1)) % Size = p + (n + 1) - Size
    BY <2>1, ModSum
  <2> QED BY <1>3, <2>3, <2>4, AfterIs, UartAssumption DEF Slots
<1> QED BY <1>1, <1>2, <1>3, UartAssumption DEF Slots

LEMMA RingPop ==
  ASSUME NEW p \in Slots, NEW n \in 1 .. Size
  PROVE  (After(p) + (n - 1)) % Size = (p + n) % Size
<1>1. CASE p = Size - 1
  <2>1. (n - 1) % Size = n - 1
    BY ModSmall, UartAssumption
  <2>2. p \in 0 .. Size - 1 /\ n \in 0 .. Size /\ p + n >= Size
        /\ Size \in Nat \ {0} /\ p + n - Size = n - 1
    BY <1>1, UartAssumption DEF Slots
  <2>3. (p + n) % Size = p + n - Size
    BY <2>2, ModSum
  <2>4. (p + n) % Size = n - 1
    BY <2>2, <2>3
  <2> QED BY <1>1, <2>1, <2>4, AfterIs, UartAssumption
<1>2. CASE p # Size - 1
  <2>1. After(p) + (n - 1) = p + n
    BY <1>2, AfterIs, UartAssumption DEF Slots
  <2> QED BY <2>1
<1> QED BY <1>1, <1>2
-----------------------------------------------------------------------------
(* The shared parts of the actions.                                        *)
LEMMA EvalIntrTyped ==
  ASSUME EvalIntr
  PROVE  request' \in BOOLEAN /\ (ista' \cap ie' # {} => request')
BY DEF EvalIntr

LEMMA EvalTorqTyped ==
  ASSUME NEW line \in SUBSET (Errors \cup {"OE"}), NEW raised \in SUBSET Interrupts,
         rfifo' \in [Slots -> Slot], rrp' \in Slots,
         EvalTorq(line, raised)
  PROVE  /\ lsta' \subseteq Errors \cup {"OE"}
         /\ ista' \subseteq Interrupts
         /\ "XMT" \in ista' => "XMT" \in raised
<1>1. rfifo'[rrp'].err \subseteq Errors
  BY DEF Slot
<1> QED BY <1>1 DEF EvalTorq, Interrupts, Enables

IInv == TypeOK /\ NothingStuck /\ Consistent

LEMMA InitInv == Init => IInv
<1> SUFFICES ASSUME Init PROVE IInv
  OBVIOUS
<1>1. NoSlot \in Slot
  BY UartAssumption DEF NoSlot, Slot, Errors
<1>2. 0 \in Slots
  BY UartAssumption DEF Slots
<1>3. TypeOK
  <2>1. 0 \in 0 .. Size /\ 0 \in 0 .. Timeout /\ 0 \in Chars /\ 1 \in Alarms
    BY UartAssumption
  <2>2. rfifo \in [Slots -> Slot] /\ xfifo \in [Slots -> Chars]
    BY <1>1, <2>1 DEF Init
  <2> QED BY <1>2, <2>1, <2>2 DEF Init, TypeOK
<1>4. NothingStuck
  BY DEF Init, NothingStuck
<1>5. (0 + 0) % Size = 0
  BY ModSmall, UartAssumption
<1> QED BY <1>3, <1>4, <1>5 DEF Init, IInv, Consistent

(* A read of the receive buffer: out of an empty FIFO, and out of one that *)
(* holds something.                                                        *)
LEMMA ReadRbufInv ==
  ASSUME IInv, ReadRbuf
  PROVE  IInv'
<1> USE DEF IInv
<1>1. /\ UNCHANGED <<rip, transmit, buffer, settings, queued>>
      /\ tmo' = 0
      /\ EvalIntr
  BY DEF ReadRbuf
<1>2. rfifo' \in [Slots -> Slot]
  <2>1. [rfifo[rrp] EXCEPT !.err = {}] \in Slot
    BY DEF TypeOK, Slot
  <2>2. rfifo' = [rfifo EXCEPT ![rrp] = [rfifo[rrp] EXCEPT !.err = {}]]
    BY DEF ReadRbuf
  <2> QED BY <2>1, <2>2 DEF TypeOK
<1>3. /\ rrp' \in Slots /\ rcnt' \in 0 .. Size
      /\ rip' = (rrp' + rcnt') % Size
      /\ lsta' \subseteq Errors \cup {"OE"}
      /\ ista' \subseteq Interrupts
      /\ "XMT" \in ista' => "XMT" \in ista
  <2>1. CASE rcnt > 0
    <3>1. /\ rcnt' = rcnt - 1 /\ rrp' = After(rrp)
          /\ EvalTorq(lsta, ista \ ({"TMO"} \cup {s \in {"RCV"} : rcnt' < alarm}))
      BY <2>1 DEF ReadRbuf
    <3>2. rrp' \in Slots /\ rcnt' \in 0 .. Size
      BY <2>1, <3>1, AfterIs, UartAssumption DEF TypeOK
    <3>3. rip' = (rrp' + rcnt') % Size
      BY <1>1, <2>1, <3>1, RingPop DEF TypeOK, Consistent
    <3>4. ista \ ({"TMO"} \cup {s \in {"RCV"} : rcnt' < alarm}) \in SUBSET Interrupts
      BY DEF TypeOK
    <3>5. lsta \in SUBSET (Errors \cup {"OE"})
      BY DEF TypeOK
    <3>6. /\ lsta' \subseteq Errors \cup {"OE"}
          /\ ista' \subseteq Interrupts
          /\ "XMT" \in ista' => "XMT" \in ista
      BY <1>2, <3>1, <3>2, <3>4, <3>5, EvalTorqTyped
    <3> QED BY <3>2, <3>3, <3>6
  <2>2. CASE ~(rcnt > 0)
    BY <1>1, <2>2 DEF ReadRbuf, TypeOK, Consistent
  <2> QED BY <2>1, <2>2
<1>4. 0 \in 0 .. Timeout
  BY UartAssumption
<1>5. TypeOK'
  BY <1>1, <1>2, <1>3, <1>4, EvalIntrTyped
     DEF TypeOK, transmit, buffer, settings, queued
<1>6. NothingStuck'
  BY <1>1, <1>3 DEF NothingStuck, transmit, buffer, queued
<1>7. Consistent'
  BY <1>1, <1>3, EvalIntrTyped DEF Consistent, transmit
<1> QED BY <1>5, <1>6, <1>7

(* The other accesses that leave the FIFOs alone.                          *)
LEMMA AccessInv ==
  ASSUME IInv,
         \/ ReadLsta \/ AccessOther
         \/ \E e \in SUBSET Enables : WriteIe(e)
         \/ \E d \in BOOLEAN : WriteLctl(d)
  PROVE  IInv'
<1> USE DEF IInv
<1>1. /\ UNCHANGED <<receive, transmit, buffer, tmo, queued, alarm>>
      /\ EvalIntr
      /\ ista' \subseteq ista
  BY DEF ReadLsta, AccessOther, WriteIe, WriteLctl, settings
<1>2. lsta' \subseteq Errors \cup {"OE"}
  BY DEF ReadLsta, AccessOther, WriteIe, WriteLctl, TypeOK
<1>3. ie' \subseteq Interrupts
  BY DEF ReadLsta, AccessOther, WriteIe, WriteLctl, TypeOK, Interrupts, settings
<1>4. dlab' \in BOOLEAN
  BY DEF ReadLsta, AccessOther, WriteIe, WriteLctl, TypeOK, settings
<1>5. TypeOK'
  BY <1>1, <1>2, <1>3, <1>4, EvalIntrTyped
     DEF TypeOK, receive, transmit, buffer, queued
<1>6. NothingStuck'
  BY <1>1 DEF NothingStuck, transmit, buffer, queued
<1>7. Consistent'
  BY <1>1, EvalIntrTyped DEF Consistent, receive, transmit
<1> QED BY <1>5, <1>6, <1>7

LEMMA WriteXbufInv ==
  ASSUME IInv, NEW c \in Chars, WriteXbuf(c)
  PROVE  IInv'
<1> USE DEF IInv
<1>1. /\ UNCHANGED <<receive, transmit, lsta, settings, tmo, xmtEvent>>
      /\ EvalIntr
      /\ xbuf' = c /\ xfull' = TRUE /\ fifoEvent' = TRUE
      /\ ista' = ista \ {"XMT"}
  BY DEF WriteXbuf
<1>2. TypeOK'
  BY <1>1, EvalIntrTyped DEF TypeOK, receive, transmit, settings
<1>3. NothingStuck'
  BY <1>1 DEF NothingStuck, transmit
<1>4. Consistent'
  BY <1>1, EvalIntrTyped DEF Consistent, receive, transmit
<1> QED BY <1>2, <1>3, <1>4

LEMMA WriteFctlInv ==
  ASSUME IInv, NEW rrst \in BOOLEAN, NEW xrst \in BOOLEAN, NEW a \in Alarms,
         WriteFctl(rrst, xrst, a)
  PROVE  IInv'
<1> USE DEF IInv
<1>1. /\ UNCHANGED <<rfifo, xfifo, buffer, ie, dlab, tmo, queued>>
      /\ alarm' = a
      /\ EvalIntr /\ EvalTorq(lsta, ista)
  BY DEF WriteFctl
<1>2. 0 \in Slots /\ 0 \in 0 .. Size /\ (0 + 0) % Size = 0
  BY ModSmall, UartAssumption DEF Slots
<1>3. /\ rip' \in Slots /\ rrp' \in Slots /\ rcnt' \in 0 .. Size
      /\ rip' = (rrp' + rcnt') % Size
  BY <1>2 DEF WriteFctl, TypeOK, Consistent
<1>4. /\ xip' \in Slots /\ xrp' \in Slots /\ xcnt' \in 0 .. Size
      /\ xip' = (xrp' + xcnt') % Size
      /\ xcnt' = xcnt \/ xcnt' = 0
  BY <1>2 DEF WriteFctl, TypeOK, Consistent
<1>5. /\ lsta' \subseteq Errors \cup {"OE"}
      /\ ista' \subseteq Interrupts
      /\ "XMT" \in ista' => "XMT" \in ista
  BY <1>1, <1>3, EvalTorqTyped DEF TypeOK
<1>6. TypeOK'
  BY <1>1, <1>3, <1>4, <1>5, EvalIntrTyped DEF TypeOK, buffer, queued
<1>7. NothingStuck'
  BY <1>1, <1>4, <1>5 DEF NothingStuck, buffer, queued
<1>8. Consistent'
  BY <1>1, <1>3, <1>4, EvalIntrTyped DEF Consistent
<1> QED BY <1>6, <1>7, <1>8
-----------------------------------------------------------------------------
(* The events.  A poll of an idle line,                                    *)
LEMMA PollNothingInv ==
  ASSUME IInv, PollNothing
  PROVE  IInv'
<1> USE DEF IInv
<1>1. /\ UNCHANGED <<receive, transmit, buffer, lsta, settings, queued>>
      /\ tmo' = IF tmo > 0 THEN tmo - 1 ELSE 0
      /\ ista' = ista \cup {s \in {"TMO"} : tmo = 1}
      /\ IF tmo = 1 THEN EvalIntr ELSE UNCHANGED request
  BY DEF PollNothing
<1>2. tmo' \in 0 .. Timeout
  BY <1>1, UartAssumption DEF TypeOK
<1>3. ista' \subseteq Interrupts /\ ("XMT" \in ista' => "XMT" \in ista)
  BY <1>1 DEF TypeOK, Interrupts
<1>4. request' \in BOOLEAN
  BY <1>1, EvalIntrTyped DEF TypeOK
<1>5. ista' \cap ie' # {} => request'
  <2>1. CASE tmo = 1
    BY <1>1, <2>1, EvalIntrTyped
  <2>2. CASE tmo # 1
    <3>1. ista' = ista /\ ie' = ie /\ request' = request
      BY <1>1, <2>2 DEF settings
    <3> QED BY <3>1 DEF Consistent
  <2> QED BY <2>1, <2>2
<1>6. TypeOK'
  BY <1>1, <1>2, <1>3, <1>4
     DEF TypeOK, receive, transmit, buffer, settings, queued
<1>7. NothingStuck'
  BY <1>1, <1>3 DEF NothingStuck, transmit, buffer, queued
<1>8. Consistent'
  BY <1>1, <1>5 DEF Consistent, receive, transmit
<1> QED BY <1>6, <1>7, <1>8

(* a character that finds room,                                            *)
LEMMA PollCharInv ==
  ASSUME IInv, NEW s \in Arriving, PollChar(s)
  PROVE  IInv'
<1> USE DEF IInv
<1>1. /\ rcnt < Size /\ rcnt' = rcnt + 1
      /\ rfifo' = [rfifo EXCEPT ![rip] = s]
      /\ rip' = After(rip)
      /\ tmo' = (IF rcnt' >= alarm THEN 0 ELSE Timeout)
      /\ rrp' = rrp
      /\ EvalTorq(lsta, ista \cup {i \in {"RCV"} : rcnt' >= alarm})
      /\ UNCHANGED <<transmit, buffer, settings, queued>>
      /\ EvalIntr
  BY DEF PollChar
<1>2. s \in Slot
  BY UartAssumption DEF Arriving, Slot, Errors
<1>3. rfifo' \in [Slots -> Slot]
  BY <1>1, <1>2 DEF TypeOK
<1>4. rip' \in Slots /\ rrp' \in Slots /\ rcnt' \in 0 .. Size
  BY <1>1, AfterIs, UartAssumption DEF TypeOK
<1>5. rip' = (rrp' + rcnt') % Size
  <2>1. rrp \in Slots /\ rcnt \in 0 .. Size - 1 /\ rip = (rrp + rcnt) % Size
    BY <1>1, UartAssumption DEF TypeOK, Consistent
  <2> QED BY <1>1, <2>1, RingPush
<1>6. tmo' \in 0 .. Timeout
  BY <1>1, UartAssumption
<1>7. /\ lsta' \subseteq Errors \cup {"OE"}
      /\ ista' \subseteq Interrupts
      /\ "XMT" \in ista' => "XMT" \in ista
  <2>1. ista \cup {i \in {"RCV"} : rcnt' >= alarm} \in SUBSET Interrupts
    BY DEF TypeOK, Interrupts, Enables
  <2>2. lsta \in SUBSET (Errors \cup {"OE"})
    BY DEF TypeOK
  <2>3. rrp' \in Slots
    BY <1>4
  <2> QED BY <1>1, <1>3, <2>1, <2>2, <2>3, EvalTorqTyped
<1>8. TypeOK'
  BY <1>1, <1>3, <1>4, <1>6, <1>7, EvalIntrTyped
     DEF TypeOK, transmit, buffer, settings, queued
<1>9. NothingStuck'
  BY <1>1, <1>7 DEF NothingStuck, transmit, buffer, queued
<1>10. Consistent'
  BY <1>1, <1>5, EvalIntrTyped DEF Consistent, transmit
<1> QED BY <1>8, <1>9, <1>10

(* and one that does not.                                                  *)
LEMMA OverrunInv ==
  ASSUME IInv, Overrun
  PROVE  IInv'
<1> USE DEF IInv
<1>1. /\ UNCHANGED <<receive, transmit, buffer, settings, tmo, queued>>
      /\ EvalTorq(lsta \cup {"OE"}, ista \cup {"RSTA"})
      /\ EvalIntr
  BY DEF Overrun
<1>2. /\ lsta \cup {"OE"} \in SUBSET (Errors \cup {"OE"})
      /\ ista \cup {"RSTA"} \in SUBSET Interrupts
      /\ rfifo' \in [Slots -> Slot] /\ rrp' \in Slots
  BY <1>1 DEF TypeOK, Interrupts, Enables, receive
<1>3. /\ lsta' \subseteq Errors \cup {"OE"}
      /\ ista' \subseteq Interrupts
      /\ "XMT" \in ista' => "XMT" \in ista
  BY <1>1, <1>2, EvalTorqTyped
<1>4. TypeOK'
  BY <1>1, <1>3, EvalIntrTyped
     DEF TypeOK, receive, transmit, buffer, settings, queued
<1>5. NothingStuck'
  BY <1>1, <1>3 DEF NothingStuck, transmit, buffer, queued
<1>6. Consistent'
  BY <1>1, EvalIntrTyped DEF Consistent, receive, transmit
<1> QED BY <1>4, <1>5, <1>6

(* The character in the buffer, into a FIFO from which the caller has      *)
(* taken what it takes.                                                    *)
LEMMA InsertRing ==
  ASSUME IInv, Insert, NEW r \in Slots, NEW n \in 0 .. Size - 1,
         xip = (r + n) % Size
  PROVE  /\ xfifo' \in [Slots -> Chars] /\ xip' \in Slots
         /\ xbuf' \in Chars /\ xfull' = FALSE
         /\ xip' = (r + (n + 1)) % Size
<1>1. /\ xfifo' = [xfifo EXCEPT ![xip] = xbuf]
      /\ xip' = After(xip) /\ xfull' = FALSE /\ xbuf' = xbuf
  BY DEF Insert
<1>2. xip \in Slots /\ xbuf \in Chars /\ xfifo \in [Slots -> Chars]
  BY DEF IInv, TypeOK
<1>3. xip' \in Slots
  BY <1>1, <1>2, AfterIs
<1>4. xip' = (r + (n + 1)) % Size
  BY <1>1, RingPush
<1> QED BY <1>1, <1>2, <1>3, <1>4

LEMMA FifoSvcInv ==
  ASSUME IInv, FifoSvc
  PROVE  IInv'
<1> USE DEF IInv
<1>1. /\ fifoEvent' = FALSE
      /\ UNCHANGED <<receive, xrp, lsta, ista, settings, tmo, request>>
  BY DEF FifoSvc
<1>2. /\ xfifo' \in [Slots -> Chars] /\ xip' \in Slots /\ xbuf' \in Chars
      /\ xcnt' \in 0 .. Size /\ xfull' \in BOOLEAN /\ xmtEvent' \in BOOLEAN
      /\ xip' = (xrp' + xcnt') % Size
      /\ xcnt' > 0 => xmtEvent'
      /\ xfull' => xmtEvent'
      /\ "XMT" \in ista => xcnt' = 0 /\ ~xfull'
  <2>1. CASE CanInsert(xcnt)
    <3>1. Insert /\ xcnt' = xcnt + 1 /\ xmtEvent' = TRUE
      BY <2>1 DEF FifoSvc
    <3>2. xrp \in Slots /\ xcnt \in 0 .. Size - 1 /\ xip = (xrp + xcnt) % Size
      BY <2>1, UartAssumption DEF CanInsert, TypeOK, Consistent
    <3>3. /\ xfifo' \in [Slots -> Chars] /\ xip' \in Slots
          /\ xbuf' \in Chars /\ xfull' = FALSE
          /\ xip' = (xrp + (xcnt + 1)) % Size
      BY <3>1, <3>2, InsertRing
    <3>4. xcnt' \in 0 .. Size
      BY <3>1, <3>2, UartAssumption
    <3>5. "XMT" \notin ista
      BY <2>1 DEF CanInsert, NothingStuck
    <3> QED BY <1>1, <3>1, <3>3, <3>4, <3>5
  <2>2. CASE ~CanInsert(xcnt)
    <3>1. UNCHANGED <<xfifo, xip, buffer, xcnt, xmtEvent>>
      BY <2>2 DEF FifoSvc
    <3>2. xfull => xcnt > 0
      BY <2>2, UartAssumption DEF CanInsert, TypeOK
    <3> QED BY <1>1, <3>1, <3>2 DEF buffer, TypeOK, Consistent, NothingStuck
  <2> QED BY <2>1, <2>2
<1>3. TypeOK'
  BY <1>1, <1>2 DEF TypeOK, receive, settings
<1>4. NothingStuck'
  BY <1>1, <1>2 DEF NothingStuck
<1>5. Consistent'
  BY <1>1, <1>2 DEF Consistent, receive, settings
<1> QED BY <1>3, <1>4, <1>5

LEMMA XmtSvcInv ==
  ASSUME IInv, XmtSvc
  PROVE  IInv'
<1> USE DEF IInv
<1> DEFINE left == IF xcnt > 0 THEN xcnt - 1 ELSE 0
<1>1. /\ xrp' = (IF xcnt > 0 THEN After(xrp) ELSE xrp)
      /\ ista' = ista \cup {s \in {"XMT"} : ~xfull /\ left = 0}
      /\ UNCHANGED <<receive, lsta, settings, tmo, fifoEvent>>
      /\ EvalIntr
      /\ IF CanInsert(left)
         THEN Insert /\ xcnt' = left + 1 /\ xmtEvent' = TRUE
         ELSE /\ UNCHANGED <<xfifo, xip, buffer>>
              /\ xcnt' = left /\ xmtEvent' = (left > 0)
  BY DEF XmtSvc
<1>2. xrp' \in Slots /\ left \in 0 .. Size - 1 /\ xip = (xrp' + left) % Size
  <2>1. CASE xcnt > 0
    <3>1. xcnt \in 1 .. Size /\ xrp \in Slots /\ xip = (xrp + xcnt) % Size
      BY <2>1, UartAssumption DEF TypeOK, Consistent
    <3>2. xrp' = After(xrp) /\ left = xcnt - 1
      BY <1>1, <2>1
    <3>3. xip = (xrp' + left) % Size
      BY <3>1, <3>2, RingPop
    <3> QED BY <3>1, <3>2, <3>3, AfterIs, UartAssumption
  <2>2. CASE ~(xcnt > 0)
    <3>1. xcnt = 0 /\ left = 0 /\ xrp' = xrp
      BY <1>1, <2>2, UartAssumption DEF TypeOK
    <3> QED BY <3>1, UartAssumption DEF TypeOK, Consistent
  <2> QED BY <2>1, <2>2
<1>3. /\ xfifo' \in [Slots -> Chars] /\ xip' \in Slots /\ xbuf' \in Chars
      /\ xcnt' \in 0 .. Size /\ xfull' \in BOOLEAN /\ xmtEvent' \in BOOLEAN
      /\ xip' = (xrp' + xcnt') % Size
      /\ xcnt' > 0 => xmtEvent'
      /\ xfull' => xmtEvent'
      /\ (~xfull /\ left = 0) => (xcnt' = 0 /\ ~xfull')
  <2>1. CASE CanInsert(left)
    <3>1. Insert /\ xcnt' = left + 1 /\ xmtEvent' = TRUE
      BY <1>1, <2>1
    <3>2. /\ xfifo' \in [Slots -> Chars] /\ xip' \in Slots
          /\ xbuf' \in Chars /\ xfull' = FALSE
          /\ xip' = (xrp' + (left + 1)) % Size
      BY <1>2, <3>1, InsertRing
    <3>3. left + 1 \in 0 .. Size
      BY <1>2, UartAssumption
    <3>4. xfull
      BY <2>1 DEF CanInsert
    <3> HIDE DEF left
    <3> QED BY <3>1, <3>2, <3>3, <3>4
  <2>2. CASE ~CanInsert(left)
    <3>1. /\ UNCHANGED <<xfifo, xip, buffer>>
          /\ xcnt' = left /\ xmtEvent' = (left > 0)
      BY <1>1, <2>2
    <3>2. left \in 0 .. Size
      BY <1>2, UartAssumption
    <3>3. xfull => left > 0
      <4> HIDE DEF left
      <4> QED BY <1>2, <2>2, UartAssumption DEF CanInsert
    <3>4. xfifo \in [Slots -> Chars] /\ xip \in Slots /\ xbuf \in Chars /\ xfull \in BOOLEAN
      BY DEF TypeOK
    <3>5. xmtEvent' \in BOOLEAN /\ (xcnt' > 0 => xmtEvent')
      <4>1. xmtEvent' = (left > 0) /\ xcnt' = left
        BY <3>1
      <4>2. (left > 0) \in BOOLEAN
        OBVIOUS
      <4> HIDE DEF left
      <4>3. xmtEvent' \in BOOLEAN
        BY <4>1, <4>2, Zenon
      <4>4. left > 0 => xmtEvent'
        BY <4>1, Zenon
      <4> QED BY <4>1, <4>3, <4>4, Zenon
    <3>6. xfifo' = xfifo /\ xip' = xip /\ xbuf' = xbuf /\ xfull' = xfull
      BY <3>1 DEF buffer
    <3>7. xip' = (xrp' + xcnt') % Size
      <4> HIDE DEF left
      <4> QED BY <1>2, <3>1, <3>6
    <3>8. xfull' => xmtEvent'
      <4> HIDE DEF left
      <4> QED BY <3>1, <3>3, <3>6
    <3>9. xcnt' \in 0 .. Size /\ ((~xfull /\ left = 0) => (xcnt' = 0 /\ ~xfull'))
      <4> HIDE DEF left
      <4> QED BY <3>1, <3>2, <3>6
    <3> QED BY <3>4, <3>5, <3>6, <3>7, <3>8, <3>9
  <2> QED BY <2>1, <2>2
<1>4. ista' \subseteq Interrupts
  BY <1>1 DEF TypeOK, Interrupts, Enables
<1>5. "XMT" \in ista' => xcnt' = 0 /\ ~xfull'
  <2>1. "XMT" \in ista => ~xfull /\ left = 0
    BY DEF NothingStuck
  <2>2. "XMT" \in ista' => ~xfull /\ left = 0
    <3> HIDE DEF left
    <3> QED BY <1>1, <2>1
  <2> QED BY <1>3, <2>2
<1>6. TypeOK'
  BY <1>1, <1>2, <1>3, <1>4, EvalIntrTyped DEF TypeOK, receive, settings
<1>7. NothingStuck'
  BY <1>1, <1>3, <1>5 DEF NothingStuck
<1>8. Consistent'
  BY <1>1, <1>3, EvalIntrTyped DEF Consistent, receive
<1> QED BY <1>6, <1>7, <1>8

LEMMA ResetInv ==
  ASSUME IInv, Reset
  PROVE  IInv'
<1> USE DEF IInv
<1>1. NoSlot \in Slot
  BY UartAssumption DEF NoSlot, Slot, Errors
<1>2. 0 \in Slots /\ 0 \in 0 .. Size /\ 0 \in 0 .. Timeout /\ 0 \in Chars /\ 1 \in Alarms
  BY UartAssumption DEF Slots
<1>3. rfifo' \in [Slots -> Slot] /\ xfifo' \in [Slots -> Chars]
  BY <1>1, <1>2 DEF Reset
<1>4. TypeOK'
  BY <1>2, <1>3 DEF Reset, TypeOK
<1>5. NothingStuck'
  BY DEF Reset, NothingStuck
<1>6. (0 + 0) % Size = 0
  BY ModSmall, UartAssumption
<1>7. Consistent'
  BY <1>6 DEF Reset, Consistent
<1> QED BY <1>4, <1>5, <1>7
-----------------------------------------------------------------------------
LEMMA NextInv == IInv /\ [Next]_vars => IInv'
<1> SUFFICES ASSUME IInv, [Next]_vars PROVE IInv'
  OBVIOUS
<1>1. CASE ReadRbuf
  BY <1>1, ReadRbufInv
<1>2. CASE \/ ReadLsta \/ AccessOther
           \/ \E e \in SUBSET Enables : WriteIe(e)
           \/ \E d \in BOOLEAN : WriteLctl(d)
  BY <1>2, AccessInv
<1>3. CASE \E c \in Chars : WriteXbuf(c)
  BY <1>3, WriteXbufInv
<1>4. CASE \E rrst \in BOOLEAN, xrst \in BOOLEAN, a \in Alarms : WriteFctl(rrst, xrst, a)
  BY <1>4, WriteFctlInv
<1>5. CASE PollNothing
  BY <1>5, PollNothingInv
<1>6. CASE Overrun
  BY <1>6, OverrunInv
<1>7. CASE \E s \in Arriving : PollChar(s)
  BY <1>7, PollCharInv
<1>8. CASE FifoSvc
  BY <1>8, FifoSvcInv
<1>9. CASE XmtSvc
  BY <1>9, XmtSvcInv
<1>10. CASE Reset
  BY <1>10, ResetInv
<1>11. CASE UNCHANGED vars
  BY <1>11 DEF IInv, TypeOK, NothingStuck, Consistent,
               vars, receive, transmit, buffer, settings, queued
<1>12. CASE XmtStall
  BY <1>11, <1>12 DEF XmtStall
<1> QED
  BY <1>1, <1>2, <1>3, <1>4, <1>5, <1>6, <1>7, <1>8, <1>9, <1>10, <1>11, <1>12
     DEF Next, Access, Events

(* Every variable of the UART has its type; the pointers stay in the       *)
(* arrays.                                                                 *)
THEOREM UartTyped == Spec => []TypeOK
<1>1. IInv => TypeOK
  BY DEF IInv
<1> QED BY <1>1, InitInv, NextInv, PTL DEF Spec

(* Whatever the events' order, a character written to the transmit buffer  *)
(* always has an event that moves it on, and the transmit interrupt is     *)
(* raised only after the last one has been sent (uart_xmt_svc,             *)
(* uart_fifo_svc and the accesses).                                        *)
THEOREM NothingStuckSound == Spec => []NothingStuck
<1>1. IInv => NothingStuck
  BY DEF IInv
<1> QED BY <1>1, InitInv, NextInv, PTL DEF Spec

(* The ring buffers' pointers differ by the counts, for any size, and no   *)
(* enabled interrupt status is without a request (uart_eval_intr is called *)
(* after every change that can raise one).                                 *)
THEOREM ConsistentSound == Spec => []Consistent
<1>1. IInv => Consistent
  BY DEF IInv
<1> QED BY <1>1, InitInv, NextInv, PTL DEF Spec
-----------------------------------------------------------------------------
(* The n slots from p on hold the characters of s after the first k.       *)
Holds(f, p, n, s, k) == \A i \in 0 .. n - 1 : f[(p + i) % Size] = s[k + (i + 1)]

(* The program has seen a character and its errors, and will take it.      *)
Taking == step = "serve" /\ "DRDY" \in status

(* What has arrived and the program has not got is in the receive FIFO,    *)
(* and the errors of the next are where the program will look for them.    *)
ReceivedKept ==
  /\ Len(got) + rcnt = Len(arrived)
  /\ Holds(rfifo, rrp, rcnt, arrived, Len(got))
  /\ Taking => rcnt > 0 /\ rfifo[rrp].err \subseteq status
  /\ rcnt > 0 /\ ~Taking => rfifo[rrp].err \subseteq lsta

(* What the program has written and has not come out is in the transmit    *)
(* FIFO, and the last of it may be in the buffer; the program writes when  *)
(* it has seen both empty.                                                 *)
SentKept ==
  /\ written \in 0 .. Len(sent)
  /\ Len(out) + xcnt + (IF xfull THEN 1 ELSE 0) = written
  /\ Holds(xfifo, xrp, xcnt, sent, Len(out))
  /\ xfull => xbuf = sent[written]
  /\ step = "serve" /\ "XEMP" \in status => xcnt = 0 /\ ~xfull

LineInv ==
  /\ sent \in Seq(Chars) /\ out \in Seq(Chars)
  /\ arrived \in Seq(Arriving) /\ got \in Seq(Slot) /\ lost \in BOOLEAN
  /\ step = "boot" => rcnt = 0 /\ xcnt = 0 /\ ~xfull
  /\ ReceivedKept /\ SentKept
  /\ lost => "OE" \in lsta

(* Different places in a ring are different slots.                         *)
LEMMA RingApart ==
  ASSUME NEW p \in Slots, NEW i \in Nat, NEW j \in Nat, i < j, j - i < Size, j <= Size
  PROVE  (p + i) % Size # (p + j) % Size
<1>1. p \in 0 .. Size - 1 /\ Size \in Nat \ {0} /\ i \in 0 .. Size /\ j \in 0 .. Size
  BY UartAssumption DEF Slots
<1>2. ASSUME NEW k \in 0 .. Size
      PROVE  (p + k) % Size = IF p + k < Size THEN p + k ELSE p + k - Size
  <2>1. CASE p + k < Size
    <3>1. p + k \in 0 .. Size - 1
      BY <1>1, <2>1
    <3>2. (p + k) % Size = p + k
      BY <1>1, <3>1, ModSmall
    <3> QED BY <2>1, <3>2
  <2>2. CASE ~(p + k < Size)
    <3>1. p + k >= Size
      BY <1>1, <2>2
    <3>2. (p + k) % Size = p + k - Size
      BY <1>1, <3>1, ModSum
    <3> QED BY <2>2, <3>2
  <2> QED BY <2>1, <2>2
<1>3. (p + i) % Size = IF p + i < Size THEN p + i ELSE p + i - Size
  BY <1>1, <1>2
<1>4. (p + j) % Size = IF p + j < Size THEN p + j ELSE p + j - Size
  BY <1>1, <1>2
<1> QED BY <1>1, <1>3, <1>4

LEMMA RingSlot ==
  ASSUME NEW p \in Slots, NEW i \in 0 .. Size
  PROVE  (p + i) % Size \in Slots
<1>1. p \in 0 .. Size - 1 /\ Size \in Nat \ {0}
  BY UartAssumption DEF Slots
<1>2. CASE p + i < Size
  BY <1>1, <1>2, ModSmall DEF Slots
<1>3. CASE p + i >= Size
  BY <1>1, <1>3, ModSum DEF Slots
<1> QED BY <1>1, <1>2, <1>3

(* The slot at the read pointer is the first.                              *)
LEMMA HoldsFirst ==
  ASSUME NEW f, NEW p \in Slots, NEW n \in 1 .. Size, NEW s, NEW k \in Nat, Holds(f, p, n, s, k)
  PROVE  f[p] = s[k + 1]
<1>1. (p + 0) % Size = p
  BY ModSmall, UartAssumption DEF Slots
<1>2. 0 \in 0 .. n - 1 /\ k + (0 + 1) = k + 1
  BY UartAssumption
<1> QED BY <1>1, <1>2 DEF Holds

(* One more, behind the last.                                              *)
LEMMA HoldsPushed ==
  ASSUME NEW S, NEW f \in [Slots -> S], NEW p \in Slots, NEW n \in 0 .. Size - 1,
         NEW s, NEW t, NEW k \in Nat, NEW e \in S,
         Holds(f, p, n, s, k), \A i \in 1 .. k + n : t[i] = s[i], t[k + (n + 1)] = e
  PROVE  Holds([f EXCEPT ![(p + n) % Size] = e], p, n + 1, t, k)
<1> DEFINE g == [f EXCEPT ![(p + n) % Size] = e]
<1>1. Size \in Nat \ {0} /\ n \in Nat /\ n < Size
  BY UartAssumption
<1>2. (p + n) % Size \in Slots
  BY <1>1, RingSlot
<1>3. ASSUME NEW i \in 0 .. n PROVE g[(p + i) % Size] = t[k + (i + 1)]
  <2>1. CASE i = n
    BY <1>2, <2>1
  <2>2. CASE i # n
    <3>1. i \in Nat /\ i < n /\ n - i < Size /\ n <= Size /\ i \in 0 .. Size /\ i \in 0 .. n - 1
      BY <1>1, <2>2
    <3>2. (p + i) % Size # (p + n) % Size /\ (p + i) % Size \in Slots
      BY <1>1, <3>1, RingApart, RingSlot
    <3>3. g[(p + i) % Size] = f[(p + i) % Size]
      BY <3>2
    <3>4. k + (i + 1) \in 1 .. k + n
      BY <3>1
    <3> QED BY <3>1, <3>3, <3>4 DEF Holds
  <2> QED BY <2>1, <2>2
<1>4. 0 .. (n + 1) - 1 = 0 .. n
  BY <1>1
<1> QED BY <1>3, <1>4 DEF Holds

(* One less, from the front, whatever happens to its slot.                 *)
LEMMA HoldsPopped ==
  ASSUME NEW S, NEW f \in [Slots -> S], NEW p \in Slots, NEW n \in 1 .. Size,
         NEW s, NEW k \in Nat, NEW e, Holds(f, p, n, s, k)
  PROVE  Holds([f EXCEPT ![p] = e], After(p), n - 1, s, k + 1)
<1> DEFINE g == [f EXCEPT ![p] = e]
<1>1. Size \in Nat \ {0} /\ n \in Nat /\ n <= Size /\ n >= 1
  BY UartAssumption
<1>2. ASSUME NEW i \in 0 .. (n - 1) - 1
      PROVE  g[(After(p) + i) % Size] = s[(k + 1) + (i + 1)]
  <2>1. i + 1 \in 1 .. Size /\ (i + 1) - 1 = i /\ i + 1 \in 0 .. n - 1 /\ i + 1 \in Nat
        /\ i + 1 < Size /\ i + 1 \in 0 .. Size
    BY <1>1
  <2>2. (After(p) + i) % Size = (p + (i + 1)) % Size
    BY <2>1, RingPop
  <2>3. (p + 0) % Size = p
    BY ModSmall, UartAssumption DEF Slots
  <2>4. (p + (i + 1)) % Size # p /\ (p + (i + 1)) % Size \in Slots
    <3>1. 0 \in Nat /\ 0 < i + 1 /\ (i + 1) - 0 < Size /\ i + 1 <= Size
      BY <2>1, <1>1
    <3>2. (p + 0) % Size # (p + (i + 1)) % Size
      BY <2>1, <3>1, RingApart
    <3> QED BY <2>1, <2>3, <3>2, RingSlot
  <2>5. g[(p + (i + 1)) % Size] = f[(p + (i + 1)) % Size]
    BY <2>4
  <2>6. f[(p + (i + 1)) % Size] = s[k + ((i + 1) + 1)]
    BY <2>1 DEF Holds
  <2>7. k + ((i + 1) + 1) = (k + 1) + (i + 1)
    BY <1>1
  <2> QED BY <2>2, <2>5, <2>6, <2>7
<1> QED BY <1>2 DEF Holds

(* What comes after in the stream makes no difference.                     *)
LEMMA HoldsLonger ==
  ASSUME NEW f, NEW p, NEW n \in Nat, NEW s, NEW t, NEW k \in Nat,
         Holds(f, p, n, s, k), \A i \in 1 .. k + n : t[i] = s[i]
  PROVE  Holds(f, p, n, t, k)
<1>1. \A i \in 0 .. n - 1 : k + (i + 1) \in 1 .. k + n
  OBVIOUS
<1> QED BY <1>1 DEF Holds
-----------------------------------------------------------------------------
(* What the steps keep of this.  The receiver: a step that does not touch  *)
(* it,                                                                     *)
LEMMA ReceivedSame ==
  ASSUME ReceivedKept, UNCHANGED <<receive, lsta, arrived, got>>,
         \/ Taking' = Taking /\ status' = status
         \/ ~Taking /\ ~Taking'
  PROVE  ReceivedKept'
<1>1. /\ rfifo' = rfifo /\ rrp' = rrp /\ rcnt' = rcnt /\ lsta' = lsta
      /\ arrived' = arrived /\ got' = got
  BY DEF receive
<1>2. Holds(rfifo, rrp, rcnt, arrived, Len(got))' = Holds(rfifo, rrp, rcnt, arrived, Len(got))
  BY <1>1 DEF Holds
<1> QED BY <1>1, <1>2 DEF ReceivedKept

(* the program's first,                                                    *)
LEMMA ReceivedBoot ==
  ASSUME IInv, LineInv, Boot
  PROVE  ReceivedKept' /\ lsta \subseteq lsta'
<1>1. /\ rcnt = 0 /\ rcnt' = 0 /\ arrived' = arrived /\ got' = got /\ ~Taking'
      /\ lsta \subseteq lsta'
  BY DEF LineInv, Boot, Goto, WriteFctl, EvalTorq, Taking
<1>2. Holds(rfifo, rrp, rcnt, arrived, Len(got))'
  BY <1>1 DEF Holds
<1> QED BY <1>1, <1>2 DEF LineInv, ReceivedKept

(* a read of the line status, which shows what is there,                   *)
LEMMA ReceivedPoll ==
  ASSUME IInv, LineInv, Poll
  PROVE  ReceivedKept' /\ (lost' => "OE" \in lsta')
<1>1. /\ rfifo' = rfifo /\ rrp' = rrp /\ rcnt' = rcnt /\ arrived' = arrived /\ got' = got
      /\ step' = "serve" /\ ~Taking /\ lsta \subseteq status' /\ status' = LineStatus
      /\ lost' = (lost /\ "OE" \notin status')
  BY DEF Poll, Goto, ReadLsta, receive, Taking, LineStatus
<1>2. rcnt \in Nat /\ "DRDY" \notin lsta
  BY UartAssumption DEF IInv, TypeOK, Errors
<1>3. "DRDY" \in status' <=> rcnt > 0
  BY <1>1, <1>2 DEF LineStatus
<1>4. Holds(rfifo, rrp, rcnt, arrived, Len(got))' = Holds(rfifo, rrp, rcnt, arrived, Len(got))
  BY <1>1 DEF Holds
<1>5. ReceivedKept'
  <2>1. Taking' <=> rcnt' > 0
    BY <1>1, <1>3 DEF Taking
  <2> QED BY <1>1, <1>4, <2>1 DEF LineInv, ReceivedKept
<1> QED BY <1>1, <1>5 DEF LineInv

(* a character taken out,                                                  *)
LEMMA ReceivedTake ==
  ASSUME IInv, LineInv, Take
  PROVE  /\ ReceivedKept' /\ lsta \subseteq lsta' /\ got' \in Seq(Slot)
         /\ Len(got) < Len(arrived)
         /\ got' = Append(got, [data |-> arrived[Len(got) + 1].data, err |-> status \cap Errors])
         /\ arrived[Len(got) + 1].err \subseteq status
<1>1. /\ Taking /\ ~Taking' /\ arrived' = arrived
      /\ got' = Append(got, [data |-> rfifo[rrp].data, err |-> status \cap Errors])
  BY DEF Take, Taking, Goto
<1>2. rcnt \in 1 .. Size /\ rrp \in Slots /\ Len(got) \in Nat /\ rfifo[rrp] \in Slot
      /\ rfifo[rrp].err \subseteq status /\ Len(got) + rcnt = Len(arrived)
      /\ rfifo \in [Slots -> Slot] /\ rcnt > 0 /\ got \in Seq(Slot)
  <2>1. Taking => rcnt > 0 /\ rfifo[rrp].err \subseteq status
    BY DEF LineInv, ReceivedKept
  <2>2. rcnt \in 0 .. Size /\ rrp \in Slots /\ rfifo \in [Slots -> Slot] /\ got \in Seq(Slot)
        /\ Len(got) + rcnt = Len(arrived)
    BY DEF IInv, TypeOK, LineInv, ReceivedKept
  <2> QED BY <1>1, <2>1, <2>2, UartAssumption
<1>3. Holds(rfifo, rrp, rcnt, arrived, Len(got))
  BY DEF LineInv, ReceivedKept
<1>4. rfifo[rrp] = arrived[Len(got) + 1]
  BY <1>2, <1>3, HoldsFirst
<1>5. /\ rfifo' = [rfifo EXCEPT ![rrp] = [rfifo[rrp] EXCEPT !.err = {}]]
      /\ rcnt' = rcnt - 1 /\ rrp' = After(rrp)
      /\ lsta \subseteq lsta' /\ rfifo'[rrp'].err \subseteq lsta'
  BY <1>2 DEF Take, ReadRbuf, EvalTorq
<1>6. Holds([rfifo EXCEPT ![rrp] = [rfifo[rrp] EXCEPT !.err = {}]], After(rrp), rcnt - 1,
            arrived, Len(got) + 1)
  BY <1>2, <1>3, HoldsPopped
<1>7. got' \in Seq(Slot) /\ Len(got') = Len(got) + 1
  <2>1. [data |-> rfifo[rrp].data, err |-> status \cap Errors] \in Slot
    BY <1>2 DEF Slot
  <2> QED BY <1>1, <1>2, <2>1, AppendProperties
<1>8. Holds(rfifo, rrp, rcnt, arrived, Len(got))'
  BY <1>1, <1>5, <1>6, <1>7
<1>9. ReceivedKept'
  BY <1>1, <1>2, <1>5, <1>7, <1>8 DEF ReceivedKept
<1> QED BY <1>1, <1>2, <1>4, <1>5, <1>7, <1>9

(* one put in,                                                             *)
LEMMA ReceivedArrive ==
  ASSUME IInv, LineInv, NEW s \in Arriving, ArriveAtUart(s)
  PROVE  ReceivedKept' /\ lsta \subseteq lsta' /\ arrived' \in Seq(Arriving)
<1>1. /\ rcnt < Size /\ rcnt' = rcnt + 1 /\ rrp' = rrp
      /\ rfifo' = [rfifo EXCEPT ![rip] = s]
      /\ lsta \subseteq lsta' /\ rfifo'[rrp'].err \subseteq lsta'
      /\ arrived' = Append(arrived, s) /\ got' = got /\ status' = status
      /\ Taking' = Taking
  BY DEF ArriveAtUart, PollChar, EvalTorq, Taking
<1>2. rcnt \in 0 .. Size - 1 /\ rrp \in Slots /\ rfifo \in [Slots -> Slot]
      /\ rip = (rrp + rcnt) % Size
      /\ arrived \in Seq(Arriving) /\ got \in Seq(Slot) /\ Len(got) + rcnt = Len(arrived)
      /\ Holds(rfifo, rrp, rcnt, arrived, Len(got))
  BY <1>1, UartAssumption DEF IInv, TypeOK, Consistent, LineInv, ReceivedKept
<1>3. /\ arrived' \in Seq(Arriving) /\ Len(arrived') = Len(arrived) + 1
      /\ \A i \in 1 .. Len(arrived) : arrived'[i] = arrived[i]
      /\ arrived'[Len(arrived) + 1] = s
  BY <1>1, <1>2, AppendProperties
<1>4. Len(got) \in Nat /\ Len(got) + (rcnt + 1) = Len(arrived) + 1
      /\ rcnt \in Nat /\ rcnt + 1 \in 1 .. Size
  BY <1>2, UartAssumption
<1>5. s \in Slot
  BY UartAssumption DEF Arriving, Slot, Errors
<1>6. Holds([rfifo EXCEPT ![(rrp + rcnt) % Size] = s], rrp, rcnt + 1, arrived', Len(got))
  <2>1. \A i \in 1 .. Len(got) + rcnt : arrived'[i] = arrived[i]
    BY <1>2, <1>3
  <2>2. arrived'[Len(got) + (rcnt + 1)] = s
    BY <1>3, <1>4
  <2> QED BY <1>2, <1>4, <1>5, <2>1, <2>2, HoldsPushed
<1>7. Holds(rfifo', rrp, rcnt + 1, arrived', Len(got))
  BY <1>1, <1>2, <1>6
<1>8. Taking => rfifo'[rrp].err \subseteq status
  <2> SUFFICES ASSUME Taking PROVE rfifo'[rrp].err \subseteq status
    OBVIOUS
  <2>1. rcnt > 0 /\ rfifo[rrp].err \subseteq status
    BY DEF LineInv, ReceivedKept
  <2>2. rcnt \in 1 .. Size
    BY <1>2, <2>1, UartAssumption
  <2>3. rfifo[rrp] = arrived[Len(got) + 1]
    BY <1>2, <1>4, <2>2, HoldsFirst
  <2>4. rfifo'[rrp] = arrived'[Len(got) + 1]
    BY <1>2, <1>4, <1>7, HoldsFirst
  <2>5. Len(got) + 1 \in 1 .. Len(arrived)
    BY <1>2, <1>4, <2>2
  <2> QED BY <1>3, <2>1, <2>3, <2>4, <2>5
<1>9. Len(got') + rcnt' = Len(arrived')
  BY <1>1, <1>3, <1>4
<1>10. Holds(rfifo, rrp, rcnt, arrived, Len(got))'
  BY <1>1, <1>7
<1>11. ReceivedKept'
  BY <1>1, <1>4, <1>8, <1>9, <1>10 DEF ReceivedKept
<1> QED BY <1>1, <1>3, <1>11

(* and one that is lost.                                                   *)
LEMMA ReceivedLose ==
  ASSUME IInv, LineInv, LoseAtUart
  PROVE  ReceivedKept' /\ "OE" \in lsta'
<1>1. /\ rfifo' = rfifo /\ rrp' = rrp /\ rcnt' = rcnt /\ arrived' = arrived /\ got' = got
      /\ status' = status /\ Taking' = Taking
      /\ "OE" \in lsta' /\ rfifo'[rrp'].err \subseteq lsta'
  BY DEF LoseAtUart, Overrun, EvalTorq, receive, Taking
<1>2. Holds(rfifo, rrp, rcnt, arrived, Len(got))' = Holds(rfifo, rrp, rcnt, arrived, Len(got))
  BY <1>1 DEF Holds
<1> QED BY <1>1, <1>2 DEF LineInv, ReceivedKept
-----------------------------------------------------------------------------
(* The transmitter: a step that does not touch it,                         *)
LEMMA SentSame ==
  ASSUME SentKept, UNCHANGED <<transmit, buffer, sent, out, written>>,
         \/ step' = step /\ status' = status
         \/ step' # "serve"
  PROVE  SentKept'
<1>1. /\ xfifo' = xfifo /\ xrp' = xrp /\ xcnt' = xcnt /\ xbuf' = xbuf /\ xfull' = xfull
      /\ sent' = sent /\ out' = out /\ written' = written
  BY DEF transmit, buffer
<1>2. Holds(xfifo, xrp, xcnt, sent, Len(out))' = Holds(xfifo, xrp, xcnt, sent, Len(out))
  BY <1>1 DEF Holds
<1> QED BY <1>1, <1>2 DEF SentKept

(* the program's first,                                                    *)
LEMMA SentBoot ==
  ASSUME IInv, LineInv, Boot
  PROVE  SentKept'
<1>1. /\ xcnt = 0 /\ xcnt' = 0 /\ xbuf' = xbuf /\ xfull' = xfull
      /\ sent' = sent /\ out' = out /\ written' = written /\ step' # "serve"
  BY DEF LineInv, Boot, Goto, WriteFctl, buffer
<1>2. Holds(xfifo, xrp, xcnt, sent, Len(out))'
  BY <1>1 DEF Holds
<1> QED BY <1>1, <1>2 DEF LineInv, SentKept

(* a read of the line status,                                              *)
LEMMA SentPoll ==
  ASSUME IInv, LineInv, Poll
  PROVE  SentKept'
<1>1. /\ xfifo' = xfifo /\ xrp' = xrp /\ xcnt' = xcnt /\ xbuf' = xbuf /\ xfull' = xfull
      /\ sent' = sent /\ out' = out /\ written' = written /\ status' = LineStatus
  BY DEF Poll, ReadLsta, transmit, buffer
<1>2. "XEMP" \notin lsta
  BY DEF IInv, TypeOK, Errors
<1>3. "XEMP" \in status' => xcnt = 0 /\ ~xfull
  BY <1>1, <1>2 DEF LineStatus
<1>4. Holds(xfifo, xrp, xcnt, sent, Len(out))' = Holds(xfifo, xrp, xcnt, sent, Len(out))
  BY <1>1 DEF Holds
<1> QED BY <1>1, <1>3, <1>4 DEF LineInv, SentKept

(* a character written,                                                    *)
LEMMA SentPut ==
  ASSUME IInv, LineInv, Put
  PROVE  SentKept' /\ sent[written + 1] \in Chars
<1>1. /\ xfifo' = xfifo /\ xrp' = xrp /\ xcnt' = xcnt
      /\ xbuf' = sent[written + 1] /\ xfull' = TRUE
      /\ sent' = sent /\ out' = out /\ written' = written + 1 /\ step' # "serve"
      /\ written < Len(sent) /\ xcnt = 0 /\ ~xfull
  BY DEF Put, WriteXbuf, transmit, Goto, ToSend, LineInv, SentKept
<1>2. written \in 0 .. Len(sent) /\ sent \in Seq(Chars) /\ Len(sent) \in Nat
      /\ out \in Seq(Chars) /\ Len(out) \in Nat
      /\ Len(out) + xcnt + (IF xfull THEN 1 ELSE 0) = written
  BY DEF LineInv, SentKept
<1>3. written + 1 \in 1 .. Len(sent)
  BY <1>1, <1>2
<1>4. Len(out) + xcnt + (IF xfull' THEN 1 ELSE 0) = written + 1
  BY <1>1, <1>2
<1>5. Holds(xfifo, xrp, xcnt, sent, Len(out))'
  BY <1>1 DEF Holds
<1>6. SentKept'
  BY <1>1, <1>2, <1>3, <1>4, <1>5 DEF SentKept
<1> QED BY <1>2, <1>3, <1>6

(* one more to send,                                                       *)
LEMMA SentSubmit ==
  ASSUME IInv, LineInv, NEW c \in Chars, Submit(c)
  PROVE  SentKept' /\ sent' \in Seq(Chars)
<1>1. /\ xfifo' = xfifo /\ xrp' = xrp /\ xcnt' = xcnt /\ xbuf' = xbuf /\ xfull' = xfull
      /\ sent' = Append(sent, c) /\ out' = out /\ written' = written
      /\ step' = step /\ status' = status
  BY DEF Submit, vars, transmit, buffer
<1>2. /\ sent \in Seq(Chars) /\ written \in 0 .. Len(sent) /\ Len(sent) \in Nat
      /\ out \in Seq(Chars) /\ Len(out) \in Nat /\ xcnt \in Nat /\ xfull \in BOOLEAN
      /\ Len(out) + xcnt + (IF xfull THEN 1 ELSE 0) = written
      /\ Holds(xfifo, xrp, xcnt, sent, Len(out))
  BY UartAssumption DEF IInv, TypeOK, LineInv, SentKept
<1>3. /\ sent' \in Seq(Chars) /\ Len(sent') = Len(sent) + 1
      /\ \A i \in 1 .. Len(sent) : sent'[i] = sent[i]
  BY <1>1, <1>2, AppendProperties
<1>4. Holds(xfifo, xrp, xcnt, sent', Len(out))
  <2>1. \A i \in 1 .. Len(out) + xcnt : sent'[i] = sent[i]
    BY <1>2, <1>3
  <2> QED BY <1>2, <2>1, HoldsLonger
<1>5. xfull => sent'[written] = sent[written]
  <2>1. xfull => written \in 1 .. Len(sent)
    BY <1>2
  <2> QED BY <1>3, <2>1
<1>6. written \in 0 .. Len(sent')
  BY <1>2, <1>3
<1>7. Holds(xfifo, xrp, xcnt, sent, Len(out))'
  BY <1>1, <1>4
<1>8. SentKept'
  BY <1>1, <1>2, <1>5, <1>6, <1>7 DEF LineInv, SentKept
<1> QED BY <1>3, <1>8

(* the character in the buffer put into the FIFO, from whose r on there    *)
(* are n after the first k,                                                *)
LEMMA SentInsert ==
  ASSUME IInv, LineInv, Insert, xfull, UNCHANGED <<sent, written>>,
         NEW r \in Slots, NEW n \in 0 .. Size - 1, NEW k \in Nat,
         xip = (r + n) % Size, Holds(xfifo, r, n, sent, k), k + (n + 1) = written
  PROVE  Holds(xfifo', r, n + 1, sent', k)
<1>1. xfifo' = [xfifo EXCEPT ![(r + n) % Size] = xbuf] /\ sent' = sent
  BY DEF Insert
<1>2. xfifo \in [Slots -> Chars] /\ xbuf \in Chars /\ sent[k + (n + 1)] = xbuf
  BY DEF IInv, TypeOK, LineInv, SentKept
<1>3. Holds([xfifo EXCEPT ![(r + n) % Size] = xbuf], r, n + 1, sent, k)
  BY <1>2, HoldsPushed
<1> QED BY <1>1, <1>3

(* by its own event,                                                       *)
LEMMA SentFifo ==
  ASSUME IInv, LineInv, FifoSvc, UNCHANGED driver
  PROVE  SentKept'
<1>1. /\ xrp' = xrp /\ sent' = sent /\ out' = out /\ written' = written
      /\ step' = step /\ status' = status
  BY DEF FifoSvc, driver
<1>2. CASE CanInsert(xcnt)
  <2>1. Insert /\ xcnt' = xcnt + 1 /\ xfull /\ xfull' = FALSE /\ xcnt < Size
    BY <1>2 DEF FifoSvc, CanInsert, Insert
  <2>2. /\ xrp \in Slots /\ xcnt \in 0 .. Size - 1 /\ xip = (xrp + xcnt) % Size
        /\ out \in Seq(Chars) /\ Len(out) \in Nat /\ xcnt \in Nat
        /\ Len(out) + xcnt + (IF xfull THEN 1 ELSE 0) = written
        /\ Holds(xfifo, xrp, xcnt, sent, Len(out))
    BY <2>1, UartAssumption DEF IInv, TypeOK, Consistent, LineInv, SentKept
  <2>3. Len(out) + (xcnt + 1) = written
    BY <2>1, <2>2
  <2>4. Holds(xfifo', xrp, xcnt + 1, sent', Len(out))
    BY <1>1, <2>1, <2>2, <2>3, SentInsert
  <2>5. Holds(xfifo, xrp, xcnt, sent, Len(out))'
    BY <1>1, <2>1, <2>4
  <2>6. Len(out) + (xcnt + 1) + (IF xfull' THEN 1 ELSE 0) = written
    BY <2>1, <2>2, <2>3
  <2> QED BY <1>1, <2>1, <2>5, <2>6 DEF LineInv, SentKept
<1>3. CASE ~CanInsert(xcnt)
  <2>1. UNCHANGED <<transmit, buffer, sent, out, written>>
    BY <1>1, <1>3 DEF FifoSvc, transmit
  <2> QED BY <1>1, <2>1, SentSame DEF LineInv
<1> QED BY <1>2, <1>3

(* and one sent, with the next put into the FIFO after it.                 *)
LEMMA SentPutOut ==
  ASSUME IInv, LineInv, PutOut
  PROVE  /\ SentKept' /\ out' \in Seq(Chars)
         /\ \/ out' = out
            \/ Len(out) < Len(sent) /\ out' = Append(out, sent[Len(out) + 1])
<1> DEFINE left == IF xcnt > 0 THEN xcnt - 1 ELSE 0
<1>1. /\ xrp' = (IF xcnt > 0 THEN After(xrp) ELSE xrp)
      /\ out' = (IF xcnt > 0 THEN Append(out, xfifo[xrp]) ELSE out)
      /\ sent' = sent /\ written' = written /\ step' = step /\ status' = status
      /\ IF CanInsert(left)
         THEN Insert /\ xcnt' = left + 1
         ELSE UNCHANGED <<xfifo, xip, buffer>> /\ xcnt' = left
  BY DEF PutOut, XmtSvc
<1>2. /\ xrp \in Slots /\ xcnt \in 0 .. Size /\ xip = (xrp + xcnt) % Size
      /\ out \in Seq(Chars) /\ Len(out) \in Nat /\ xfifo \in [Slots -> Chars]
      /\ xfull \in BOOLEAN /\ sent \in Seq(Chars) /\ written \in 0 .. Len(sent)
      /\ Len(out) + xcnt + (IF xfull THEN 1 ELSE 0) = written
      /\ Holds(xfifo, xrp, xcnt, sent, Len(out))
  BY DEF IInv, TypeOK, Consistent, LineInv, SentKept
<1>3. /\ xrp' \in Slots /\ left \in 0 .. Size - 1 /\ xip = (xrp' + left) % Size
      /\ out' \in Seq(Chars) /\ Len(out') \in Nat
      /\ Len(out') + left + (IF xfull THEN 1 ELSE 0) = written
      /\ Holds(xfifo, xrp', left, sent, Len(out'))
      /\ \/ out' = out
         \/ Len(out) < Len(sent) /\ out' = Append(out, sent[Len(out) + 1])
      /\ xcnt = 0 => left = 0
  <2>1. CASE xcnt > 0
    <3>1. /\ xcnt \in 1 .. Size /\ xrp' = After(xrp) /\ left = xcnt - 1
          /\ out' = Append(out, xfifo[xrp]) /\ xfifo[xrp] \in Chars
      BY <1>1, <1>2, <2>1, UartAssumption
    <3>2. xip = (xrp' + left) % Size
      BY <1>2, <3>1, RingPop
    <3>3. xfifo[xrp] = sent[Len(out) + 1]
      BY <1>2, <3>1, HoldsFirst
    <3>4. out' \in Seq(Chars) /\ Len(out') = Len(out) + 1
      BY <1>2, <3>1, AppendProperties
    <3>5. Holds([xfifo EXCEPT ![xrp] = xfifo[xrp]], After(xrp), xcnt - 1, sent, Len(out) + 1)
      BY <1>2, <3>1, HoldsPopped
    <3>6. [xfifo EXCEPT ![xrp] = xfifo[xrp]] = xfifo
      BY <1>2
    <3>7. Holds(xfifo, xrp', left, sent, Len(out'))
      BY <3>1, <3>4, <3>5, <3>6
    <3>8. Len(out) < Len(sent)
      BY <1>2, <3>1
    <3>9. xrp' \in Slots /\ left \in 0 .. Size - 1
          /\ Len(out') + left + (IF xfull THEN 1 ELSE 0) = written
      <4>1. left + 1 = xcnt /\ left \in 0 .. Size - 1
        BY <1>2, <3>1, UartAssumption
      <4> HIDE DEF left
      <4>2. Len(out') + left = Len(out) + xcnt
        <5>1. Len(out) \in Nat /\ Len(out') = Len(out) + 1
          BY <1>2, <3>4
        <5> QED BY <4>1, <5>1
      <4> QED BY <1>2, <3>1, <4>1, <4>2, AfterIs
    <3>10. out' = Append(out, sent[Len(out) + 1]) /\ xcnt # 0
      BY <3>1, <3>3
    <3> HIDE DEF left
    <3>11. xcnt = 0 => left = 0
      BY <3>10
    <3>12. Len(out') \in Nat
      BY <3>4, LenProperties
    <3> QED BY <3>2, <3>4, <3>7, <3>8, <3>9, <3>10, <3>11, <3>12, Zenon
  <2>2. CASE ~(xcnt > 0)
    <3>1. xcnt = 0 /\ left = 0 /\ xrp' = xrp /\ out' = out
      BY <1>1, <1>2, <2>2, UartAssumption
    <3> QED BY <1>2, <3>1, UartAssumption
  <2> QED BY <2>1, <2>2
<1> HIDE DEF left
<1>4. CASE CanInsert(left)
  <2>1. Insert /\ xcnt' = left + 1 /\ xfull /\ xfull' = FALSE
    BY <1>1, <1>4 DEF CanInsert, Insert
  <2>2. Len(out') + (left + 1) = written
    BY <1>3, <2>1
  <2>3. Holds(xfifo', xrp', left + 1, sent', Len(out'))
    BY <1>1, <1>3, <2>1, <2>2, SentInsert
  <2>4. Holds(xfifo, xrp, xcnt, sent, Len(out))'
    BY <2>1, <2>3
  <2>5. Len(out') + (left + 1) + (IF xfull' THEN 1 ELSE 0) = written
    BY <1>3, <2>1, <2>2
  <2>6. ~(step = "serve" /\ "XEMP" \in status)
    BY <2>1 DEF LineInv, SentKept
  <2>7. SentKept'
    BY <1>1, <1>2, <2>1, <2>4, <2>5, <2>6 DEF SentKept
  <2> QED BY <1>3, <2>7
<1>5. CASE ~CanInsert(left)
  <2>1. xfifo' = xfifo /\ xbuf' = xbuf /\ xfull' = xfull /\ xcnt' = left
    BY <1>1, <1>5 DEF buffer
  <2>2. Holds(xfifo, xrp, xcnt, sent, Len(out))'
    BY <1>1, <1>3, <2>1
  <2>3. SentKept'
    BY <1>1, <1>2, <1>3, <2>1, <2>2 DEF LineInv, SentKept
  <2> QED BY <1>3, <2>3
<1> QED BY <1>4, <1>5
-----------------------------------------------------------------------------
(* A step of the program, the line or the console is one of the UART, so   *)
(* that the UART's own invariant holds of it.                              *)
LEMMA DriverSteps ==
  ASSUME IInv, LineInv, [NextDriver]_allVars
  PROVE  [Next]_vars
<1>1. CASE Boot
  BY <1>1, DriverAssumption DEF Boot, Next, Access
<1>2. CASE Enable \/ StartSend \/ StopSend
  <2>1. \E e \in SUBSET Enables : WriteIe(e)
    BY <1>2 DEF Enable, StartSend, StopSend
  <2> QED BY <2>1 DEF Next, Access
<1>3. CASE Wake \/ Rest \/ (\E c \in Chars : Submit(c)) \/ UNCHANGED allVars
  BY <1>3 DEF Wake, Rest, Submit, allVars
<1>4. CASE Poll \/ Take
  BY <1>4 DEF Poll, Take, Next, Access
<1>5. CASE Put
  <2>1. sent[written + 1] \in Chars
    BY <1>5, SentPut
  <2> QED BY <1>5, <2>1 DEF Put, Next, Access
<1>6. CASE \E s \in Arriving : ArriveAtUart(s)
  BY <1>6 DEF ArriveAtUart, Next, Events
<1>7. CASE LoseAtUart \/ PutOut \/ Queue
  BY <1>7 DEF LoseAtUart, PutOut, Queue, Next, Events
<1> QED BY <1>1, <1>2, <1>3, <1>4, <1>5, <1>6, <1>7 DEF NextDriver, Program

LEMMA LineInit ==
  ASSUME InitDriver
  PROVE  LineInv
<1>1. /\ rcnt = 0 /\ xcnt = 0 /\ xfull = FALSE /\ step = "boot" /\ written = 0
      /\ sent = <<>> /\ out = <<>> /\ arrived = <<>> /\ got = <<>> /\ lost = FALSE
  BY DEF InitDriver, Init
<1>2. Holds(rfifo, rrp, rcnt, arrived, Len(got)) /\ Holds(xfifo, xrp, xcnt, sent, Len(out))
  BY <1>1 DEF Holds
<1>3. /\ sent \in Seq(Chars) /\ out \in Seq(Chars)
      /\ arrived \in Seq(Arriving) /\ got \in Seq(Slot)
      /\ Len(sent) = 0 /\ Len(out) = 0 /\ Len(arrived) = 0 /\ Len(got) = 0
  BY <1>1
<1>4. ReceivedKept
  BY <1>1, <1>2, <1>3 DEF ReceivedKept, Taking
<1>5. SentKept
  BY <1>1, <1>2, <1>3 DEF SentKept
<1> QED BY <1>1, <1>3, <1>4, <1>5 DEF LineInv

(* What a step that is none of these leaves alone.                         *)
LEMMA LineQuiet ==
  ASSUME IInv, LineInv,
         UNCHANGED <<receive, lsta, transmit, buffer, sent, out, written, arrived, got, lost>>,
         \/ Taking' = Taking /\ status' = status /\ step' = step
         \/ ~Taking /\ ~Taking' /\ step' \notin {"serve", "boot"}
  PROVE  LineInv'
<1>1. ReceivedKept'
  BY ReceivedSame DEF LineInv
<1>2. SentKept'
  BY SentSame DEF LineInv
<1> QED BY <1>1, <1>2 DEF LineInv, receive, transmit, buffer

LEMMA LineStep ==
  ASSUME IInv, LineInv, [NextDriver]_allVars
  PROVE  LineInv'
<1>1. CASE Boot
  <2>1. ReceivedKept' /\ lsta \subseteq lsta' /\ SentKept'
    BY <1>1, ReceivedBoot, SentBoot
  <2> QED BY <1>1, <2>1 DEF Boot, Goto, LineInv
<1>2. CASE Enable \/ StartSend \/ StopSend \/ Wake \/ Rest
  <2>1. /\ UNCHANGED <<receive, lsta, transmit, buffer, sent, out, written, arrived, got, lost>>
        /\ ~Taking /\ ~Taking' /\ step' \notin {"serve", "boot"}
    BY <1>2 DEF Enable, StartSend, StopSend, Wake, Rest, WriteIe, Goto, Taking, vars
  <2> QED BY <2>1, LineQuiet
<1>3. CASE Poll
  <2>1. ReceivedKept' /\ SentKept' /\ (lost' => "OE" \in lsta')
    BY <1>3, ReceivedPoll, SentPoll
  <2>2. /\ UNCHANGED <<sent, out, arrived, got>> /\ lost' \in BOOLEAN /\ step' # "boot"
    BY <1>3 DEF Poll, Goto, LineInv
  <2> QED BY <2>1, <2>2 DEF LineInv
<1>4. CASE Take
  <2>1. ReceivedKept' /\ lsta \subseteq lsta' /\ got' \in Seq(Slot)
    BY <1>4, ReceivedTake
  <2>2. /\ UNCHANGED <<transmit, buffer, sent, out, written, arrived, lost>>
        /\ step' = "poll"
    BY <1>4 DEF Take, ReadRbuf, Goto
  <2>3. SentKept'
    BY <2>2, SentSame DEF LineInv
  <2> QED BY <2>1, <2>2, <2>3 DEF LineInv
<1>5. CASE Put
  <2>1. SentKept'
    BY <1>5, SentPut
  <2>2. /\ UNCHANGED <<receive, lsta, sent, out, arrived, got, lost>> /\ step' = "poll"
        /\ ~Taking /\ ~Taking'
    BY <1>5 DEF Put, WriteXbuf, Goto, Taking
  <2>3. ReceivedKept'
    BY <2>2, ReceivedSame DEF LineInv
  <2> QED BY <2>1, <2>2, <2>3 DEF LineInv
<1>6. CASE \E c \in Chars : Submit(c)
  <2> PICK c \in Chars : Submit(c)
    BY <1>6
  <2>1. SentKept' /\ sent' \in Seq(Chars)
    BY SentSubmit
  <2>2. /\ UNCHANGED <<receive, lsta, transmit, buffer, out, arrived, got, lost, step, status>>
    BY DEF Submit, vars
  <2>3. ReceivedKept'
    BY <2>2, ReceivedSame DEF LineInv, Taking
  <2> QED BY <2>1, <2>2, <2>3 DEF LineInv, receive, transmit, buffer
<1>7. CASE \E s \in Arriving : ArriveAtUart(s)
  <2> PICK s \in Arriving : ArriveAtUart(s)
    BY <1>7
  <2>1. ReceivedKept' /\ lsta \subseteq lsta' /\ arrived' \in Seq(Arriving)
    BY ReceivedArrive
  <2>2. /\ UNCHANGED <<transmit, buffer, sent, out, written, got, lost, step, status>>
        /\ step # "boot"
    BY DEF ArriveAtUart, PollChar
  <2>3. SentKept'
    BY <2>2, SentSame DEF LineInv
  <2> QED BY <2>1, <2>2, <2>3 DEF LineInv
<1>8. CASE LoseAtUart
  <2>1. ReceivedKept' /\ "OE" \in lsta'
    BY <1>8, ReceivedLose
  <2>2. /\ UNCHANGED <<receive, transmit, buffer, sent, out, written, arrived, got, step, status>>
        /\ lost' = TRUE
    BY <1>8 DEF LoseAtUart, Overrun
  <2>3. SentKept'
    BY <2>2, SentSame DEF LineInv
  <2> QED BY <2>1, <2>2, <2>3 DEF LineInv, receive, transmit, buffer
<1>9. CASE PutOut
  <2>1. SentKept' /\ out' \in Seq(Chars)
    BY <1>9, SentPutOut
  <2>2. UNCHANGED <<receive, lsta, sent, arrived, got, lost, step, status>>
    BY <1>9 DEF PutOut, XmtSvc
  <2>3. ReceivedKept'
    BY <2>2, ReceivedSame DEF LineInv, Taking
  <2>4. step = "boot" => xcnt' = 0 /\ ~xfull'
    BY <1>9 DEF PutOut, XmtSvc, CanInsert, buffer, LineInv
  <2> QED BY <2>1, <2>2, <2>3, <2>4 DEF LineInv, receive
<1>10. CASE FifoSvc /\ UNCHANGED driver
  <2>1. SentKept'
    BY <1>10, SentFifo
  <2>2. UNCHANGED <<receive, lsta, sent, out, arrived, got, lost, step, status>>
    BY <1>10 DEF FifoSvc, driver
  <2>3. ReceivedKept'
    BY <2>2, ReceivedSame DEF LineInv, Taking
  <2>4. step = "boot" => xcnt' = 0 /\ ~xfull'
    BY <1>10 DEF FifoSvc, CanInsert, buffer, LineInv
  <2> QED BY <2>1, <2>2, <2>3, <2>4 DEF LineInv, receive
<1>11. CASE ((XmtStall \/ PollNothing) /\ UNCHANGED driver) \/ UNCHANGED allVars
  <2>1. /\ UNCHANGED <<receive, lsta, transmit, buffer>> /\ UNCHANGED driver
    BY <1>11 DEF XmtStall, PollNothing, allVars, vars
  <2>2. /\ UNCHANGED <<receive, lsta, transmit, buffer, sent, out, written, arrived, got, lost>>
        /\ Taking' = Taking /\ status' = status /\ step' = step
    BY <2>1 DEF driver, Taking
  <2> QED BY <2>2, LineQuiet
<1> QED BY <1>1, <1>2, <1>3, <1>4, <1>5, <1>6, <1>7, <1>8, <1>9, <1>10, <1>11
       DEF NextDriver, Program, Queue
-----------------------------------------------------------------------------
LEMMA LineRefined ==
  ASSUME IInv, LineInv, [NextDriver]_allVars
  PROVE  [Line!Next]_(Line!vars)
<1>1. CASE \/ Boot \/ Enable \/ Wake \/ StartSend \/ Put \/ StopSend \/ Rest \/ Queue
           \/ UNCHANGED allVars
  BY <1>1 DEF Boot, Enable, Wake, StartSend, Put, StopSend, Rest, Queue, driver, allVars, Line!vars
<1>2. CASE Poll
  <2>1. UNCHANGED <<sent, out, arrived, got>> /\ lost' = (lost /\ "OE" \notin status')
    BY <1>2 DEF Poll
  <2> QED BY <2>1 DEF LineInv, Line!Next, Line!Tell, Line!vars
<1>3. CASE Take
  <2>1. /\ Len(got) < Len(arrived)
        /\ got' = Append(got, [data |-> arrived[Len(got) + 1].data, err |-> status \cap Errors])
        /\ arrived[Len(got) + 1].err \subseteq status
    BY <1>3, ReceivedTake
  <2>2. arrived[Len(got) + 1] \in Slot
    <3>1. Len(got) + 1 \in 1 .. Len(arrived) /\ arrived \in Seq(Arriving)
      BY <2>1 DEF LineInv
    <3>2. arrived[Len(got) + 1] \in Arriving
      BY <3>1
    <3> QED BY <3>2, UartAssumption DEF Arriving, Slot, Errors
  <2>3. [data |-> arrived[Len(got) + 1].data, err |-> status \cap Errors]
        = [arrived[Len(got) + 1] EXCEPT !.err = @ \cup (status \cap Errors)]
    <3>1. ASSUME NEW s \in Slot, s.err \subseteq status
          PROVE  [data |-> s.data, err |-> status \cap Errors]
                 = [s EXCEPT !.err = @ \cup (status \cap Errors)]
      <4>1. s.err \cup (status \cap Errors) = status \cap Errors
        BY <3>1 DEF Slot
      <4> QED BY <4>1 DEF Slot
    <3> QED BY <2>1, <2>2, <3>1
  <2>4. UNCHANGED <<sent, out, arrived, lost>>
    BY <1>3 DEF Take
  <2>5. status \cap Errors \in SUBSET Errors
    OBVIOUS
  <2> QED BY <2>1, <2>3, <2>4, <2>5 DEF Line!Next, Line!Get
<1>4. CASE \E c \in Chars : Submit(c)
  BY <1>4 DEF Submit, Line!Next, Line!Send
<1>5. CASE \E s \in Arriving : ArriveAtUart(s)
  BY <1>5 DEF ArriveAtUart, Line!Next, Line!Arrive
<1>6. CASE LoseAtUart
  BY <1>6 DEF LoseAtUart, Line!Next, Line!Lose
<1>7. CASE PutOut
  <2>1. \/ out' = out
        \/ Len(out) < Len(sent) /\ out' = Append(out, sent[Len(out) + 1])
    BY <1>7, SentPutOut
  <2>2. UNCHANGED <<sent, arrived, got, lost>>
    BY <1>7 DEF PutOut
  <2> QED BY <2>1, <2>2 DEF Line!Next, Line!Emit, Line!vars
<1> QED BY <1>1, <1>2, <1>3, <1>4, <1>5, <1>6, <1>7 DEF NextDriver, Program

(* Two streams of characters in order, each once, each received with its   *)
(* errors, and no character lost without word of it, whatever the order of *)
(* the accesses and the events: the safety part of ImplementsSerialLine.   *)
THEOREM SerialLineImplemented == SpecDriver => Line!Init /\ [][Line!Next]_(Line!vars)
<1>1. InitDriver => IInv /\ LineInv /\ Line!Init
  BY InitInv, LineInit DEF InitDriver, Line!Init
<1>2. IInv /\ LineInv /\ [NextDriver]_allVars => IInv' /\ LineInv'
  BY DriverSteps, NextInv, LineStep
<1>3. IInv /\ LineInv /\ [NextDriver]_allVars => [Line!Next]_(Line!vars)
  BY LineRefined
<1> QED BY <1>1, <1>2, <1>3, PTL DEF SpecDriver
-----------------------------------------------------------------------------
(* A program that rests until it is interrupted: when there is a character *)
(* for it, when one was lost and when it could send one, the interrupt is  *)
(* requested or an event or the timer is under way that requests it.       *)
NoLostWakeup ==
  step = "idle" =>
    /\ rcnt > 0 => request \/ tmo > 0
    /\ lost => request
    /\ ToSend => request \/ "XMT" \notin ie \/ xmtEvent \/ fifoEvent

(* The program has seen an empty receive FIFO and waits, or is about to.   *)
Seen == step = "serve" /\ "DRDY" \notin status
Waiting == step = "idle" \/ Seen
Resting == step = "idle" \/ (Seen /\ "XEMP" \notin status)

(* What raises the interrupt has not been cleared since.                   *)
ReceiveWakes == Waiting /\ rcnt > 0 => tmo > 0 \/ "RCV" \in ista \/ "TMO" \in ista
SendWakes == Resting => "XMT" \notin ie \/ "XMT" \in ista \/ xcnt > 0 \/ xfull

WakeInv ==
  /\ step \notin {"boot", "enable"} => {"RCV", "RSTA", "TMO"} \subseteq ie
  /\ lost => "RSTA" \in ista
  /\ ReceiveWakes /\ SendWakes

(* The accesses of the program, of which only the one of the line status   *)
(* lets it go on to wait,                                                  *)
LEMMA WakeAccess ==
  ASSUME IInv, LineInv, WakeInv, Boot \/ Enable \/ StartSend \/ Take \/ Put \/ Wake
  PROVE  WakeInv'
<1>1. ~Waiting' /\ ~Resting'
  BY DEF Boot, Enable, StartSend, Take, Put, Wake, Goto, Waiting, Resting, Seen
<1>2. step' \notin {"boot", "enable"} => {"RCV", "RSTA", "TMO"} \subseteq ie'
  <2>1. CASE Boot
    BY <2>1 DEF Boot, Goto
  <2>2. CASE Enable \/ StartSend
    BY <2>2 DEF Enable, StartSend, WriteIe, Enables
  <2>3. CASE Take \/ Put \/ Wake
    <3>1. ie' = ie /\ step \notin {"boot", "enable"}
      BY <2>3 DEF Take, Put, Wake, ReadRbuf, WriteXbuf, settings, vars
    <3> QED BY <3>1 DEF WakeInv
  <2> QED BY <2>1, <2>2, <2>3
<1>3. lost' => "RSTA" \in ista'
  <2>1. lost' = lost
    BY DEF Boot, Enable, StartSend, Take, Put, Wake
  <2>2. "RSTA" \in ista => "RSTA" \in ista'
    <3>1. CASE Boot
      BY <3>1 DEF Boot, WriteFctl, EvalTorq
    <3>2. CASE Enable \/ StartSend \/ Wake
      BY <3>2 DEF Enable, StartSend, Wake, WriteIe, vars
    <3>3. CASE Take
      BY <3>3 DEF Take, ReadRbuf, EvalTorq
    <3>4. CASE Put
      BY <3>4 DEF Put, WriteXbuf
    <3> QED BY <3>1, <3>2, <3>3, <3>4
  <2> QED BY <2>1, <2>2 DEF WakeInv
<1> QED BY <1>1, <1>2, <1>3 DEF WakeInv, ReceiveWakes, SendWakes

LEMMA WakePoll ==
  ASSUME IInv, LineInv, WakeInv, Poll
  PROVE  WakeInv'
<1>1. /\ rcnt' = rcnt /\ xcnt' = xcnt /\ xfull' = xfull /\ ie' = ie
      /\ status' = LineStatus /\ step = "poll" /\ step' = "serve"
      /\ lost' = (lost /\ "OE" \notin status')
  BY DEF Poll, ReadLsta, Goto, receive, transmit, buffer, settings
<1>2. ~lost'
  BY <1>1 DEF LineInv, LineStatus
<1>3. rcnt' > 0 => "DRDY" \in status'
  BY <1>1 DEF LineStatus
<1>4. xcnt \in Nat /\ ("XEMP" \notin status' => xcnt > 0 \/ xfull)
  BY <1>1, UartAssumption DEF LineStatus, IInv, TypeOK
<1>5. ReceiveWakes'
  BY <1>1, <1>3 DEF ReceiveWakes, Waiting, Seen
<1>6. SendWakes'
  BY <1>1, <1>4 DEF SendWakes, Resting, Seen
<1> QED BY <1>1, <1>2, <1>5, <1>6 DEF WakeInv

(* the two by which it does,                                               *)
LEMMA WakeRest ==
  ASSUME IInv, LineInv, WakeInv, StopSend \/ Rest
  PROVE  WakeInv'
<1>1. /\ rcnt' = rcnt /\ xcnt' = xcnt /\ xfull' = xfull /\ tmo' = tmo /\ ista' = ista
      /\ lost' = lost /\ step' = "idle" /\ Seen
  BY DEF StopSend, Rest, WriteIe, Goto, Seen, vars, receive, transmit, buffer
<1>2. (ie' = ie /\ Resting) \/ ie' = (Enables \ {"XMT"}) \cup {"TMO"}
  <2>1. CASE StopSend
    BY <2>1 DEF StopSend, WriteIe, Enables
  <2>2. CASE Rest
    BY <1>1, <2>2 DEF Rest, vars, settings, Resting
  <2> QED BY <2>1, <2>2
<1>3. {"RCV", "RSTA", "TMO"} \subseteq ie'
  <2>1. step = "serve"
    BY <1>1 DEF Seen
  <2> QED BY <1>2, <2>1 DEF WakeInv, Enables
<1>4. ReceiveWakes'
  BY <1>1 DEF WakeInv, ReceiveWakes, Waiting
<1>5. SendWakes'
  BY <1>1, <1>2 DEF WakeInv, SendWakes, Enables
<1> QED BY <1>1, <1>3, <1>4, <1>5 DEF WakeInv

(* and what happens without it.                                            *)
LEMMA WakeEvent ==
  ASSUME IInv, LineInv, WakeInv, UNCHANGED <<step, status>>, ie' = ie,
         \/ LoseAtUart \/ PutOut \/ Queue \/ UNCHANGED allVars
         \/ \E c \in Chars : Submit(c)
         \/ \E s \in Arriving : ArriveAtUart(s)
  PROVE  WakeInv'
<1>1. (Waiting' <=> Waiting) /\ (Resting' <=> Resting)
  BY DEF Waiting, Resting, Seen
<1>2. CASE (\E c \in Chars : Submit(c)) \/ UNCHANGED allVars
  <2>1. UNCHANGED <<vars, lost>>
    BY <1>2 DEF Submit, allVars, driver
  <2> QED BY <1>1, <2>1 DEF WakeInv, ReceiveWakes, SendWakes, vars, receive, transmit, buffer
<1>3. CASE \E s \in Arriving : ArriveAtUart(s)
  <2> PICK s \in Arriving : ArriveAtUart(s)
    BY <1>3
  <2>1. /\ ista \subseteq ista' /\ lost' = lost /\ xcnt' = xcnt /\ xfull' = xfull
        /\ "RCV" \in ista' \/ tmo' = Timeout
    BY DEF ArriveAtUart, PollChar, EvalTorq, transmit, buffer
  <2> QED BY <1>1, <2>1, DriverAssumption DEF WakeInv, ReceiveWakes, SendWakes
<1>4. CASE LoseAtUart
  <2>1. /\ ista \subseteq ista' /\ "RSTA" \in ista' /\ UNCHANGED <<rcnt, tmo, xcnt, xfull>>
    BY <1>4 DEF LoseAtUart, Overrun, EvalTorq, receive, transmit, buffer
  <2> QED BY <1>1, <2>1 DEF WakeInv, ReceiveWakes, SendWakes
<1>5. CASE PutOut
  <2>1. /\ ista \subseteq ista' /\ UNCHANGED <<rcnt, tmo, lost>>
    BY <1>5 DEF PutOut, XmtSvc, receive
  <2>2. xcnt > 0 \/ xfull => "XMT" \in ista' \/ xcnt' > 0 \/ xfull'
    <3> DEFINE left == IF xcnt > 0 THEN xcnt - 1 ELSE 0
    <3>1. /\ IF CanInsert(left) THEN xcnt' = left + 1 ELSE xcnt' = left /\ xfull' = xfull
          /\ ista' = ista \cup {s \in {"XMT"} : ~xfull /\ left = 0}
      BY <1>5 DEF PutOut, XmtSvc, buffer
    <3>2. left \in Nat
      BY DEF IInv, TypeOK
    <3> HIDE DEF left
    <3>3. left + 1 > 0 /\ (left = 0 \/ left > 0)
      BY <3>2
    <3> QED BY <3>1, <3>3 DEF CanInsert
  <2> QED BY <1>1, <2>1, <2>2 DEF WakeInv, ReceiveWakes, SendWakes
<1>6. CASE Queue
  <2>1. CASE FifoSvc
    <3>1. UNCHANGED <<rcnt, tmo, ista, lost>>
      BY <1>6, <2>1 DEF Queue, FifoSvc, receive, driver
    <3>2. xcnt > 0 \/ xfull => xcnt' > 0 \/ xfull'
      BY <2>1 DEF FifoSvc, buffer, IInv, TypeOK
    <3> QED BY <1>1, <3>1, <3>2 DEF WakeInv, ReceiveWakes, SendWakes
  <2>2. CASE XmtStall \/ PollNothing
    <3>1. /\ UNCHANGED <<rcnt, xcnt, xfull, lost>> /\ ista \subseteq ista'
          /\ tmo > 0 => tmo' > 0 \/ "TMO" \in ista'
      <4>1. CASE XmtStall
        BY <1>6, <4>1 DEF Queue, XmtStall, vars, receive, transmit, buffer, driver
      <4>2. CASE PollNothing
        <5>1. tmo \in Nat
          BY UartAssumption DEF IInv, TypeOK
        <5>2. tmo > 0 => tmo' > 0 \/ "TMO" \in ista'
          BY <4>2, <5>1 DEF PollNothing
        <5>3. UNCHANGED <<rcnt, xcnt, xfull, lost>> /\ ista \subseteq ista'
          BY <1>6, <4>2 DEF Queue, PollNothing, receive, transmit, buffer, driver
        <5> QED BY <5>2, <5>3
      <4> QED BY <2>2, <4>1, <4>2
    <3> QED BY <1>1, <3>1 DEF WakeInv, ReceiveWakes, SendWakes
  <2> QED BY <1>6, <2>1, <2>2 DEF Queue
<1> QED BY <1>2, <1>3, <1>4, <1>5, <1>6

LEMMA WakeStep ==
  ASSUME IInv, LineInv, WakeInv, [NextDriver]_allVars
  PROVE  WakeInv'
<1>1. CASE \/ LoseAtUart \/ PutOut \/ Queue \/ UNCHANGED allVars
           \/ \E c \in Chars : Submit(c)
           \/ \E s \in Arriving : ArriveAtUart(s)
  <2>1. UNCHANGED <<step, status>>
    BY <1>1 DEF LoseAtUart, PutOut, Queue, Submit, ArriveAtUart, allVars, driver
  <2>2. ie' = ie
    BY <1>1 DEF LoseAtUart, Overrun, PutOut, XmtSvc, Queue, FifoSvc, XmtStall, PollNothing,
                Submit, ArriveAtUart, PollChar, allVars, vars, settings
  <2> QED BY <1>1, <2>1, <2>2, WakeEvent
<1> QED BY <1>1, WakeAccess, WakePoll, WakeRest DEF NextDriver, Program

(* The program's interrupts are never lost: uart_eval_intr after each      *)
(* change of the status, the timer for characters below the alarm level    *)
(* and the transmitter's interrupt after the last character together leave *)
(* no order of events and accesses after which it rests and is needed.     *)
(* With the fairness of SpecDriver this is why both lines make progress.   *)
THEOREM WakeupsKept == SpecDriver => []NoLostWakeup
<1>1. InitDriver => IInv /\ LineInv /\ WakeInv
  <2>1. InitDriver => WakeInv
    BY DEF InitDriver, Init, WakeInv, ReceiveWakes, SendWakes, Waiting, Resting, Seen
  <2> QED BY <2>1, InitInv, LineInit DEF InitDriver
<1>2. IInv /\ LineInv /\ WakeInv /\ [NextDriver]_allVars => (IInv /\ LineInv /\ WakeInv)'
  BY DriverSteps, NextInv, LineStep, WakeStep
<1>3. IInv /\ WakeInv => NoLostWakeup
  <2> SUFFICES ASSUME IInv, WakeInv, step = "idle"
      PROVE  /\ rcnt > 0 => request \/ tmo > 0
             /\ lost => request
             /\ ToSend => request \/ "XMT" \notin ie \/ xmtEvent \/ fifoEvent
    BY DEF NoLostWakeup
  <2>1. {"RCV", "RSTA", "TMO"} \subseteq ie /\ Waiting /\ Resting
    BY DEF WakeInv, Waiting, Resting
  <2>2. ASSUME NEW i, i \in ista, i \in ie PROVE request
    BY <2>2 DEF IInv, Consistent
  <2> QED BY <2>1, <2>2 DEF WakeInv, ReceiveWakes, SendWakes, IInv, NothingStuck
<1> QED BY <1>1, <1>2, <1>3, PTL DEF SpecDriver
=============================================================================
