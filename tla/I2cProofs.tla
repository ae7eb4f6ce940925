----------------------------- MODULE I2cProofs -------------------------------
(***************************************************************************)
(* Theorems about the I2C controller, for every number of units, every     *)
(* size of EEPROM, page and protected region, and every set of bytes.      *)
(*                                                                         *)
(* OneTransfer and ByteToSelected are inductive together with TypeOK: a    *)
(* transfer is scheduled only with TIP clear, so with no event pending,    *)
(* and on the unit of the slave select; whatever replaces the slave select *)
(* after that also takes i2c_state back to IDLE.  StoresInside follows with the  *)
(* range of the pointer between the address of a write and its first byte. *)
(* The program of I2cDriver is accepted because its commands follow one    *)
(* another the way i2c_state goes (Follows, Admits).  That it implements   *)
(* the memory of bytes rests on DataInv, which says for every number of    *)
(* commands given where i2c_state, the slave select and the address        *)
(* pointer are, what has been read and what has been stored: every command *)
(* is CommandAt its place in the operation, and every event of i2c_svc     *)
(* takes one of them to its end.                                           *)
(***************************************************************************)
EXTENDS I2cDriver, SequenceTheorems, TLAPS

(* Once the address of a write has come, the unit's pointer is in range.   *)
FirstByteInside ==
  mode = "WRDAT1" => IsMemory(slvsel) /\ ap[Dimm(slvsel)] < Size

IInv == TypeOK /\ OneTransfer /\ ByteToSelected /\ FirstByteInside

(* Sequences that are built like the scripts of I2cDriver.                *)
LEMMA ArrayIsSeq ==
  ASSUME NEW S, NEW n \in Nat, NEW f \in [1 .. n -> S]
  PROVE  f \in Seq(S) /\ Len(f) = n
OBVIOUS

LEMMA Concat ==
  ASSUME NEW S, NEW c \in Seq(S), NEW d \in Seq(S)
  PROVE  /\ c \o d \in Seq(S) /\ Len(c \o d) = Len(c) + Len(d)
         /\ \A i \in 1 .. Len(c) : (c \o d)[i] = c[i]
         /\ \A i \in 1 .. Len(d) : (c \o d)[Len(c) + i] = d[i]
<1> DEFINE s == c \o d
<1>1. /\ s \in Seq(S) /\ Len(s) = Len(c) + Len(d) /\ Len(c) \in Nat /\ Len(d) \in Nat
      /\ \A i \in 1 .. Len(c) + Len(d) : s[i] = IF i <= Len(c) THEN c[i] ELSE d[i - Len(c)]
  BY ConcatProperties, LenProperties
<1> HIDE DEF s
<1>2. ASSUME NEW i \in 1 .. Len(d) PROVE s[Len(c) + i] = d[i]
  <2>1. Len(c) + i \in 1 .. Len(c) + Len(d) /\ ~(Len(c) + i <= Len(c)) /\ (Len(c) + i) - Len(c) = i
    BY <1>1
  <2> QED
    BY <1>1, <2>1
<1>3. \A i \in 1 .. Len(c) : s[i] = c[i]
  BY <1>1
<1> QED
  BY <1>1, <1>2, <1>3 DEF s

(* A script is two commands that position the unit, and the rest.          *)
LEMMA Joined ==
  ASSUME NEW S, NEW p \in Seq(S), NEW c \in Seq(S), NEW d \in Seq(S)
  PROVE  LET s == (p \o c) \o d
         IN /\ s \in Seq(S) /\ Len(s) = Len(p) + Len(c) + Len(d)
            /\ \A i \in 1 .. Len(p) : s[i] = p[i]
            /\ \A i \in 1 .. Len(c) : s[Len(p) + i] = c[i]
            /\ \A i \in 1 .. Len(d) : s[Len(p) + Len(c) + i] = d[i]
<1> DEFINE q == p \o c
           s == q \o d
<1>1. q \in Seq(S) /\ Len(q) = Len(p) + Len(c)
  BY Concat
<1>2. \A i \in 1 .. Len(p) : q[i] = p[i]
  BY Concat
<1>3. \A i \in 1 .. Len(c) : q[Len(p) + i] = c[i]
  BY Concat
<1> HIDE DEF q
<1>4. s \in Seq(S) /\ Len(s) = Len(q) + Len(d)
  BY <1>1, Concat
<1>5. \A i \in 1 .. Len(q) : s[i] = q[i]
  BY <1>1, Concat
<1>6. \A i \in 1 .. Len(d) : s[Len(q) + i] = d[i]
  BY <1>1, Concat
<1> HIDE DEF s
<1>7. Len(p) \in Nat /\ Len(c) \in Nat /\ Len(d) \in Nat
  BY LenProperties
<1>8. ASSUME NEW i \in 1 .. Len(p) PROVE s[i] = p[i]
  BY <1>1, <1>2, <1>5, <1>7
<1>9. ASSUME NEW i \in 1 .. Len(c) PROVE s[Len(p) + i] = c[i]
  <2>1. Len(p) + i \in 1 .. Len(q)
    BY <1>1, <1>7
  <2> QED
    BY <1>3, <1>5, <2>1
<1>10. ASSUME NEW i \in 1 .. Len(d) PROVE s[Len(p) + Len(c) + i] = d[i]
  BY <1>1, <1>6, <1>7
<1> QED
  BY <1>1, <1>4, <1>8, <1>9, <1>10 DEF s, q

(* The assumption on the sizes, without that pages divide the EEPROM.      *)
LEMMA Sizes ==
  /\ NumUnit \in 1 .. 8 /\ PageSize \in Nat \ {0} /\ Size \in Nat \ {0}
  /\ ProtLim \in 0 .. Size /\ Bytes \subseteq 0 .. 255 /\ 0 \in Bytes
  /\ Commands \subseteq SUBSET CommandBits
BY I2cAssumption, Zenon

USE Sizes

(* The unit that a memory's slave select names is one of the units.        *)
LEMMA DimmIsUnit ==
  ASSUME NEW sel \in Bytes, IsMemory(sel)
  PROVE  Dimm(sel) \in Units
<1>1. sel \in 0 .. 255
  OBVIOUS
<1>2. Dimm(sel) \in Nat
  BY <1>1 DEF Dimm
<1> QED
  BY <1>2 DEF IsMemory, Units

(* The address pointer stays within one past the end of the EEPROM.        *)
LEMMA AfterWriteTyped ==
  ASSUME NEW a \in 0 .. Size
  PROVE  AfterWrite(a) \in 0 .. Size
BY DEF AfterWrite

(* The controller starts in a state of the invariant.                      *)
LEMMA InitInv == Init => IInv
<1> SUFFICES ASSUME Init PROVE IInv
  OBVIOUS
<1>1. /\ enabled \in BOOLEAN /\ nackCmd \in BOOLEAN
      /\ busy \in BOOLEAN /\ tip \in BOOLEAN /\ int \in BOOLEAN /\ nack \in BOOLEAN
  BY Zenon DEF Init
<1>2. mode \in Modes /\ mode # "WRDAT1" /\ pending = {}
  BY DEF Init, Modes
<1>3. /\ xmt \in Bytes /\ rcv \in Bytes /\ slvsel \in Bytes
      /\ ap \in [Units -> 0 .. Size]
      /\ swp \in [Units -> BOOLEAN]
      /\ rom \in [Units -> [Addresses -> Bytes]]
  BY DEF Init
<1> QED
  BY <1>1, <1>2, <1>3
  DEF IInv, TypeOK, OneTransfer, ByteToSelected, FirstByteInside

(* Every command keeps the types.                                          *)
LEMMA CommandTyped ==
  ASSUME TypeOK, NEW c \in Commands, Command(c)
  PROVE  TypeOK'
<1>1. CASE CmdRefused(c)
  BY <1>1 DEF CmdRefused, TypeOK, status, roms
<1>2. CASE CmdTransferRefused(c)
  BY <1>2 DEF CmdTransferRefused, Start, TypeOK, Modes, roms
<1>3. CASE CmdTransfer(c)
  <2>1. slvsel' \in Bytes
    BY <1>3 DEF CmdTransfer, Start, TypeOK
  <2>2. Dimm(slvsel') \in Units
    BY <1>3, <2>1, DimmIsUnit DEF CmdTransfer, CanTransfer
  <2> QED
    BY <1>3, <2>1, <2>2 DEF CmdTransfer, Start, Acknowledge, TypeOK, Modes, roms
<1>4. CASE CmdStop(c)
  <2>1. nackCmd' \in BOOLEAN
    BY <1>4 DEF CmdStop
  <2>2. busy' \in BOOLEAN
    BY <1>4 DEF CmdStop
  <2>3. int' \in BOOLEAN
    BY <1>4 DEF CmdStop, Acknowledge, TypeOK
  <2>4. /\ mode' \in Modes /\ pending' \subseteq Units
        /\ UNCHANGED <<enabled, xmt, rcv, slvsel, tip, nack, ap, swp, rom>>
    BY <1>4 DEF CmdStop, Modes, roms
  <2> QED
    BY <2>1, <2>2, <2>3, <2>4 DEF TypeOK
<1>5. CASE CmdPlain(c)
  BY <1>5 DEF CmdPlain, Acknowledge, TypeOK, roms
<1> QED
  BY <1>1, <1>2, <1>3, <1>4, <1>5 DEF Command

(* Every event of i2c_svc keeps the types: a byte is stored only within    *)
(* the EEPROM, since the pointer stands past its end only at the start of  *)
(* a page.                                                                 *)
LEMMA ServeTyped ==
  ASSUME TypeOK, NEW u \in Units, Serve(u)
  PROVE  TypeOK'
<1>1. CASE ServeSelect(u)
  BY <1>1 DEF ServeSelect, Served, TypeOK, Modes
<1>2. CASE ServeRead(u)
  <2>1. rcv' \in Bytes
    BY <1>2 DEF ServeRead, TypeOK, Addresses
  <2>2. ap' \in [Units -> 0 .. Size]
    BY <1>2 DEF ServeRead, TypeOK
  <2> QED
    BY <1>2, <2>1, <2>2 DEF ServeRead, Served, TypeOK, Modes
<1>3. CASE ServeAddress(u)
  <2>1. xmt % Size \in 0 .. Size
    BY DEF TypeOK
  <2> QED
    BY <1>3, <2>1 DEF ServeAddress, Served, TypeOK, Modes
<1>4. CASE ServePageEnd(u)
  <2>1. ap' \in [Units -> 0 .. Size]
    BY <1>4, AfterWriteTyped DEF ServePageEnd, TypeOK
  <2> QED
    BY <1>4, <2>1 DEF ServePageEnd, Served, TypeOK
<1>5. CASE ServeWrite(u)
  <2>1. ap' \in [Units -> 0 .. Size]
    BY <1>5, AfterWriteTyped DEF ServeWrite, TypeOK
  <2>2. rom' \in [Units -> [Addresses -> Bytes]]
    BY <1>5 DEF ServeWrite, TypeOK
  <2>3. nack' \in BOOLEAN
    BY <1>5 DEF ServeWrite
  <2> QED
    BY <1>5, <2>1, <2>2, <2>3 DEF ServeWrite, Served, TypeOK, Modes
<1> QED
  BY <1>1, <1>2, <1>3, <1>4, <1>5 DEF Serve

(* So do the control register, the transmit register and the operator.     *)
LEMMA OtherTyped ==
  ASSUME TypeOK,
         \/ \E on \in BOOLEAN : WriteCtl(on)
         \/ \E b \in Bytes : WriteXmt(b)
         \/ Operator
         \/ UNCHANGED vars
  PROVE  TypeOK'
<1>1. ASSUME NEW on \in BOOLEAN, WriteCtl(on) PROVE TypeOK'
  BY <1>1 DEF WriteCtl, TypeOK, status, roms
<1>2. ASSUME NEW b \in Bytes, WriteXmt(b) PROVE TypeOK'
  BY <1>2 DEF WriteXmt, TypeOK, status, roms
<1>3. CASE Reset
  <2>1. /\ enabled' \in BOOLEAN /\ nackCmd' \in BOOLEAN
        /\ busy' \in BOOLEAN /\ tip' \in BOOLEAN /\ int' \in BOOLEAN
        /\ nack' \in BOOLEAN
    BY <1>3, Zenon DEF Reset
  <2> QED
    BY <1>3, <2>1 DEF Reset, TypeOK, Modes, roms
<1>4. ASSUME NEW u \in Units, NEW a \in Addresses, NEW b \in Bytes, Deposit(u, a, b)
      PROVE TypeOK'
  BY <1>4 DEF Deposit, TypeOK, registers, status
<1>5. ASSUME NEW u \in Units, NEW b \in Bytes, Attach(u, b)
      PROVE TypeOK'
  BY <1>5 DEF Attach, TypeOK, registers, status
<1>6. ASSUME NEW u \in Units, NEW on \in BOOLEAN, SetSwp(u, on)
      PROVE TypeOK'
  BY <1>6 DEF SetSwp, TypeOK, registers, status
<1>7. CASE UNCHANGED vars
  BY <1>7 DEF vars, TypeOK, status, roms
<1> QED
  BY <1>1, <1>2, <1>3, <1>4, <1>5, <1>6, <1>7 DEF Operator
-----------------------------------------------------------------------------
(* The transfers stay one at a time, each at the unit selected, whatever   *)
(* command, event or operator's command comes next.                        *)
LEMMA NextTransfer ==
  ASSUME IInv, [Next]_vars, TypeOK'
  PROVE  (OneTransfer /\ ByteToSelected)'
<1> USE DEF IInv, OneTransfer, ByteToSelected
<1>1. ASSUME NEW c \in Commands, Command(c)
      PROVE  (OneTransfer /\ ByteToSelected)'
  <2>1. CASE CmdRefused(c)
    BY <1>1, <2>1 DEF CmdRefused, status
  <2>2. CASE CmdTransferRefused(c)
    BY <1>1, <2>2 DEF CmdTransferRefused, Start
  <2>3. CASE CmdTransfer(c)
    <3>1. pending = {}
      BY <2>3 DEF CmdTransfer, CanTransfer
    <3>2. pending' = {Dimm(slvsel')} /\ tip' /\ IsMemory(slvsel')
      BY <2>3, <3>1 DEF CmdTransfer, CanTransfer
    <3> QED
      BY <3>2
  <2>4. CASE CmdStop(c)
    BY <2>4 DEF CmdStop
  <2>5. CASE CmdPlain(c)
    BY <2>5 DEF CmdPlain
  <2> QED
    BY <1>1, <2>1, <2>2, <2>3, <2>4, <2>5 DEF Command
<1>2. ASSUME NEW u \in Units, Serve(u)
      PROVE  (OneTransfer /\ ByteToSelected)'
  <2>1. Served(u)
    BY <1>2 DEF Serve, ServeSelect, ServeRead, ServeAddress, ServePageEnd, ServeWrite
  <2>2. pending' = {}
    BY <2>1 DEF Served
  <2> QED
    BY <2>2
<1>3. CASE (\E on \in BOOLEAN : WriteCtl(on)) \/ (\E b \in Bytes : WriteXmt(b))
  BY <1>3 DEF WriteCtl, WriteXmt, status
<1>4. CASE Reset
  BY <1>4 DEF Reset
<1>5. CASE Operator /\ ~Reset
  BY <1>5 DEF Operator, Deposit, Attach, SetSwp, registers, status
<1>6. CASE UNCHANGED vars
  BY <1>6 DEF vars, status
<1> QED
  BY <1>1, <1>2, <1>3, <1>4, <1>5, <1>6 DEF Next, Bus

(* The first byte of a write has its pointer in range until it is stored.  *)
LEMMA NextFirstByte ==
  ASSUME IInv, [Next]_vars, TypeOK'
  PROVE  FirstByteInside'
<1> USE DEF IInv, FirstByteInside
<1>1. ASSUME NEW c \in Commands, Command(c)
      PROVE  FirstByteInside'
  BY <1>1 DEF Command, CmdRefused, CmdTransferRefused, CmdTransfer, CmdStop,
              CmdPlain, Start, IsTransfer
<1>2. ASSUME NEW u \in Units, ServeAddress(u)
      PROVE  FirstByteInside'
  <2>1. IsMemory(slvsel) /\ u = Dimm(slvsel)
    BY <1>2 DEF ServeAddress, Served, ByteToSelected
  <2>2. ap'[u] < Size
    BY <1>2 DEF ServeAddress, TypeOK
  <2> QED
    BY <1>2, <2>1, <2>2 DEF ServeAddress, Served
<1>3. ASSUME NEW u \in Units, Serve(u), ~ServeAddress(u)
      PROVE  mode' # "WRDAT1"
  BY <1>3 DEF Serve, ServeSelect, ServeRead, ServePageEnd, ServeWrite
<1>4. CASE (\E on \in BOOLEAN : WriteCtl(on)) \/ (\E b \in Bytes : WriteXmt(b))
  BY <1>4 DEF WriteCtl, WriteXmt
<1>5. CASE Reset
  BY <1>5 DEF Reset
<1>6. CASE Operator /\ ~Reset
  BY <1>6 DEF Operator, Deposit, Attach, SetSwp, registers
<1>7. CASE UNCHANGED vars
  BY <1>7 DEF vars
<1> QED
  BY <1>1, <1>2, <1>3, <1>4, <1>5, <1>6, <1>7 DEF Next, Bus

(* The invariant is inductive.                                             *)
LEMMA NextInv == IInv /\ [Next]_vars => IInv'
<1> SUFFICES ASSUME IInv, [Next]_vars PROVE IInv'
  OBVIOUS
<1>1. TypeOK'
  BY CommandTyped, ServeTyped, OtherTyped DEF IInv, Next, Bus
<1> QED
  BY <1>1, NextTransfer, NextFirstByte DEF IInv

(* The invariant holds in every reachable state of the controller.        *)
THEOREM I2cInvariant == Spec => []IInv
<1> QED
  BY InitInv, NextInv, PTL DEF Spec
-----------------------------------------------------------------------------
(* The registers of the controller keep their types, and the address       *)
(* pointers never go further than one past the end of the EEPROM.          *)
THEOREM I2cTyped == Spec => []TypeOK
<1>1. IInv => TypeOK
  BY DEF IInv
<1> QED
  BY <1>1, I2cInvariant, PTL

(* There is one transfer at a time, and TIP is set as long as it lasts.    *)
THEOREM TransferAlone == Spec => []OneTransfer
<1>1. IInv => OneTransfer
  BY DEF IInv
<1> QED
  BY <1>1, I2cInvariant, PTL

(* Every byte goes to the unit that the slave select names.                *)
THEOREM TransferDirected == Spec => []ByteToSelected
<1>1. IInv => ByteToSelected
  BY DEF IInv
<1> QED
  BY <1>1, I2cInvariant, PTL

(* No byte is stored beyond the EEPROM.                                    *)
THEOREM StoreBounded == Spec => []StoresInside
<1>1. ASSUME IInv, NEW u \in pending,
             mode = "WRDAT1" \/ (mode = "WRDATN" /\ ~NewPage(ap[u]))
      PROVE  ap[u] < Size
  <2>1. CASE mode = "WRDAT1"
    BY <1>1, <2>1 DEF IInv, FirstByteInside, ByteToSelected
  <2>2. CASE mode = "WRDATN" /\ ~NewPage(ap[u])
    <3>1. ap[u] \in 0 .. Size
      BY <1>1 DEF IInv, TypeOK
    <3>2. ap[u] # Size
      BY <2>2, I2cAssumption, Zenon DEF NewPage
    <3> QED
      BY <3>1, <3>2
  <2> QED
    BY <1>1, <2>1, <2>2
<1>2. IInv => StoresInside
  BY <1>1 DEF StoresInside
<1> QED
  BY <1>2, I2cInvariant, PTL

(* A transfer never changes a protected byte of a protected unit: from any *)
(* state, reachable or not, but for the types.                             *)
THEOREM ProtectionHolds == Spec => ProtectedKept
<1>1. ASSUME TypeOK, Bus, NEW u \in Units, NEW a \in Addresses, swp[u], a < ProtLim
      PROVE  rom'[u][a] = rom[u][a]
  <2>1. ASSUME NEW v \in Units, ServeWrite(v)
        PROVE  rom'[u][a] = rom[u][a]
    <3>1. CASE IsProtected(v)
      BY <2>1, <3>1 DEF ServeWrite
    <3>2. CASE ~IsProtected(v)
      <4>1. rom' = [rom EXCEPT ![v][ap[v]] = xmt]
        BY <2>1, <3>2 DEF ServeWrite
      <4>2. u # v \/ a # ap[v]
        BY <1>1, <3>2 DEF IsProtected, TypeOK, Addresses
      <4> QED
        BY <4>1, <4>2 DEF TypeOK
    <3> QED
      BY <3>1, <3>2
  <2>2. ASSUME NEW v \in Units, Serve(v), ~ServeWrite(v)
        PROVE  rom' = rom
    BY <2>2 DEF Serve, ServeSelect, ServeRead, ServeAddress, ServePageEnd
  <2>3. ASSUME NEW c \in Commands, Command(c)
        PROVE  rom' = rom
    BY <2>3 DEF Command, CmdRefused, CmdTransferRefused, CmdTransfer, CmdStop,
                CmdPlain, roms
  <2>4. CASE (\E on \in BOOLEAN : WriteCtl(on)) \/ (\E b \in Bytes : WriteXmt(b))
    BY <2>4 DEF WriteCtl, WriteXmt, roms
  <2> QED
    BY <1>1, <2>1, <2>2, <2>3, <2>4 DEF Bus
<1>2. IInv => TypeOK
  BY DEF IInv
<1>3. IInv /\ [Next]_vars =>
        [Bus => \A u \in Units, a \in Addresses :
                  swp[u] /\ a < ProtLim => rom'[u][a] = rom[u][a]]_vars
  BY <1>1, <1>2
<1> QED
  BY <1>3, I2cInvariant, PTL DEF Spec, ProtectedKept
-----------------------------------------------------------------------------
(* What i2c_svc makes of i2c_state with the transfer under way.            *)
AfterServe ==
  CASE mode = "IDLE" -> IF IsRead(slvsel) THEN "READ" ELSE "WRADR"
    [] mode = "READ" -> IF nackCmd THEN "IDLE" ELSE "READ"
    [] mode = "WRADR" -> "WRDAT1"
    [] OTHER -> "WRDATN"

Settled == IF tip THEN AfterServe ELSE mode

(* The commands of a script, and which may follow which.                   *)
ProgramCommand == [byte : Int, bits : SUBSET CommandBits]

IsStart(k) == k.bits = {"START", "WR"} /\ IsMemory(k.byte)
IsCommand(k) ==
  IsStart(k) \/ k.bits \in {{"WR"}, {"RD"}, {"RD", "NACK"}, {"STOP", "IACK"}}

(* After such a command the controller expects to be read from: it takes   *)
(* RD, and refuses START.                                                  *)
Reading(k) == (IsStart(k) /\ IsRead(k.byte)) \/ k.bits = {"RD"}

MayFollow(k, next) ==
  /\ "RD" \in next.bits <=> Reading(k)
  /\ next.bits = {"WR"} => (IsStart(k) /\ ~IsRead(k.byte)) \/ k.bits = {"WR"}

Follows(s) ==
  /\ \A i \in 1 .. Len(s) : IsCommand(s[i])
  /\ \A i \in 1 .. Len(s) - 1 : MayFollow(s[i], s[i + 1])
  /\ s # <<>> => ~Reading(s[Len(s)])

(* The state that the next command of the script needs.                    *)
Admits(k) ==
  /\ "RD" \in k.bits <=> Settled = "READ"
  /\ "RD" \in k.bits \/ k.bits = {"WR"} => IsMemory(slvsel)
  /\ k.bits = {"WR"} => Settled \in {"WRADR", "WRDAT1", "WRDATN"}

DriverInv ==
  /\ pending # {} => tip = TRUE
  /\ \A u, v \in pending : u = v
  /\ script \in Seq(ProgramCommand)
  /\ Follows(script)
  /\ script # <<>> => enabled = TRUE /\ op # None /\ Admits(Head(script))
  /\ script = <<>> => Settled # "READ"
  /\ loaded = TRUE => tip = FALSE /\ script # <<>> /\ xmt = Head(script).byte
  /\ loaded \in BOOLEAN /\ tip \in BOOLEAN /\ mode \in Modes

LEMMA StartBits ==
  ASSUME NEW k, IsStart(k)
  PROVE  /\ "RD" \notin k.bits /\ k.bits # {"WR"} /\ k.bits # {"RD"}
         /\ k.bits \cap {"RD", "WR", "STOP"} = {"WR"} /\ "START" \in k.bits
BY DEF IsStart

LEMMA ReadingBits ==
  ASSUME NEW k
  PROVE  /\ k.bits \in {{"WR"}, {"RD", "NACK"}, {"STOP", "IACK"}} => ~Reading(k)
         /\ k.bits = {"RD"} => Reading(k)
         /\ IsStart(k) => (Reading(k) <=> IsRead(k.byte))
<1>1. k.bits \in {{"WR"}, {"RD", "NACK"}, {"STOP", "IACK"}} =>
        k.bits # {"START", "WR"} /\ k.bits # {"RD"}
  OBVIOUS
<1>2. k.bits \in {{"WR"}, {"RD", "NACK"}, {"STOP", "IACK"}} => ~Reading(k)
  BY <1>1 DEF Reading, IsStart
<1>3. k.bits = {"RD"} => Reading(k)
  BY DEF Reading
<1>4. IsStart(k) => (Reading(k) <=> IsRead(k.byte))
  BY StartBits DEF Reading
<1> QED
  BY <1>2, <1>3, <1>4

LEMMA SelectNames ==
  ASSUME NEW u \in Units, NEW read \in BOOLEAN
  PROVE  /\ Select(u, read) \in Int /\ IsMemory(Select(u, read))
         /\ IsRead(Select(u, read)) <=> read = TRUE
<1>1. u \in 0 .. 7 /\ u < NumUnit
  BY DEF Units
<1>2. CASE read = TRUE
  BY <1>1, <1>2 DEF Select, IsMemory, IsRead, Dimm
<1>3. CASE read = FALSE
  BY <1>1, <1>3 DEF Select, IsMemory, IsRead, Dimm
<1> QED
  BY <1>2, <1>3

(* An operation, command by command.                                       *)
Count(o) == IF o.kind = "read" THEN o.count ELSE Len(o.data)
Length(o) == 3 + Count(o)

SelectToWrite(o) == Cmd(Select(o.unit, FALSE), {"START", "WR"})
SelectToRead(o) == Cmd(Select(o.unit, TRUE), {"START", "WR"})
SendAddress(o) == Cmd(o.addr, {"WR"})
SendData(o, i) == Cmd(o.data[i], {"WR"})
ReadByte == Cmd(0, {"RD"})
ReadLast == Cmd(0, {"RD", "NACK"})
Stop == Cmd(0, {"STOP", "IACK"})

CommandAt(o, i) ==
  IF i = 1 THEN SelectToWrite(o)
  ELSE IF i = 2 THEN SendAddress(o)
  ELSE IF o.kind = "read"
  THEN IF i = 3 THEN SelectToRead(o) ELSE IF i = Length(o) THEN ReadLast ELSE ReadByte
  ELSE IF i = Length(o) THEN Stop ELSE SendData(o, i - 2)

LEMMA OperationShape ==
  ASSUME NEW o \in Operations
  PROVE  /\ o.unit \in Units /\ o.addr \in Addresses /\ o.addr \in Int /\ o # None
         /\ o.kind = "read" \/ o.kind = "write"
         /\ Count(o) \in Nat /\ Length(o) \in Nat /\ Length(o) = 3 + Count(o)
         /\ o.kind = "read" => Count(o) = o.count /\ Count(o) >= 1
         /\ o.kind = "write" =>
              /\ Count(o) = Len(o.data)
              /\ \A i \in 1 .. Count(o) : o.data[i] \in Bytes /\ o.data[i] \in Int
<1>1. o.kind = "write" => \A i \in 1 .. Len(o.data) : o.data[i] \in Bytes
  BY OperationAssumption, ElementOfSeq
<1>2. Bytes \subseteq Int
  BY I2cAssumption
<1>3. o.kind = "write" => Len(o.data) \in Nat
  BY OperationAssumption, LenProperties
<1>4. /\ o.unit \in Units /\ o.addr \in Addresses /\ o # None
      /\ o.kind = "read" \/ o.kind = "write"
      /\ o.kind = "read" => o.count \in Nat \ {0}
  BY OperationAssumption
<1>5. o.addr \in Int
  BY <1>4 DEF Addresses
<1>6. Count(o) \in Nat
  BY <1>3, <1>4 DEF Count
<1>7. o.kind = "write" =>
        /\ Count(o) = Len(o.data)
        /\ \A i \in 1 .. Count(o) : o.data[i] \in Bytes /\ o.data[i] \in Int
  <2>1. o.kind = "write" => o.kind # "read"
    OBVIOUS
  <2> QED BY <1>1, <1>2, <2>1 DEF Count
<1> QED BY <1>4, <1>5, <1>6, <1>7 DEF Count, Length

LEMMA CmdTyped ==
  ASSUME NEW b \in Int, NEW bits \in SUBSET CommandBits
  PROVE  Cmd(b, bits) \in ProgramCommand /\ Cmd(b, bits).byte = b /\ Cmd(b, bits).bits = bits
BY DEF Cmd, ProgramCommand

LEMMA StepsTyped ==
  ASSUME NEW o \in Operations
  PROVE  /\ {SelectToWrite(o), SelectToRead(o), SendAddress(o), ReadByte, ReadLast, Stop}
              \subseteq ProgramCommand
         /\ o.kind = "write" => \A i \in 1 .. Count(o) : SendData(o, i) \in ProgramCommand
<1>1. Select(o.unit, TRUE) \in Int /\ Select(o.unit, FALSE) \in Int /\ o.addr \in Int
  BY OperationShape, SelectNames
<1>2. SelectToWrite(o) \in ProgramCommand /\ SelectToRead(o) \in ProgramCommand
  BY <1>1, CmdTyped DEF SelectToWrite, SelectToRead, CommandBits
<1>3. SendAddress(o) \in ProgramCommand
  BY <1>1, CmdTyped DEF SendAddress, CommandBits
<1>4. ReadByte \in ProgramCommand /\ ReadLast \in ProgramCommand /\ Stop \in ProgramCommand
  BY CmdTyped DEF ReadByte, ReadLast, Stop, CommandBits
<1>5. ASSUME o.kind = "write", NEW i \in 1 .. Count(o) PROVE SendData(o, i) \in ProgramCommand
  <2>1. o.data[i] \in Int
    BY <1>5, OperationShape
  <2> QED BY <2>1, CmdTyped DEF SendData, CommandBits
<1> QED BY <1>2, <1>3, <1>4, <1>5

(* The commands of an operation, one kind after the other.                 *)
LEMMA CommandsOf ==
  ASSUME NEW o \in Operations
  PROVE  /\ CommandAt(o, 1) = SelectToWrite(o) /\ CommandAt(o, 2) = SendAddress(o)
         /\ o.kind = "read" =>
              /\ CommandAt(o, 3) = SelectToRead(o)
              /\ \A i \in 4 .. Length(o) - 1 : CommandAt(o, i) = ReadByte
              /\ CommandAt(o, Length(o)) = ReadLast
         /\ o.kind # "read" =>
              /\ \A i \in 3 .. Length(o) - 1 : CommandAt(o, i) = SendData(o, i - 2)
              /\ CommandAt(o, Length(o)) = Stop
<1>1. Length(o) \in Nat /\ Length(o) >= 3 /\ (o.kind = "read" => Length(o) >= 4)
  BY OperationShape
<1>2. CommandAt(o, 1) = SelectToWrite(o) /\ CommandAt(o, 2) = SendAddress(o)
  BY DEF CommandAt
<1>3. CASE o.kind = "read"
  BY <1>1, <1>2, <1>3 DEF CommandAt
<1>4. CASE o.kind # "read"
  BY <1>1, <1>2, <1>4 DEF CommandAt
<1> QED BY <1>3, <1>4

LEMMA CommandAtTyped ==
  ASSUME NEW o \in Operations, NEW i \in 1 .. Length(o)
  PROVE  CommandAt(o, i) \in ProgramCommand
<1>1. Length(o) \in Nat /\ Length(o) = 3 + Count(o) /\ Count(o) \in Nat
      /\ (o.kind = "read" \/ o.kind = "write")
  BY OperationShape
<1>2. CASE o.kind = "read"
  BY <1>2, StepsTyped DEF CommandAt
<1>3. CASE o.kind = "write"
  <2>1. i > 2 /\ i # Length(o) => i - 2 \in 1 .. Count(o)
    BY <1>1
  <2> QED BY <1>1, <1>3, <2>1, StepsTyped DEF CommandAt
<1> QED BY <1>1, <1>2, <1>3

(* The script of an operation is these commands.                           *)
LEMMA ScriptShape ==
  ASSUME NEW o \in Operations
  PROVE  /\ Script(o) \in Seq(ProgramCommand) /\ Len(Script(o)) = Length(o)
         /\ \A i \in 1 .. Length(o) : Script(o)[i] = CommandAt(o, i)
<1> DEFINE L == Length(o)
           N == Count(o)
           p == <<CommandAt(o, 1), CommandAt(o, 2)>>
<1>1. L \in Nat /\ N \in Nat /\ L = 3 + N /\ (o.kind = "read" \/ o.kind = "write")
  BY OperationShape
<1>2. \A i \in 1 .. L : CommandAt(o, i) \in ProgramCommand
  BY CommandAtTyped
<1> HIDE DEF L, N
<1>3. /\ p \in Seq(ProgramCommand) /\ Len(p) = 2
      /\ p[1] = CommandAt(o, 1) /\ p[2] = CommandAt(o, 2)
  BY <1>1, <1>2
<1>4. p = Position(o)
  BY CommandsOf DEF Position, SelectToWrite, SendAddress
<1> HIDE DEF p
<1>5. CASE o.kind = "read"
  <2> DEFINE c == <<CommandAt(o, 3)>>
             d == [i \in 1 .. N |-> CommandAt(o, 3 + i)]
             s == (p \o c) \o d
  <2>1. c \in Seq(ProgramCommand) /\ Len(c) = 1 /\ c[1] = CommandAt(o, 3)
    BY <1>1, <1>2
  <2>2. d \in Seq(ProgramCommand) /\ Len(d) = N
    <3>1. d \in [1 .. N -> ProgramCommand]
      BY <1>1, <1>2
    <3> HIDE DEF d
    <3> QED BY <1>1, <3>1, ArrayIsSeq
  <2>3. \A i \in 1 .. N : d[i] = CommandAt(o, 3 + i)
    OBVIOUS
  <2>4. Script(o) = s
    <3>1. c = <<Cmd(Select(o.unit, TRUE), {"START", "WR"})>>
      BY <1>5, CommandsOf DEF SelectToRead
    <3>2. ASSUME NEW i \in 1 .. N
          PROVE  CommandAt(o, 3 + i) = Cmd(0, IF i = o.count THEN {"RD", "NACK"} ELSE {"RD"})
      <4>1. N = o.count
        BY <1>5, OperationShape DEF N
      <4>2. CASE i = N
        <5>1. 3 + i = L
          BY <1>1, <4>2
        <5>2. CommandAt(o, 3 + i) = ReadLast
          BY <1>5, <5>1, CommandsOf DEF L
        <5> QED BY <4>1, <4>2, <5>2 DEF ReadLast
      <4>3. CASE i # N
        <5>1. 3 + i \in 4 .. L - 1
          BY <1>1, <4>3
        <5>2. CommandAt(o, 3 + i) = ReadByte
          BY <1>5, <5>1, CommandsOf DEF L
        <5> QED BY <4>1, <4>3, <5>2 DEF ReadByte
      <4> QED BY <4>2, <4>3
    <3>3. d = [i \in 1 .. o.count |-> Cmd(0, IF i = o.count THEN {"RD", "NACK"} ELSE {"RD"})]
      BY <1>5, <3>2, OperationShape DEF N
    <3> HIDE DEF c, d
    <3> QED BY <1>4, <1>5, <3>1, <3>3 DEF Script, ReadScript
  <2> HIDE DEF c, d
  <2>5. /\ s \in Seq(ProgramCommand) /\ Len(s) = Len(p) + Len(c) + Len(d)
        /\ \A i \in 1 .. Len(p) : s[i] = p[i]
        /\ \A i \in 1 .. Len(c) : s[Len(p) + i] = c[i]
        /\ \A i \in 1 .. Len(d) : s[Len(p) + Len(c) + i] = d[i]
    <3>1. p \in Seq(ProgramCommand) /\ c \in Seq(ProgramCommand) /\ d \in Seq(ProgramCommand)
      BY <1>3, <2>1, <2>2
    <3> QED BY <3>1, Joined
  <2> HIDE DEF s
  <2>6. ASSUME NEW i \in 1 .. L PROVE s[i] = CommandAt(o, i)
    <3>1. CASE i <= 3
      BY <1>3, <2>1, <2>2, <2>5, <3>1
    <3>2. CASE i > 3
      <4>1. i - 3 \in 1 .. N /\ 2 + 1 + (i - 3) = i /\ 3 + (i - 3) = i
        BY <1>1, <3>2
      <4> QED BY <1>3, <2>1, <2>2, <2>3, <2>5, <4>1
    <3> QED BY <1>1, <3>1, <3>2
  <2> QED BY <1>1, <1>3, <2>1, <2>2, <2>4, <2>5, <2>6 DEF L
<1>6. CASE o.kind # "read"
  <2> DEFINE c == [i \in 1 .. N |-> CommandAt(o, 2 + i)]
             d == <<CommandAt(o, L)>>
             s == (p \o c) \o d
  <2>1. c \in Seq(ProgramCommand) /\ Len(c) = N
    <3>1. c \in [1 .. N -> ProgramCommand]
      BY <1>1, <1>2
    <3> HIDE DEF c
    <3> QED BY <1>1, <3>1, ArrayIsSeq
  <2>2. \A i \in 1 .. N : c[i] = CommandAt(o, 2 + i)
    OBVIOUS
  <2>3. d \in Seq(ProgramCommand) /\ Len(d) = 1 /\ d[1] = CommandAt(o, L)
    BY <1>1, <1>2
  <2>4. Script(o) = s
    <3>1. d = <<Cmd(0, {"STOP", "IACK"})>>
      BY <1>6, CommandsOf DEF L, Stop
    <3>2. ASSUME NEW i \in 1 .. N PROVE CommandAt(o, 2 + i) = Cmd(o.data[i], {"WR"})
      <4>1. 2 + i \in 3 .. L - 1 /\ (2 + i) - 2 = i
        BY <1>1
      <4>2. CommandAt(o, 2 + i) = SendData(o, (2 + i) - 2)
        BY <1>6, <4>1, CommandsOf DEF L
      <4> QED BY <4>1, <4>2 DEF SendData
    <3>3. c = [i \in 1 .. Len(o.data) |-> Cmd(o.data[i], {"WR"})]
      BY <1>1, <1>6, <3>2, OperationShape DEF N
    <3> HIDE DEF c, d
    <3> QED BY <1>4, <1>6, <3>1, <3>3 DEF Script, WriteScript
  <2> HIDE DEF c, d
  <2>5. /\ s \in Seq(ProgramCommand) /\ Len(s) = Len(p) + Len(c) + Len(d)
        /\ \A i \in 1 .. Len(p) : s[i] = p[i]
        /\ \A i \in 1 .. Len(c) : s[Len(p) + i] = c[i]
        /\ \A i \in 1 .. Len(d) : s[Len(p) + Len(c) + i] = d[i]
    <3>1. p \in Seq(ProgramCommand) /\ c \in Seq(ProgramCommand) /\ d \in Seq(ProgramCommand)
      BY <1>3, <2>1, <2>3
    <3> QED BY <3>1, Joined
  <2> HIDE DEF s
  <2>6. ASSUME NEW i \in 1 .. L PROVE s[i] = CommandAt(o, i)
    <3>1. CASE i <= 2
      BY <1>3, <2>5, <3>1
    <3>2. CASE i > 2 /\ i < L
      <4>1. i - 2 \in 1 .. N /\ 2 + (i - 2) = i
        BY <1>1, <3>2
      <4> QED BY <1>3, <2>1, <2>2, <2>5, <4>1
    <3>3. CASE i = L
      <4>1. 2 + N + 1 = i /\ 1 \in 1 .. 1
        BY <1>1, <3>3
      <4> QED BY <1>3, <2>1, <2>3, <2>5, <3>3, <4>1
    <3> QED BY <1>1, <3>1, <3>2, <3>3
  <2> QED BY <1>1, <1>3, <2>1, <2>3, <2>4, <2>5, <2>6 DEF L
<1> QED BY <1>5, <1>6

(* One command of an operation makes the controller ready for the next.    *)
LEMMA CommandsFollow ==
  ASSUME NEW o \in Operations
  PROVE  /\ \A i \in 1 .. Length(o) : IsCommand(CommandAt(o, i))
         /\ \A i \in 1 .. Length(o) - 1 : MayFollow(CommandAt(o, i), CommandAt(o, i + 1))
         /\ ~Reading(CommandAt(o, Length(o))) /\ IsStart(CommandAt(o, 1))
<1> DEFINE K(i) == CommandAt(o, i)
           L == Length(o)
<1>1. L \in Nat /\ L >= 3 /\ (o.kind = "read" => L >= 4)
  BY OperationShape
<1>2. /\ IsStart(K(1)) /\ ~IsRead(K(1).byte) /\ K(2).bits = {"WR"}
      /\ o.kind = "read" => IsStart(K(3)) /\ IsRead(K(3).byte)
  <2>1. IsStart(SelectToWrite(o)) /\ ~IsRead(SelectToWrite(o).byte)
    <3>1. IsMemory(Select(o.unit, FALSE)) /\ ~IsRead(Select(o.unit, FALSE))
      BY OperationShape, SelectNames, Zenon
    <3>2. /\ SelectToWrite(o).byte = Select(o.unit, FALSE)
          /\ SelectToWrite(o).bits = {"START", "WR"}
      BY DEF SelectToWrite, Cmd
    <3> QED BY <3>1, <3>2, Zenon DEF IsStart
  <2>2. IsStart(SelectToRead(o)) /\ IsRead(SelectToRead(o).byte)
    <3>1. IsMemory(Select(o.unit, TRUE)) /\ IsRead(Select(o.unit, TRUE))
      BY OperationShape, SelectNames, Zenon
    <3>2. /\ SelectToRead(o).byte = Select(o.unit, TRUE)
          /\ SelectToRead(o).bits = {"START", "WR"}
      BY DEF SelectToRead, Cmd
    <3> QED BY <3>1, <3>2, Zenon DEF IsStart
  <2>3. SendAddress(o).bits = {"WR"}
    BY DEF SendAddress, Cmd
  <2> QED BY <2>1, <2>2, <2>3, CommandsOf
<1>3. /\ o.kind = "read" => \A i \in 4 .. L :
                              K(i).bits = IF i = L THEN {"RD", "NACK"} ELSE {"RD"}
      /\ o.kind # "read" => \A i \in 3 .. L :
                              K(i).bits = IF i = L THEN {"STOP", "IACK"} ELSE {"WR"}
  <2>1. /\ ReadLast.bits = {"RD", "NACK"} /\ ReadByte.bits = {"RD"}
        /\ Stop.bits = {"STOP", "IACK"} /\ \A i : SendData(o, i).bits = {"WR"}
    BY DEF ReadLast, ReadByte, Stop, SendData, Cmd
  <2>2. ASSUME o.kind = "read", NEW i \in 4 .. L
        PROVE  K(i).bits = IF i = L THEN {"RD", "NACK"} ELSE {"RD"}
    <3>1. i = L \/ (i # L /\ i \in 4 .. L - 1)
      BY <1>1
    <3>2. i = L => K(i) = ReadLast
      BY <2>2, CommandsOf
    <3>3. i \in 4 .. L - 1 => K(i) = ReadByte
      BY <2>2, CommandsOf
    <3> QED BY <2>1, <3>1, <3>2, <3>3
  <2>3. ASSUME o.kind # "read", NEW i \in 3 .. L
        PROVE  K(i).bits = IF i = L THEN {"STOP", "IACK"} ELSE {"WR"}
    <3>1. i = L \/ (i # L /\ i \in 3 .. L - 1)
      BY <1>1
    <3>2. i = L => K(i) = Stop
      BY <2>3, CommandsOf
    <3>3. i \in 3 .. L - 1 => K(i) = SendData(o, i - 2)
      BY <2>3, CommandsOf
    <3> QED BY <2>1, <3>1, <3>2, <3>3
  <2> QED BY <2>2, <2>3
<1> HIDE DEF K, L
<1>4. ASSUME NEW i \in 1 .. L PROVE IsCommand(K(i))
  <2>1. i = 1 \/ i = 2 \/ i = 3 \/ i \in 4 .. L
    BY <1>1
  <2> QED BY <1>1, <1>2, <1>3, <2>1 DEF IsCommand
<1>5. ASSUME NEW i \in 1 .. L - 1 PROVE MayFollow(K(i), K(i + 1))
  <2>1. i = 1 \/ i = 2 \/ i = 3 \/ i \in 4 .. L - 1
    BY <1>1
  <2>2. CASE i = 1
    BY <1>2, <2>2, ReadingBits DEF MayFollow
  <2>3. CASE o.kind = "read" /\ i = 2
    <3>1. "RD" \notin K(3).bits /\ K(3).bits # {"WR"}
      BY <1>2, <2>3, StartBits
    <3> QED BY <1>2, <2>3, <3>1, ReadingBits DEF MayFollow
  <2>4. CASE o.kind = "read" /\ i >= 3
    <3>1. i + 1 \in 4 .. L
      BY <1>1, <2>4
    <3>2. K(i + 1).bits # {"WR"} /\ "RD" \in K(i + 1).bits
      BY <1>3, <2>4, <3>1
    <3>3. i > 3 => i \in 4 .. L /\ i # L
      BY <1>1
    <3>4. Reading(K(i))
      BY <1>2, <1>3, <2>1, <2>4, <3>3, ReadingBits
    <3> QED BY <3>2, <3>4 DEF MayFollow
  <2>5. CASE o.kind # "read" /\ i >= 2
    <3>1. i + 1 \in 3 .. L /\ i # L /\ (i = 2 \/ i \in 3 .. L)
      BY <1>1, <2>5
    <3>2. "RD" \notin K(i + 1).bits
      BY <1>3, <2>5, <3>1
    <3>3. K(i).bits = {"WR"}
      BY <1>2, <1>3, <2>5, <3>1
    <3> QED BY <3>2, <3>3, ReadingBits DEF MayFollow
  <2> QED BY <2>1, <2>2, <2>3, <2>4, <2>5
<1>6. ~Reading(K(L))
  <2>1. K(L).bits \in {{"RD", "NACK"}, {"STOP", "IACK"}}
    BY <1>1, <1>3
  <2> QED BY <2>1, ReadingBits
<1> QED BY <1>2, <1>4, <1>5, <1>6 DEF K, L

LEMMA ScriptFollows ==
  ASSUME NEW o \in Operations
  PROVE  /\ Script(o) \in Seq(ProgramCommand) /\ Follows(Script(o))
         /\ Script(o) # <<>> /\ IsStart(Head(Script(o)))
<1> DEFINE s == Script(o)
<1>1. /\ s \in Seq(ProgramCommand) /\ Len(s) = Length(o) /\ Length(o) \in Nat /\ Length(o) >= 3
      /\ \A i \in 1 .. Length(o) : s[i] = CommandAt(o, i)
  BY ScriptShape, OperationShape
<1> HIDE DEF s
<1>2. s # <<>> /\ Head(s) = s[1] /\ 1 \in 1 .. Length(o)
  BY <1>1
<1>3. ASSUME NEW i \in 1 .. Length(o) - 1 PROVE MayFollow(s[i], s[i + 1])
  <2>1. i \in 1 .. Length(o) /\ i + 1 \in 1 .. Length(o)
    BY <1>1
  <2> QED BY <1>1, <2>1, CommandsFollow
<1>4. s[Length(o)] = CommandAt(o, Length(o))
  BY <1>1
<1> QED BY <1>1, <1>2, <1>3, <1>4, CommandsFollow DEF Follows, s

LEMMA TailFollows ==
  ASSUME NEW s \in Seq(ProgramCommand), s # <<>>, Follows(s)
  PROVE  /\ IsCommand(Head(s)) /\ Head(s) \in ProgramCommand
         /\ Tail(s) \in Seq(ProgramCommand) /\ Follows(Tail(s))
         /\ Tail(s) # <<>> => MayFollow(Head(s), Head(Tail(s)))
         /\ Tail(s) = <<>> => ~Reading(Head(s))
<1>1. /\ Len(s) \in Nat \ {0} /\ Head(s) = s[1] /\ Head(s) \in ProgramCommand
      /\ Tail(s) \in Seq(ProgramCommand) /\ Len(Tail(s)) = Len(s) - 1
      /\ \A i \in 1 .. Len(Tail(s)) : Tail(s)[i] = s[i + 1]
  BY HeadTailProperties, EmptySeq
<1> DEFINE t == Tail(s)
<1> HIDE DEF t
<1>2. IsCommand(Head(s))
  BY <1>1 DEF Follows
<1>3. ASSUME NEW i \in 1 .. Len(t) PROVE IsCommand(t[i])
  <2>1. i + 1 \in 1 .. Len(s) /\ t[i] = s[i + 1]
    BY <1>1 DEF t
  <2> QED
    BY <2>1 DEF Follows
<1>4. ASSUME NEW i \in 1 .. Len(t) - 1 PROVE MayFollow(t[i], t[i + 1])
  <2>1. /\ i + 1 \in 1 .. Len(s) - 1 /\ t[i] = s[i + 1]
        /\ i + 1 \in 1 .. Len(t) /\ t[i + 1] = s[(i + 1) + 1]
    BY <1>1 DEF t
  <2> QED
    BY <2>1 DEF Follows
<1>5. ASSUME t # <<>> PROVE MayFollow(Head(s), Head(t))
  <2>1. Len(t) \in Nat \ {0} /\ Head(t) = t[1]
    BY <1>1, <1>5, EmptySeq DEF t
  <2>2. 1 \in 1 .. Len(s) - 1 /\ Head(t) = s[1 + 1]
    BY <1>1, <2>1 DEF t
  <2> QED
    BY <1>1, <2>2 DEF Follows
<1>6. ASSUME t = <<>> PROVE ~Reading(Head(s))
  <2>1. Len(t) = 0 /\ Len(t) = Len(s) - 1
    BY <1>1, <1>6, EmptySeq DEF t
  <2>2. Len(s) \in Int
    BY <1>1
  <2>3. Len(s) = 1
    BY <2>1, <2>2
  <2> QED
    BY <1>1, <2>3 DEF Follows
<1>7. ASSUME t # <<>> PROVE ~Reading(t[Len(t)])
  <2>1. /\ Len(t) \in Nat \ {0} /\ Len(t) + 1 = Len(s)
        /\ t[Len(t)] = s[Len(t) + 1]
    BY <1>1, <1>7, EmptySeq DEF t
  <2> QED
    BY <1>1, <2>1 DEF Follows
<1>8. Follows(t)
  BY <1>3, <1>4, <1>7 DEF Follows
<1> QED
  BY <1>1, <1>2, <1>5, <1>6, <1>8 DEF t

(* The invariant makes the next command acceptable.                        *)
LEMMA Accepted ==
  ASSUME DriverInv, loaded = TRUE
  PROVE  LET c == Head(script).bits
         IN /\ Wellformed(c)
            /\ IsTransfer(c) => CanTransfer(IF "START" \in c THEN xmt ELSE slvsel)
<1> DEFINE k == Head(script)
<1>1. /\ IsCommand(k) /\ Admits(k) /\ enabled = TRUE /\ tip = FALSE /\ xmt = k.byte
  BY TailFollows DEF DriverInv
<1> HIDE DEF k
<1> SUFFICES /\ Wellformed(k.bits)
             /\ IsTransfer(k.bits) => CanTransfer(IF "START" \in k.bits THEN xmt ELSE slvsel)
  BY DEF k
<1>2. Settled = mode
  BY <1>1 DEF Settled
<1>3. CASE IsStart(k)
  <2>1. mode # "READ" /\ IsMemory(xmt)
    BY <1>1, <1>2, <1>3, StartBits DEF Admits, IsStart
  <2> QED
    BY <1>1, <1>3, <2>1, StartBits DEF Wellformed, Invalid, WrongMode, CanTransfer
<1>4. CASE k.bits = {"WR"}
  BY <1>1, <1>2, <1>4 DEF Admits, Wellformed, Invalid, WrongMode, CanTransfer
<1>5. CASE k.bits \in {{"RD"}, {"RD", "NACK"}}
  BY <1>1, <1>2, <1>5 DEF Admits, Wellformed, Invalid, WrongMode, CanTransfer
<1>6. CASE k.bits = {"STOP", "IACK"}
  BY <1>1, <1>6 DEF Wellformed, Invalid, WrongMode, IsTransfer
<1> QED
  BY <1>1, <1>3, <1>4, <1>5, <1>6 DEF IsCommand

(* A command of the script starts its transfer, or stops.                  *)
LEMMA IssueCommand ==
  ASSUME DriverInv, Issue
  PROVE  /\ IsTransfer(Head(script).bits) => CmdTransfer(Head(script).bits)
         /\ ~IsTransfer(Head(script).bits) => CmdStop(Head(script).bits)
<1> DEFINE k == Head(script)
<1>1. /\ Wellformed(k.bits) /\ IsCommand(k) /\ Command(k.bits)
      /\ IsTransfer(k.bits) => CanTransfer(IF "START" \in k.bits THEN xmt ELSE slvsel)
  BY Accepted, TailFollows DEF DriverInv, Issue
<1> SUFFICES /\ IsTransfer(k.bits) => CmdTransfer(k.bits)
             /\ ~IsTransfer(k.bits) => CmdStop(k.bits)
  OBVIOUS
<1> HIDE DEF k
<1>2. CASE IsTransfer(k.bits)
  BY <1>1, <1>2
  DEF Command, CmdRefused, CmdTransferRefused, CmdStop, CmdPlain, Wellformed, Start
<1>3. CASE ~IsTransfer(k.bits)
  <2>1. k.bits = {"STOP", "IACK"}
    BY <1>1, <1>3 DEF IsCommand, IsStart, IsTransfer
  <2> QED
    BY <1>1, <1>3, <2>1
    DEF Command, CmdRefused, CmdTransferRefused, CmdTransfer, CmdPlain, Wellformed
<1> QED BY <1>2, <1>3

(* A command of the script leaves the controller ready for the next.       *)
LEMMA IssueKeeps == DriverInv /\ Issue => DriverInv'
<1> SUFFICES ASSUME DriverInv, Issue PROVE DriverInv'
  OBVIOUS
<1> DEFINE k == Head(script)
           t == Tail(script)
<1>1. /\ loaded = TRUE /\ tip = FALSE /\ pending = {} /\ script # <<>>
      /\ xmt = k.byte /\ enabled = TRUE /\ op # None /\ mode \in Modes
      /\ IsCommand(k) /\ Admits(k) /\ Settled = mode
      /\ t \in Seq(ProgramCommand) /\ Follows(t)
      /\ t # <<>> => MayFollow(k, Head(t))
      /\ t = <<>> => ~Reading(k)
  BY TailFollows DEF DriverInv, Issue, Settled
<1>2. /\ IsTransfer(k.bits) => CmdTransfer(k.bits)
      /\ ~IsTransfer(k.bits) => CmdStop(k.bits)
  BY IssueCommand
<1>3. /\ Command(k.bits) /\ script' = t /\ loaded' = FALSE /\ op' = op
  BY DEF Issue
<1> HIDE DEF k, t
<1>4. enabled' = TRUE
  BY <1>1, <1>3
  DEF Command, CmdRefused, CmdTransferRefused, CmdTransfer, CmdStop, CmdPlain
<1>5. CASE IsTransfer(k.bits)
  <2>1. CmdTransfer(k.bits)
    BY <1>2, <1>5
  <2>2. /\ pending' = {Dimm(slvsel')} /\ tip' = TRUE
        /\ nackCmd' = ("NACK" \in k.bits)
        /\ slvsel' = IF "START" \in k.bits THEN k.byte ELSE slvsel
        /\ mode' = IF "START" \in k.bits THEN "IDLE" ELSE mode
    BY <1>1, <2>1 DEF CmdTransfer, Start
  <2>3. /\ Settled' = "READ" <=> Reading(k)
        /\ IsStart(k) \/ k.bits \in {{"WR"}, {"RD"}} => IsMemory(slvsel')
        /\ (IsStart(k) /\ ~IsRead(k.byte)) \/ k.bits = {"WR"} =>
             Settled' \in {"WRADR", "WRDAT1", "WRDATN"}
    <3>1. CASE IsStart(k)
      <4>1. Settled' = (IF IsRead(k.byte) THEN "READ" ELSE "WRADR") /\ slvsel' = k.byte
        BY <2>2, <3>1, StartBits DEF Settled, AfterServe
      <4>2. k.bits # {"RD"} /\ k.bits # {"WR"} /\ IsMemory(k.byte)
        BY <3>1, StartBits DEF IsStart
      <4> QED
        BY <3>1, <4>1, <4>2, ReadingBits
    <3>2. CASE k.bits = {"WR"}
      <4>1. mode \in {"WRADR", "WRDAT1", "WRDATN"} /\ IsMemory(slvsel)
        BY <1>1, <3>2 DEF Admits
      <4>2. Settled' \in {"WRADR", "WRDAT1", "WRDATN"} /\ IsMemory(slvsel')
        BY <2>2, <3>2, <4>1 DEF Settled, AfterServe
      <4>3. ~Reading(k)
        BY <3>2, ReadingBits
      <4> QED
        BY <4>2, <4>3
    <3>3. CASE k.bits = {"RD"}
      <4>1. mode = "READ" /\ IsMemory(slvsel)
        BY <1>1, <3>3 DEF Admits
      <4>2. Settled' = "READ" /\ IsMemory(slvsel')
        BY <2>2, <3>3, <4>1 DEF Settled, AfterServe
      <4> QED
        BY <3>3, <4>2, ReadingBits DEF IsStart
    <3>4. CASE k.bits = {"RD", "NACK"}
      <4>1. mode = "READ"
        BY <1>1, <3>4 DEF Admits
      <4>2. Settled' = "IDLE"
        BY <2>2, <3>4, <4>1 DEF Settled, AfterServe
      <4> QED
        BY <3>4, <4>2, ReadingBits DEF IsStart
    <3>5. k.bits # {"STOP", "IACK"}
      BY <1>5 DEF IsTransfer
    <3> QED
      BY <1>1, <3>1, <3>2, <3>3, <3>4, <3>5 DEF IsCommand
  <2>4. ASSUME t # <<>> PROVE Admits(Head(script))'
    <3>1. MayFollow(k, Head(t)) /\ Head(script') = Head(t)
      BY <1>1, <1>3, <2>4
    <3>2. Reading(k) => IsStart(k) \/ k.bits = {"RD"}
      BY DEF Reading
    <3> QED
      BY <2>3, <3>1, <3>2 DEF Admits, MayFollow
  <2>5. ASSUME t = <<>> PROVE Settled' # "READ"
    BY <1>1, <2>3, <2>5
  <2> QED
    BY <1>1, <1>3, <1>4, <2>2, <2>4, <2>5 DEF DriverInv, Modes
<1>6. CASE ~IsTransfer(k.bits)
  <2>1. k.bits = {"STOP", "IACK"}
    BY <1>1, <1>6 DEF IsCommand, IsStart, IsTransfer
  <2>2. CmdStop(k.bits)
    BY <1>2, <1>6
  <2>3. pending' = {} /\ tip' = FALSE /\ mode' = "IDLE"
    BY <1>1, <2>2 DEF CmdStop
  <2>4. ASSUME t # <<>> PROVE Admits(Head(script))'
    <3>1. "RD" \notin Head(t).bits /\ Head(t).bits # {"WR"}
      BY <1>1, <2>1, <2>4, ReadingBits DEF MayFollow, IsStart
    <3> QED
      BY <1>3, <2>3, <3>1 DEF Admits, Settled
  <2> QED
    BY <1>1, <1>3, <1>4, <2>3, <2>4 DEF DriverInv, Modes, Settled
<1> QED
  BY <1>5, <1>6

(* An event takes i2c_state where the command was going to take it.        *)
LEMMA ServeKeeps ==
  ASSUME DriverInv, NEW u \in Units, Serve(u), UNCHANGED driver
  PROVE  DriverInv'
<1>1. tip = TRUE /\ pending = {u} /\ mode \in Modes
  <2>1. u \in pending
    BY DEF Serve, ServeSelect, ServeRead, ServeAddress, ServePageEnd, ServeWrite, Served
  <2> QED
    BY <2>1 DEF DriverInv
<1>2. Served(u)
  BY DEF Serve, ServeSelect, ServeRead, ServeAddress, ServePageEnd, ServeWrite
<1>3. pending' = {} /\ tip' = FALSE /\ UNCHANGED <<enabled, xmt, nackCmd, slvsel>>
  BY <1>1, <1>2 DEF Served
<1>4. mode' = AfterServe
  BY <1>1 DEF Serve, ServeSelect, ServeRead, ServeAddress, ServePageEnd, ServeWrite,
              AfterServe, Modes
<1>5. Settled' = Settled
  BY <1>1, <1>3, <1>4 DEF Settled
<1>6. mode' \in Modes
  BY <1>4 DEF AfterServe, Modes
<1>7. ASSUME script # <<>> PROVE Admits(Head(script))'
  BY <1>3, <1>5, <1>7 DEF DriverInv, Admits, driver
<1> QED
  BY <1>1, <1>3, <1>5, <1>6, <1>7 DEF DriverInv, driver

(* The rest of the program, and the events between its steps.              *)
LEMMA DriverStep == DriverInv /\ [NextDriver]_allVars => DriverInv'
<1> SUFFICES ASSUME DriverInv, [NextDriver]_allVars PROVE DriverInv'
  OBVIOUS
<1> USE DEF DriverInv
<1>1. CASE Enable
  BY <1>1 DEF Enable, WriteCtl, driver, status, Admits, Settled, AfterServe
<1>2. ASSUME NEW o \in Operations, Begin(o) PROVE DriverInv'
  <2>1. /\ script' = Script(o) /\ op' = o /\ o # None /\ enabled = TRUE
        /\ loaded' = loaded /\ UNCHANGED vars
    BY <1>2, OperationAssumption DEF Begin
  <2>2. loaded = FALSE
    BY <1>2 DEF Begin
  <2>3. /\ script' \in Seq(ProgramCommand) /\ Follows(script') /\ IsStart(Head(script'))
        /\ script' # <<>>
    BY <2>1, ScriptFollows
  <2>4. Admits(Head(script))'
    <3>1. "RD" \notin Head(script').bits /\ Head(script').bits # {"WR"}
      BY <2>3, StartBits
    <3>2. Settled' = Settled /\ Settled # "READ"
      BY <1>2, <2>1 DEF Begin, vars, status, Settled, AfterServe
    <3> QED
      BY <3>1, <3>2 DEF Admits
  <2> QED
    BY <2>1, <2>2, <2>3, <2>4 DEF vars, status
<1>3. CASE Load
  BY <1>3 DEF Load, Ready, WriteXmt, status, Admits, Settled, AfterServe
<1>4. CASE Issue
  BY <1>4, IssueKeeps
<1>5. CASE Collect
  BY <1>5 DEF Collect, vars, status, Admits, Settled, AfterServe
<1>6. CASE Finish
  BY <1>6 DEF Finish, vars, status, Settled, AfterServe
<1>7. ASSUME NEW u \in Units, Serve(u) /\ UNCHANGED driver PROVE DriverInv'
  BY <1>7, ServeKeeps
<1>8. CASE UNCHANGED allVars
  BY <1>8 DEF allVars, vars, driver, status, Admits, Settled, AfterServe
<1> QED
  BY <1>1, <1>2, <1>3, <1>4, <1>5, <1>6, <1>7, <1>8 DEF NextDriver, Program

(* It starts with nothing to do.                                           *)
LEMMA InitFollows == InitDriver => DriverInv
<1> SUFFICES ASSUME InitDriver PROVE DriverInv
  OBVIOUS
<1>1. loaded = FALSE /\ tip = FALSE
  BY Zenon DEF InitDriver, Init
<1>2. script = <<>> /\ pending = {} /\ mode = "IDLE"
  BY DEF InitDriver, Init
<1>3. Follows(script)
  BY <1>2 DEF Follows
<1>4. script \in Seq(ProgramCommand)
  BY <1>2, EmptySeq
<1>5. loaded \in BOOLEAN /\ tip \in BOOLEAN /\ loaded # TRUE
  BY <1>1
<1> QED
  BY <1>1, <1>2, <1>3, <1>4, <1>5 DEF DriverInv, Modes, Settled

(* A program that waits for TIP and keeps to its page is never refused, of *)
(* whatever operations it is made, and wherever the events fall.           *)
THEOREM DriverAccepted == SpecDriver => []NeverRefused
<1>1. DriverInv => NeverRefused
  BY Accepted DEF NeverRefused, DriverInv
<1> QED
  BY <1>1, InitFollows, DriverStep, PTL DEF SpecDriver
-----------------------------------------------------------------------------
(* How far the operation under way has come: the commands given, and those *)
(* whose transfer has ended.                                               *)
Given == Length(op) - Len(script)
Ended == IF tip = TRUE THEN Given - 1 ELSE Given
Reads == op.kind = "read"

(* The bytes transferred: the first comes with the third or fourth command *)
Before == IF Reads THEN 3 ELSE 2
Moved == IF Ended <= Before THEN 0
         ELSE IF Ended - Before <= Count(op) THEN Ended - Before ELSE Count(op)

(* i2c_state once that many commands have ended.                           *)
ModeAfter(o, n) ==
  IF n = 1 THEN "WRADR" ELSE IF n = 2 THEN "WRDAT1"
  ELSE IF n = Length(o) THEN "IDLE" ELSE IF o.kind = "read" THEN "READ" ELSE "WRDATN"

Selecting == Given = 1 \/ (Reads /\ Given = 3)

(* The controller is where the commands given have brought it.             *)
AtWork ==
  /\ Given \in 0 .. Length(op)
  /\ \A i \in 1 .. Len(script) : script[i] = CommandAt(op, Given + i)
  /\ tip = TRUE =>
       /\ Given >= 1 /\ pending = {op.unit}
       /\ xmt = CommandAt(op, Given).byte
       /\ nackCmd = ("NACK" \in CommandAt(op, Given).bits)
       /\ ~Reads => Given < Length(op)
  /\ Given >= 1 =>
       /\ slvsel = IF Reads /\ Given >= 3 THEN SelectToRead(op).byte ELSE SelectToWrite(op).byte
       /\ mode = IF tip = TRUE /\ Selecting THEN "IDLE" ELSE ModeAfter(op, Ended)

(* A read has collected what the EEPROM holds from its address on.         *)
ReadSoFar ==
  /\ issued = {"RD"} => Given > 3
  /\ tip = TRUE /\ Given > 3 => issued = {"RD"}
  /\ Len(got) = IF issued = {"RD"} /\ tip # TRUE THEN Moved - 1 ELSE Moved
  /\ \A i \in 1 .. Len(got) : got[i] = rom[op.unit][(op.addr + i - 1) % Size]
  /\ issued = {"RD"} /\ tip # TRUE => rcv = rom[op.unit][(op.addr + Moved - 1) % Size]
  /\ Ended >= 2 => ap[op.unit] = (op.addr + Moved) % Size

(* A write has stored the bytes it was given, but for the protected ones.  *)
WrittenSoFar ==
  /\ got = <<>> /\ issued = {}
  /\ Ended >= 2 => ap[op.unit] = op.addr + Moved
  /\ \A u \in Units, a \in Addresses :
       rom[u][a] =
         IF u = op.unit /\ a >= ProtLim /\ op.addr <= a /\ a < op.addr + Moved
           THEN op.data[a - op.addr + 1] ELSE saved[u][a]

DataTyped ==
  /\ rom \in [Units -> [Addresses -> Bytes]] /\ saved \in [Units -> [Addresses -> Bytes]]
  /\ ap \in [Units -> 0 .. Size] /\ swp = [u \in Units |-> TRUE]
  /\ got \in Seq(Bytes) /\ issued \in {{}, {"RD"}}

DataInv ==
  /\ DataTyped
  /\ loaded = TRUE => issued = {}
  /\ op = None => script = <<>> /\ issued = {} /\ tip # TRUE /\ pending = {}
  /\ op # None => op \in Operations /\ AtWork /\ (IF Reads THEN ReadSoFar ELSE WrittenSoFar)


(* Quotients and remainders.                                               *)
LEMMA Division ==
  ASSUME NEW a \in Nat, NEW b \in Nat \ {0}
  PROVE  /\ a \div b \in Nat /\ a % b \in Nat /\ a % b < b
         /\ a = (b * (a \div b)) + (a % b)
BY Z3

LEMMA Remainder ==
  ASSUME NEW b \in Nat \ {0}, NEW q \in Nat, NEW r \in Nat, r < b
  PROVE  ((b * q) + r) % b = r
OBVIOUS

LEMMA WithinBlock ==
  ASSUME NEW a \in Nat, NEW b \in Nat \ {0}, NEW j \in Nat, (a % b) + j < b
  PROVE  (a + j) % b = (a % b) + j
<1> DEFINE q == a \div b
           r == a % b
<1>1. q \in Nat /\ r \in Nat /\ r + j < b /\ a = (b * q) + r
  BY Division
<1> HIDE DEF q, r
<1>2. a + j = (b * q) + (r + j)
  BY <1>1
<1>3. r + j \in Nat
  BY <1>1
<1>4. ((b * q) + (r + j)) % b = r + j
  BY <1>1, <1>3, Remainder
<1> QED BY <1>2, <1>4 DEF r

LEMMA NextRemainder ==
  ASSUME NEW a \in Nat, NEW b \in Nat \ {0}
  PROVE  (a + 1) % b = IF (a % b) + 1 >= b THEN 0 ELSE (a % b) + 1
<1> DEFINE q == a \div b
           r == a % b
<1>1. q \in Nat /\ r \in Nat /\ r < b /\ a = (b * q) + r
  BY Division
<1> HIDE DEF q, r
<1>2. CASE r + 1 < b
  <2>1. a + 1 = (b * q) + (r + 1) /\ r + 1 \in Nat
    BY <1>1
  <2>2. ((b * q) + (r + 1)) % b = r + 1
    BY <1>1, <1>2, <2>1, Remainder
  <2> QED BY <1>1, <1>2, <2>1, <2>2 DEF r
<1>3. CASE r + 1 = b
  <2>1. a + 1 = (b * (q + 1)) + 0
    BY <1>1, <1>3
  <2>2. ((b * (q + 1)) + 0) % b = 0
    BY <1>1, Remainder
  <2> QED BY <1>1, <1>3, <2>1, <2>2 DEF r
<1> QED BY <1>1, <1>2, <1>3

(* A write that stays in its page stays in the EEPROM, and of its bytes    *)
(* only the first can be the first of a page.                              *)
LEMMA PageFits ==
  ASSUME NEW a \in Addresses, NEW n \in Nat, (a % PageSize) + n <= PageSize
  PROVE  /\ a + n <= Size
         /\ \A j \in 1 .. n - 1 : ~NewPage(a + j)
<1> DEFINE q == a \div PageSize
           r == a % PageSize
           m == Size \div PageSize
<1>1. a \in Nat /\ a < Size /\ Size \in Nat /\ PageSize \in Nat \ {0}
  BY DEF Addresses
<1>2. q \in Nat /\ r \in Nat /\ r < PageSize /\ a = (PageSize * q) + r
  BY <1>1, Division
<1>3. m \in Nat /\ Size = PageSize * m
  <2>1. m \in Nat /\ Size = (PageSize * m) + (Size % PageSize)
    BY <1>1, Division
  <2>2. Size % PageSize = 0
    BY I2cAssumption, Zenon
  <2> HIDE DEF m
  <2> QED BY <1>1, <2>1, <2>2
<1> HIDE DEF q, r, m
<1>4. q + 1 <= m
  <2>1. CASE m <= q
    <3>1. PageSize * m <= PageSize * q
      BY <1>1, <1>2, <1>3, <2>1, Z3
    <3> QED BY <1>1, <1>2, <1>3, <3>1
  <2> QED BY <1>2, <1>3, <2>1
<1>5. (PageSize * q) + PageSize <= PageSize * m
  BY <1>1, <1>2, <1>3, <1>4, Z3
<1>6. a + n <= Size
  BY <1>1, <1>2, <1>3, <1>5 DEF r
<1>7. ASSUME NEW j \in 1 .. n - 1 PROVE ~NewPage(a + j)
  <2>1. j \in Nat /\ (a % PageSize) + j < PageSize
    BY <1>1, <1>2 DEF r
  <2>2. (a + j) % PageSize = (a % PageSize) + j
    BY <1>1, <2>1, WithinBlock, Zenon
  <2>3. (a % PageSize) + j # 0
    <3>1. a % PageSize \in Nat /\ j >= 1
      BY <1>2 DEF r
    <3> HIDE <2>2
    <3> QED BY <3>1
  <2> QED BY <2>2, <2>3 DEF NewPage
<1> QED BY <1>6, <1>7
-----------------------------------------------------------------------------
LEMMA Counting ==
  ASSUME op \in Operations, Given \in 0 .. Length(op)
  PROVE  /\ Count(op) \in Nat /\ Length(op) = 3 + Count(op) /\ Given \in Nat /\ Given <= Length(op)
         /\ Before = (IF Reads THEN 3 ELSE 2)
         /\ Moved \in 0 .. Count(op) /\ (Reads => Count(op) >= 1)
<1>1. Count(op) \in Nat /\ Length(op) = 3 + Count(op) /\ (Reads => Count(op) >= 1)
  BY OperationShape DEF Reads
<1>2. Given \in Nat /\ Given <= Length(op)
  BY <1>1
<1>3. Ended = Given \/ Ended = Given - 1
  BY DEF Ended
<1> QED BY <1>1, <1>2, <1>3 DEF Moved, Before

(* The operation begins with no command given and no byte transferred.     *)
LEMMA BeginData ==
  ASSUME DataInv, NEW o \in Operations, Begin(o)
  PROVE  DataInv'
<1>1. /\ op' = o /\ script' = Script(o) /\ got' = <<>> /\ saved' = rom /\ op = None
      /\ UNCHANGED <<vars, loaded, issued>>
  BY DEF Begin
<1>2. issued' = {} /\ tip' # TRUE /\ rom' = rom
  BY <1>1 DEF DataInv, vars, status, roms
<1>3. Length(op') \in Nat /\ Count(op') \in Nat
  BY <1>1, OperationShape
<1>4. Given' = 0 /\ Ended' = 0
  <2>1. Len(script') = Length(op')
    BY <1>1, ScriptShape
  <2>2. Given' = 0
    BY <1>3, <2>1 DEF Given
  <2> QED BY <1>2, <2>2 DEF Ended
<1>5. Moved' = 0
  BY <1>3, <1>4 DEF Moved, Before
<1>6. AtWork'
  <2>1. \A i \in 1 .. Len(script') : script'[i] = CommandAt(op', Given' + i)
    <3>1. Len(script') = Length(o) /\ \A i \in 1 .. Length(o) : script'[i] = CommandAt(o, i)
      BY <1>1, ScriptShape
    <3>2. \A i \in 1 .. Length(o) : Given' + i = i
      BY <1>1, <1>3, <1>4
    <3> QED BY <1>1, <3>1, <3>2
  <2>2. Given' \in 0 .. Length(op') /\ ~(Given' >= 1)
    BY <1>3, <1>4
  <2> QED BY <1>2, <2>1, <2>2 DEF AtWork
<1>7. ReadSoFar' /\ WrittenSoFar'
  <2>1. \A a \in Addresses : a \in Int
    BY DEF Addresses
  <2>2. op'.addr \in Int
    BY <1>1, OperationShape
  <2>3. Len(got') = 0
    BY <1>1
  <2>4. ReadSoFar'
    <3>1. issued' # {"RD"} /\ ~(Ended' >= 2) /\ 1 .. Len(got') = {}
      BY <1>2, <1>4, <2>3
    <3> QED BY <1>2, <1>5, <2>3, <3>1 DEF ReadSoFar
  <2>5. WrittenSoFar'
    BY <1>1, <1>2, <1>4, <1>5, <2>1, <2>2 DEF WrittenSoFar
  <2> QED BY <2>4, <2>5
<1>8. DataTyped'
  BY <1>1 DEF DataInv, DataTyped, vars, roms
<1> QED BY <1>1, <1>2, <1>6, <1>7, <1>8, OperationShape DEF DataInv, vars

(* Loading a byte and ending an operation move nothing.                    *)
LEMMA StillData ==
  ASSUME DataInv, DriverInv, Enable \/ Load \/ Finish \/ UNCHANGED allVars
  PROVE  DataInv'
<1>1. UNCHANGED <<rom, saved, ap, swp, got, issued, script, tip, pending, rcv>>
  BY DEF Enable, WriteCtl, Load, WriteXmt, Finish, vars, status, roms, driver, allVars
<1>2. DataTyped'
  BY <1>1 DEF DataInv, DataTyped
<1>3. CASE Enable \/ UNCHANGED allVars
  <2>1. UNCHANGED <<op, loaded, slvsel, mode, xmt, nackCmd>>
    BY <1>3 DEF Enable, WriteCtl, vars, driver, allVars
  <2>2. UNCHANGED <<Given, Ended, Reads, Moved>>
    BY <1>1, <2>1 DEF Given, Ended, Reads, Moved, Before
  <2>3. UNCHANGED <<AtWork, ReadSoFar, WrittenSoFar>>
    BY <1>1, <2>1, <2>2 DEF AtWork, ReadSoFar, WrittenSoFar, ModeAfter, Selecting
  <2> QED BY <1>1, <1>2, <2>1, <2>2, <2>3 DEF DataInv
<1>4. CASE Load
  <2>1. UNCHANGED <<op, slvsel, mode, nackCmd>> /\ tip # TRUE /\ issued = {} /\ op # None
    BY <1>4 DEF Load, Ready, WriteXmt, DriverInv
  <2>2. UNCHANGED <<Given, Ended, Reads, Moved>>
    BY <1>1, <2>1 DEF Given, Ended, Reads, Moved, Before
  <2>3. UNCHANGED <<ReadSoFar, WrittenSoFar>>
    BY <1>1, <2>1, <2>2 DEF ReadSoFar, WrittenSoFar
  <2>4. AtWork => AtWork'
    BY <1>1, <2>1, <2>2 DEF AtWork, ModeAfter, Selecting
  <2> QED BY <1>1, <1>2, <2>1, <2>2, <2>3, <2>4 DEF DataInv
<1>5. CASE Finish
  <2>1. /\ op' = None /\ script' = <<>> /\ tip' # TRUE /\ issued' = {}
        /\ loaded' # TRUE /\ pending' = {}
    BY <1>1, <1>5 DEF Finish, Ready, DriverInv
  <2> QED BY <1>2, <2>1 DEF DataInv
<1> QED BY <1>3, <1>4, <1>5
(* The bits and the byte of a command.                                     *)
LEMMA CommandParts ==
  ASSUME NEW o \in Operations, NEW n \in 1 .. Length(o)
  PROVE  LET k == CommandAt(o, n)
         IN /\ "START" \in k.bits <=> n = 1 \/ (o.kind = "read" /\ n = 3)
            /\ "RD" \in k.bits <=> o.kind = "read" /\ n > 3
            /\ "NACK" \in k.bits <=> o.kind = "read" /\ n = Length(o)
            /\ IsTransfer(k.bits) <=> o.kind = "read" \/ n < Length(o)
            /\ n = 1 => k.byte = SelectToWrite(o).byte
            /\ n = 2 => k.byte = o.addr
            /\ o.kind = "read" /\ n = 3 => k.byte = SelectToRead(o).byte
            /\ o.kind # "read" /\ n >= 3 /\ n < Length(o) => k.byte = o.data[n - 2]
<1> DEFINE k == CommandAt(o, n)
<1>1. Length(o) \in Nat /\ Length(o) >= 3 /\ (o.kind = "read" => Length(o) >= 4)
  BY OperationShape
<1>2. /\ SelectToWrite(o).bits = {"START", "WR"} /\ SelectToRead(o).bits = {"START", "WR"}
      /\ SendAddress(o).bits = {"WR"} /\ SendAddress(o).byte = o.addr
      /\ \A i : SendData(o, i).bits = {"WR"} /\ SendData(o, i).byte = o.data[i]
      /\ ReadByte.bits = {"RD"} /\ ReadLast.bits = {"RD", "NACK"} /\ Stop.bits = {"STOP", "IACK"}
  BY DEF SelectToWrite, SelectToRead, SendAddress, SendData, ReadByte, ReadLast, Stop, Cmd
<1>3. CASE n = 1
  BY <1>1, <1>2, <1>3, CommandsOf DEF IsTransfer
<1>4. CASE n = 2
  BY <1>1, <1>2, <1>4, CommandsOf DEF IsTransfer
<1>5. CASE o.kind = "read" /\ n = 3
  BY <1>1, <1>2, <1>5, CommandsOf DEF IsTransfer
<1>6. CASE o.kind = "read" /\ n > 3
  <2>1. k = IF n = Length(o) THEN ReadLast ELSE ReadByte
    BY <1>1, <1>6 DEF CommandAt
  <2> QED BY <1>1, <1>2, <1>6, <2>1 DEF IsTransfer
<1>7. CASE o.kind # "read" /\ n >= 3
  <2>1. k = IF n = Length(o) THEN Stop ELSE SendData(o, n - 2)
    BY <1>1, <1>7 DEF CommandAt
  <2>2. IF n = Length(o) THEN k.bits = {"STOP", "IACK"}
        ELSE k.bits = {"WR"} /\ k.byte = o.data[n - 2]
    BY <1>2, <2>1
  <2> HIDE DEF k
  <2>3. /\ "START" \notin k.bits /\ "RD" \notin k.bits /\ "NACK" \notin k.bits
        /\ IsTransfer(k.bits) <=> n # Length(o)
        /\ n < Length(o) => k.byte = o.data[n - 2]
    BY <1>1, <2>2 DEF IsTransfer
  <2>4. n # Length(o) <=> n < Length(o)
    BY <1>1
  <2> QED BY <1>7, <2>3, <2>4 DEF k
<1> QED BY <1>1, <1>3, <1>4, <1>5, <1>6, <1>7

(* The slave selects of an operation name its unit.                        *)
LEMMA SelectsUnit ==
  ASSUME NEW o \in Operations
  PROVE  /\ Dimm(SelectToWrite(o).byte) = o.unit /\ ~IsRead(SelectToWrite(o).byte)
         /\ Dimm(SelectToRead(o).byte) = o.unit /\ IsRead(SelectToRead(o).byte)
<1>1. o.unit \in 0 .. 7
  BY OperationShape DEF Units
<1>2. /\ SelectToWrite(o).byte = Select(o.unit, FALSE)
      /\ SelectToRead(o).byte = Select(o.unit, TRUE)
  BY DEF SelectToWrite, SelectToRead, Cmd
<1>3. Dimm(Select(o.unit, FALSE)) = o.unit /\ ~IsRead(Select(o.unit, FALSE))
  BY <1>1 DEF Select, Dimm, IsRead
<1>4. Dimm(Select(o.unit, TRUE)) = o.unit /\ IsRead(Select(o.unit, TRUE))
  BY <1>1 DEF Select, Dimm, IsRead
<1> QED BY <1>2, <1>3, <1>4

(* The bytes collected are the bytes read.                                 *)
LEMMA CollectData ==
  ASSUME DataInv, DriverInv, Collect
  PROVE  DataInv'
<1>1. /\ UNCHANGED <<rom, saved, ap, swp, op, script, tip, pending, rcv, mode, xmt, nackCmd,
                      slvsel, loaded>>
      /\ got' = Append(got, rcv) /\ issued # {} /\ issued' = {}
  BY DEF Collect, vars, status, roms
<1>2. /\ tip # TRUE /\ issued = {"RD"} /\ op # None /\ op \in Operations
      /\ Reads /\ AtWork /\ ReadSoFar
  BY <1>1 DEF DataInv, DataTyped, Collect, WrittenSoFar, DriverInv
<1>3. UNCHANGED <<Given, Ended, Reads, Moved, AtWork>>
  BY <1>1 DEF Given, Ended, Reads, Moved, Before, AtWork, ModeAfter, Selecting
<1>4. /\ op.addr \in Nat /\ op.unit \in Units /\ Size \in Nat \ {0}
      /\ Given \in Nat /\ Moved \in Nat
  BY <1>2, OperationShape, Counting DEF AtWork, Addresses
<1>5. /\ got \in Seq(Bytes) /\ Len(got) = Moved - 1 /\ Moved >= 1
      /\ rcv = rom[op.unit][(op.addr + Moved - 1) % Size]
  <2>1. got \in Seq(Bytes) /\ Len(got) \in Nat
    BY LenProperties DEF DataInv, DataTyped
  <2> QED BY <1>2, <1>4, <2>1 DEF ReadSoFar
<1>6. rcv \in Bytes
  <2>1. (op.addr + Moved - 1) % Size \in Addresses
    <3>1. op.addr + Moved - 1 \in Nat
      BY <1>4, <1>5
    <3> QED BY <1>4, <3>1, Division DEF Addresses
  <2> QED BY <1>4, <1>5, <2>1 DEF DataInv, DataTyped
<1>7. /\ got' \in Seq(Bytes) /\ Len(got') = Moved
      /\ \A i \in 1 .. Len(got) : got'[i] = got[i]
      /\ got'[Moved] = rcv
  BY <1>1, <1>4, <1>5, <1>6, AppendProperties
<1>8. ASSUME NEW i \in 1 .. Len(got') PROVE got'[i] = rom[op.unit][(op.addr + i - 1) % Size]
  <2>1. CASE i = Moved
    BY <1>5, <1>7, <2>1
  <2>2. CASE i # Moved
    <3>1. i \in 1 .. Len(got)
      BY <1>4, <1>5, <1>7, <2>2
    <3> QED BY <1>2, <1>7, <3>1 DEF ReadSoFar
  <2> QED BY <2>1, <2>2
<1>9. issued' # {"RD"}
  BY <1>1
<1>10. ReadSoFar'
  BY <1>1, <1>2, <1>3, <1>7, <1>8, <1>9 DEF ReadSoFar
<1> QED BY <1>1, <1>2, <1>3, <1>7, <1>10 DEF DataInv, DataTyped
(* A command given is the next of the operation, and transfers nothing yet.*)
LEMMA IssueData ==
  ASSUME DataInv, DriverInv, Issue
  PROVE  DataInv'
<1> DEFINE k == Head(script)
           n == Given + 1
<1>1. /\ loaded = TRUE /\ tip = FALSE /\ issued = {} /\ script # <<>> /\ op # None
      /\ xmt = k.byte /\ script \in Seq(ProgramCommand)
  BY DEF DriverInv, DataInv, Issue
<1>2. op \in Operations /\ AtWork /\ Given \in 0 .. Length(op)
      /\ (IF Reads THEN ReadSoFar ELSE WrittenSoFar)
  BY <1>1 DEF DataInv, AtWork
<1>3. /\ Count(op) \in Nat /\ Length(op) = 3 + Count(op) /\ Given \in Nat
      /\ Before = (IF Reads THEN 3 ELSE 2) /\ Moved \in 0 .. Count(op) /\ (Reads => Count(op) >= 1)
  BY <1>2, Counting
<1>4. /\ Len(script) \in Nat \ {0} /\ k = script[1] /\ Len(Tail(script)) = Len(script) - 1
      /\ \A i \in 1 .. Len(script) - 1 : Tail(script)[i] = script[i + 1]
  BY <1>1, HeadTailProperties, EmptySeq
<1>5. n \in 1 .. Length(op) /\ k = CommandAt(op, n)
  <2>1. Len(script) = Length(op) - Given
    BY <1>3, <1>4 DEF Given
  <2> QED BY <1>2, <1>3, <1>4, <2>1 DEF AtWork
<1>6. /\ op' = op /\ got' = got /\ saved' = saved /\ loaded' = FALSE /\ script' = Tail(script)
      /\ issued' = k.bits \cap {"RD"}
  BY DEF Issue
<1>7. Given' = n /\ Reads' = Reads /\ Before' = Before
  BY <1>3, <1>4, <1>6 DEF Given, Reads, Before
<1>8. Ended = Given
  BY <1>1 DEF Ended
<1>9. \A i \in 1 .. Len(script') : script'[i] = CommandAt(op', Given' + i)
  <2> SUFFICES ASSUME NEW i \in 1 .. Len(script) - 1
               PROVE  Tail(script)[i] = CommandAt(op, n + i)
    BY <1>4, <1>6, <1>7
  <2>1. i + 1 \in 1 .. Len(script) /\ Given + (i + 1) = n + i
    BY <1>3, <1>4
  <2> QED BY <1>2, <1>4, <2>1 DEF AtWork
<1>10. issued' = IF Reads /\ n > 3 THEN {"RD"} ELSE {}
  BY <1>2, <1>5, <1>6, CommandParts DEF Reads
<1> HIDE DEF k, n
<1>11. CASE IsTransfer(k.bits)
  <2>1. CmdTransfer(k.bits)
    BY <1>11, IssueCommand DEF k
  <2>2. /\ tip' = TRUE /\ nackCmd' = ("NACK" \in k.bits)
        /\ slvsel' = (IF "START" \in k.bits THEN xmt ELSE slvsel)
        /\ mode' = (IF "START" \in k.bits THEN "IDLE" ELSE mode)
        /\ pending' = pending \cup {Dimm(slvsel')}
        /\ UNCHANGED <<xmt, rcv, ap, swp, rom>>
    BY <2>1 DEF CmdTransfer, Start, roms
  <2>3. pending = {}
    BY <1>1 DEF DriverInv
  <2>4. Ended' = Ended /\ Moved' = Moved
    <3>1. Ended' = Ended
      BY <1>3, <1>7, <1>8, <2>2 DEF Ended, n
    <3> QED BY <1>6, <1>7, <3>1 DEF Moved
  <2>5. "START" \in k.bits <=> n = 1 \/ (Reads /\ n = 3)
    BY <1>2, <1>5, CommandParts DEF Reads
  <2>6. slvsel' = IF Reads /\ n >= 3 THEN SelectToRead(op).byte ELSE SelectToWrite(op).byte
    <3>1. CASE n = 1
      BY <1>1, <1>2, <1>5, <2>2, <2>5, <3>1, CommandParts
    <3>2. CASE Reads /\ n = 3
      BY <1>1, <1>2, <1>5, <2>2, <2>5, <3>2, CommandParts DEF Reads
    <3>3. CASE n # 1 /\ ~(Reads /\ n = 3)
      <4>1. slvsel' = slvsel /\ Given >= 1 /\ (Reads => (n >= 3 <=> Given >= 3))
        BY <1>3, <2>2, <2>5, <3>3 DEF n
      <4> QED BY <1>2, <1>3, <4>1 DEF AtWork, n
    <3> QED BY <3>1, <3>2, <3>3
  <2>7. mode' = IF tip' = TRUE /\ Selecting' THEN "IDLE" ELSE ModeAfter(op', Ended')
    <3>1. Selecting' <=> n = 1 \/ (Reads /\ n = 3)
      BY <1>7 DEF Selecting
    <3>2. CASE "START" \in k.bits
      BY <2>2, <2>5, <3>1, <3>2
    <3>3. CASE "START" \notin k.bits
      <4>1. mode' = mode /\ Given >= 1
        BY <1>3, <2>2, <2>5, <3>3 DEF n
      <4>2. mode = ModeAfter(op, Ended)
        BY <1>1, <1>2, <4>1 DEF AtWork
      <4> QED BY <1>6, <2>4, <2>5, <3>1, <3>3, <4>1, <4>2
    <3> QED BY <3>2, <3>3
  <2>8. pending' = {op.unit}
    BY <1>2, <2>2, <2>3, <2>6, SelectsUnit
  <2>9. ~Reads => n < Length(op)
    BY <1>2, <1>5, <1>11, CommandParts DEF Reads
  <2>10. AtWork'
    <3>1. Given' \in 0 .. Length(op') /\ Given' >= 1
      BY <1>3, <1>5, <1>6, <1>7
    <3>2. xmt' = CommandAt(op', Given').byte /\ nackCmd' = ("NACK" \in CommandAt(op', Given').bits)
      BY <1>1, <1>5, <1>6, <1>7, <2>2
    <3> QED
      BY <1>6, <1>7, <1>9, <2>2, <2>6, <2>7, <2>8, <2>9, <3>1, <3>2 DEF AtWork
  <2>11. CASE Reads
    <3>1. ReadSoFar
      BY <1>2, <2>11
    <3>2. issued # {"RD"}
      BY <1>1
    <3>3. Len(got) = Moved /\ (Ended >= 2 => ap[op.unit] = (op.addr + Moved) % Size)
          /\ \A i \in 1 .. Len(got) : got[i] = rom[op.unit][(op.addr + i - 1) % Size]
      BY <3>1, <3>2 DEF ReadSoFar
    <3>4. issued' = {"RD"} <=> Given' > 3
      BY <1>7, <1>10, <2>11
    <3> QED
      <4>1. ReadSoFar'
        BY <1>6, <2>2, <2>4, <3>3, <3>4 DEF ReadSoFar
      <4>2. DataTyped'
        BY <1>6, <1>10, <2>2 DEF DataInv, DataTyped
      <4> QED BY <1>2, <1>1, <1>6, <1>7, <2>10, <2>11, <4>1, <4>2 DEF DataInv
  <2>12. CASE ~Reads
    <3>1. WrittenSoFar /\ issued' = {}
      BY <1>2, <1>10, <2>12
    <3>2. WrittenSoFar'
      BY <1>6, <2>2, <2>4, <3>1 DEF WrittenSoFar
    <3>3. DataTyped'
      BY <1>6, <1>10, <2>2 DEF DataInv, DataTyped
    <3> QED BY <1>1, <1>2, <1>6, <1>7, <2>10, <2>12, <3>2, <3>3 DEF DataInv
  <2> QED BY <2>11, <2>12
<1>12. CASE ~IsTransfer(k.bits)
  <2>1. CmdStop(k.bits)
    BY <1>12, IssueCommand DEF k
  <2>2. /\ tip' = tip /\ mode' = "IDLE" /\ UNCHANGED <<slvsel, rcv, ap, swp, rom>>
    BY <2>1 DEF CmdStop, roms
  <2>3. ~Reads /\ n = Length(op)
    BY <1>2, <1>3, <1>5, <1>12, CommandParts DEF Reads
  <2>4. Ended' = n /\ Moved' = Moved /\ Given = 2 + Count(op)
    <3>1. Ended' = n
      BY <1>1, <1>7, <2>2 DEF Ended
    <3>2. Given = 2 + Count(op) /\ n = 3 + Count(op)
      BY <1>3, <2>3 DEF n
    <3>3. Before = 2 /\ Before' = 2 /\ Count(op') = Count(op)
      BY <1>3, <1>6, <1>7, <2>3
    <3>4. Moved = Count(op)
      BY <1>3, <1>8, <3>2, <3>3 DEF Moved
    <3>5. Moved' = Count(op)
      BY <1>3, <3>1, <3>2, <3>3 DEF Moved
    <3> QED BY <3>1, <3>2, <3>4, <3>5
  <2>5. AtWork'
    <3>1. Given' \in 0 .. Length(op')
      BY <1>3, <1>5, <1>6, <1>7
    <3>4. tip' # TRUE
      BY <1>1, <2>2
    <3>2. slvsel' = (IF Reads' /\ Given' >= 3 THEN SelectToRead(op').byte
                     ELSE SelectToWrite(op').byte)
      BY <1>2, <1>3, <1>6, <1>7, <2>2, <2>3, <2>4 DEF AtWork
    <3>3. mode' = ModeAfter(op', Ended')
      BY <1>3, <1>6, <2>2, <2>3, <2>4 DEF ModeAfter
    <3> QED BY <1>9, <3>1, <3>2, <3>3, <3>4 DEF AtWork
  <2>6. WrittenSoFar'
    <3>1. WrittenSoFar /\ issued' = {} /\ Ended >= 2
      BY <1>2, <1>3, <1>8, <1>10, <2>3, <2>4
    <3> QED BY <1>6, <2>2, <2>4, <3>1 DEF WrittenSoFar
  <2>7. DataTyped'
    BY <1>6, <1>10, <2>2 DEF DataInv, DataTyped
  <2> QED BY <1>1, <1>2, <1>6, <1>7, <2>3, <2>5, <2>6, <2>7 DEF DataInv
<1> QED BY <1>11, <1>12
(* A transfer that ends moves i2c_state one command further, and no more   *)
(* than one byte.                                                          *)
LEMMA ServeState ==
  ASSUME DataInv, DriverInv, NEW u \in Units, Serve(u), UNCHANGED driver
  PROVE  /\ tip = TRUE /\ tip' = FALSE /\ u = op.unit /\ op # None /\ op \in Operations /\ AtWork
         /\ (IF Reads THEN ReadSoFar ELSE WrittenSoFar)
         /\ UNCHANGED <<op, script, loaded, issued, got, saved, slvsel, swp, Given, Reads, Before>>
         /\ Ended = Given - 1 /\ Ended' = Given
<1>1. u \in pending /\ tip' = FALSE /\ UNCHANGED <<slvsel, swp>>
  BY DEF Serve, ServeSelect, ServeRead, ServeAddress, ServePageEnd, ServeWrite, Served
<1>2. tip = TRUE /\ op # None
  BY <1>1 DEF DriverInv, DataInv
<1>3. UNCHANGED <<op, script, loaded, issued, got, saved>>
  BY DEF driver
<1>4. /\ op \in Operations /\ AtWork /\ (IF Reads THEN ReadSoFar ELSE WrittenSoFar)
      /\ pending = {op.unit}
  BY <1>2 DEF DataInv, AtWork
<1>5. UNCHANGED <<Given, Reads, Before>>
  BY <1>3 DEF Given, Reads, Before
<1>6. Ended = Given - 1
  BY <1>2 DEF Ended
<1>7. Ended' = Given
  <2>1. tip' # TRUE
    BY <1>1
  <2> QED BY <1>5, <2>1 DEF Ended
<1>8. u = op.unit
  BY <1>1, <1>4
<1> QED BY <1>1, <1>2, <1>3, <1>4, <1>5, <1>6, <1>7, <1>8, Zenon

(* The rest of AtWork is as it was.                                        *)
LEMMA ServeAtWork ==
  ASSUME DataInv, DriverInv, NEW u \in Units, Serve(u), UNCHANGED driver,
         mode' = ModeAfter(op, Given)
  PROVE  AtWork'
<1>1. /\ tip' # TRUE /\ AtWork /\ Ended' = Given
      /\ UNCHANGED <<op, script, slvsel, Given, Reads>>
  BY ServeState, Zenon
<1>2. ModeAfter(op, Ended)' = ModeAfter(op, Given)
  BY <1>1 DEF ModeAfter
<1>3. (Given \in 0 .. Length(op))' /\ UNCHANGED <<Len(script), Selecting>>
  BY <1>1 DEF AtWork, Selecting
<1>4. (\A i \in 1 .. Len(script) : script[i] = CommandAt(op, Given + i))'
  BY <1>1 DEF AtWork
<1>5. (Given >= 1 => slvsel = IF Reads /\ Given >= 3 THEN SelectToRead(op).byte
                              ELSE SelectToWrite(op).byte)'
  BY <1>1 DEF AtWork
<1> QED BY <1>1, <1>2, <1>3, <1>4, <1>5, Zenon DEF AtWork

(* i2c_svc does what the command asked for.                                *)
LEMMA ServeCommand ==
  ASSUME DataInv, DriverInv, NEW u \in Units, Serve(u), UNCHANGED driver
  PROVE  /\ Given \in 1 .. Length(op) /\ mode' = ModeAfter(op, Given)
         /\ Given = 1 \/ (Reads /\ Given = 3) => UNCHANGED <<rcv, ap, rom>>
         /\ Given = 2 => ap' = [ap EXCEPT ![u] = op.addr] /\ UNCHANGED <<rcv, rom>>
         /\ Reads /\ Given > 3 => ServeRead(u)
         /\ ~Reads /\ Given >= 3 =>
              /\ Given < Length(op) /\ xmt = op.data[Given - 2]
              /\ ap[u] = op.addr + Moved /\ Moved = Given - 3 /\ Moved < Count(op)
              /\ ServeWrite(u)
<1>1. /\ tip = TRUE /\ u = op.unit /\ op \in Operations /\ AtWork /\ Ended = Given - 1
      /\ (IF Reads THEN ReadSoFar ELSE WrittenSoFar)
  BY ServeState, Zenon
<1>2. /\ Given \in 0 .. Length(op) /\ Given >= 1
      /\ xmt = CommandAt(op, Given).byte /\ nackCmd = ("NACK" \in CommandAt(op, Given).bits)
      /\ slvsel = (IF Reads /\ Given >= 3 THEN SelectToRead(op).byte ELSE SelectToWrite(op).byte)
      /\ mode = (IF Selecting THEN "IDLE" ELSE ModeAfter(op, Ended))
      /\ ~Reads => Given < Length(op)
  BY <1>1 DEF AtWork
<1>3. /\ Count(op) \in Nat /\ Length(op) = 3 + Count(op) /\ Given \in Nat /\ Given <= Length(op)
      /\ Before = (IF Reads THEN 3 ELSE 2) /\ (Reads => Count(op) >= 1)
  BY <1>1, <1>2, Counting
<1>4. Given \in 1 .. Length(op)
  BY <1>2, <1>3
<1>5. CASE Given = 1 \/ (Reads /\ Given = 3)
  <2>1. mode = "IDLE"
    BY <1>2, <1>5 DEF Selecting
  <2>2. ServeSelect(u)
    BY <2>1 DEF Serve, ServeRead, ServeAddress, ServePageEnd, ServeWrite
  <2>3. IsRead(slvsel) <=> Reads /\ Given = 3
    BY <1>1, <1>2, <1>5, SelectsUnit
  <2>4. mode' = ModeAfter(op, Given)
    BY <1>3, <1>5, <2>2, <2>3 DEF ServeSelect, ModeAfter, Reads
  <2> QED BY <1>3, <1>4, <1>5, <2>2, <2>4 DEF ServeSelect
<1>6. CASE Given = 2
  <2>1. mode = "WRADR"
    BY <1>1, <1>2, <1>6 DEF Selecting, ModeAfter
  <2>2. ServeAddress(u)
    BY <2>1 DEF Serve, ServeSelect, ServeRead, ServePageEnd, ServeWrite
  <2>3. xmt = op.addr /\ op.addr \in 0 .. Size - 1
    BY <1>1, <1>2, <1>4, <1>6, CommandParts, OperationShape DEF Addresses
  <2>4. xmt % Size = op.addr
    BY <2>3
  <2>5. mode' = ModeAfter(op, Given)
    BY <1>6, <2>2 DEF ServeAddress, ModeAfter
  <2>6. ap' = [ap EXCEPT ![u] = op.addr] /\ UNCHANGED <<rcv, rom>>
    BY <2>2, <2>4 DEF ServeAddress
  <2> QED BY <1>4, <1>6, <2>5, <2>6
<1>7. CASE Reads /\ Given > 3
  <2>1. mode = "READ"
    BY <1>1, <1>2, <1>3, <1>7 DEF Selecting, ModeAfter, Reads
  <2>2. ServeRead(u)
    BY <2>1 DEF Serve, ServeSelect, ServeAddress, ServePageEnd, ServeWrite
  <2>3. "NACK" \in CommandAt(op, Given).bits <=> Given = Length(op)
    BY <1>1, <1>4, <1>7, CommandParts DEF Reads
  <2>4. mode' = ModeAfter(op, Given)
    <3>1. mode' = IF Given = Length(op) THEN "IDLE" ELSE "READ"
      BY <1>2, <2>2, <2>3 DEF ServeRead
    <3> QED BY <1>3, <1>7, <3>1 DEF ModeAfter, Reads
  <2> QED BY <1>4, <1>7, <2>2, <2>4
<1>8. CASE ~Reads /\ Given >= 3
  <2>1. Given < Length(op) /\ Selecting = FALSE
    BY <1>2, <1>8 DEF Selecting
  <2>2. xmt = op.data[Given - 2]
    BY <1>1, <1>2, <1>4, <1>8, <2>1, CommandParts DEF Reads
  <2>3. Moved = Given - 3 /\ Moved < Count(op)
    BY <1>1, <1>3, <1>8, <2>1 DEF Moved
  <2>4. ap[u] = op.addr + Moved
    BY <1>1, <1>3, <1>8 DEF WrittenSoFar
  <2>5. mode = IF Given = 3 THEN "WRDAT1" ELSE "WRDATN"
    BY <1>1, <1>2, <1>3, <1>8, <2>1 DEF ModeAfter, Reads
  <2>6. mode = "WRDATN" => ~NewPage(ap[u])
    <3>1. /\ op.addr \in Addresses /\ Count(op) \in Nat
          /\ (op.addr % PageSize) + Count(op) <= PageSize
      BY <1>1, <1>3, <1>8, OperationAssumption, OperationShape DEF Reads
    <3>2. mode = "WRDATN" => Moved \in 1 .. Count(op) - 1
      BY <1>3, <1>8, <2>3, <2>5
    <3> QED BY <2>4, <3>1, <3>2, PageFits
  <2>7. ServeWrite(u)
    BY <2>5, <2>6 DEF Serve, ServeSelect, ServeRead, ServeAddress, ServePageEnd
  <2>8. mode' = ModeAfter(op, Given)
    BY <1>3, <1>8, <2>1, <2>7 DEF ServeWrite, ModeAfter, Reads
  <2> QED BY <1>4, <1>8, <2>1, <2>2, <2>3, <2>4, <2>7, <2>8
<1> QED BY <1>3, <1>4, <1>5, <1>6, <1>7, <1>8

(* The end of a transfer that moves no byte of the operation.              *)
LEMMA ServeControl ==
  ASSUME DataInv, DriverInv, NEW u \in Units, Serve(u), UNCHANGED driver,
         Given <= Before
  PROVE  DataInv'
<1>1. /\ tip = TRUE /\ tip' = FALSE /\ u = op.unit /\ op # None /\ op \in Operations /\ AtWork
      /\ (IF Reads THEN ReadSoFar ELSE WrittenSoFar)
      /\ UNCHANGED <<op, script, loaded, issued, got, saved, slvsel, swp, Given, Reads, Before>>
      /\ Ended = Given - 1 /\ Ended' = Given
  BY ServeState
<1>2. /\ Given \in 1 .. Length(op)
      /\ Given = 1 \/ (Reads /\ Given = 3) => UNCHANGED <<rcv, ap, rom>>
      /\ Given = 2 => ap' = [ap EXCEPT ![u] = op.addr] /\ UNCHANGED <<rcv, rom>>
  BY ServeCommand
<1>3. AtWork'
  BY ServeCommand, ServeAtWork
<1>4. /\ Given \in Nat /\ Before = (IF Reads THEN 3 ELSE 2) /\ op.addr \in 0 .. Size - 1
  BY <1>1, <1>2, Counting, OperationShape DEF AtWork, Addresses
<1>5. Moved = 0 /\ Moved' = 0
  BY <1>1, <1>4 DEF Moved
<1>6. rom' = rom /\ rcv' = rcv
  BY <1>2, <1>4
<1>7. DataTyped'
  <2>1. ap' \in [Units -> 0 .. Size]
    BY <1>2, <1>4 DEF DataInv, DataTyped
  <2> QED BY <1>1, <1>6, <2>1 DEF DataInv, DataTyped
<1>8. Ended' >= 2 => ap'[op.unit] = op.addr
  <2>1. ap \in [Units -> 0 .. Size] /\ op.unit \in Units
    BY <1>1, OperationShape DEF DataInv, DataTyped
  <2>2. CASE Given = 2
    BY <1>1, <1>2, <2>1, <2>2
  <2>3. CASE Reads /\ Given = 3
    <3>1. ap[op.unit] = (op.addr + Moved) % Size
      BY <1>1, <1>4, <2>3 DEF ReadSoFar
    <3>2. ap[op.unit] = op.addr
      BY <1>4, <1>5, <3>1
    <3> QED BY <1>2, <2>3, <3>2
  <2> QED BY <1>1, <1>4, <2>2, <2>3
<1>9. (op.addr + 0) % Size = op.addr
  BY <1>4
<1>10. CASE Reads
  <2>1. ReadSoFar /\ issued # {"RD"} /\ ~(Given > 3)
    BY <1>1, <1>4, <1>10 DEF ReadSoFar
  <2>2. Len(got) = 0 /\ 1 .. Len(got) = {}
    BY <1>5, <2>1 DEF ReadSoFar
  <2>3. ReadSoFar'
    <3>1. issued' # {"RD"} /\ Len(got') = 0 /\ ~(tip' = TRUE) /\ Moved' = 0
      BY <1>1, <1>5, <1>8, <1>9, <2>1, <2>2
    <3>2. Ended' >= 2 => ap'[op'.unit] = (op'.addr + Moved') % Size
      BY <1>1, <1>5, <1>8, <1>9, <2>1, <2>2
    <3>3. (\A i \in 1 .. Len(got) : got[i] = rom[op.unit][(op.addr + i - 1) % Size])'
      BY <1>1, <2>2
    <3>4. ~(issued' = {"RD"}) /\ ~(tip' = TRUE /\ (Given > 3)')
      BY <3>1
    <3> QED BY <3>1, <3>2, <3>3, <3>4, Zenon DEF ReadSoFar
  <2> QED BY <1>1, <1>3, <1>7, <1>10, <2>3 DEF DataInv
<1>11. CASE ~Reads
  <2>1. WrittenSoFar
    BY <1>1, <1>11
  <2>2. WrittenSoFar'
    <3>1. op.addr + 0 = op.addr
      BY <1>4
    <3>2. \A v \in Units, a \in Addresses :
            rom'[v][a] =
              IF v = op'.unit /\ a >= ProtLim /\ op'.addr <= a /\ a < op'.addr + Moved'
                THEN op'.data[a - op'.addr + 1] ELSE saved'[v][a]
      BY <1>1, <1>5, <1>6, <2>1 DEF WrittenSoFar
    <3> QED BY <1>1, <1>5, <1>8, <2>1, <3>1, <3>2 DEF WrittenSoFar
  <2> QED BY <1>1, <1>3, <1>7, <1>11, <2>2 DEF DataInv
<1> QED BY <1>10, <1>11

(* A byte read.                                                            *)
LEMMA ServeReadByte ==
  ASSUME DataInv, DriverInv, NEW u \in Units, Serve(u), UNCHANGED driver,
         Reads, Given > 3
  PROVE  DataInv'
<1>0. /\ tip = TRUE /\ tip' = FALSE /\ u = op.unit /\ op # None /\ op \in Operations /\ AtWork
      /\ (IF Reads THEN ReadSoFar ELSE WrittenSoFar)
      /\ UNCHANGED <<op, script, loaded, issued, got, saved, slvsel, swp, Given, Reads, Before>>
      /\ Ended = Given - 1 /\ Ended' = Given
  BY ServeState
<1>1. /\ tip = TRUE /\ tip' = FALSE /\ u = op.unit /\ op # None /\ op \in Operations /\ AtWork
      /\ ReadSoFar
      /\ UNCHANGED <<op, script, loaded, issued, got, saved, slvsel, swp, Given, Reads, Before>>
      /\ Ended = Given - 1 /\ Ended' = Given
  BY <1>0
<1>2. Given \in 1 .. Length(op) /\ ServeRead(u)
  BY ServeCommand
<1>3. AtWork'
  BY ServeCommand, ServeAtWork
<1>4. /\ Given \in Nat /\ Before = 3 /\ op.addr \in 0 .. Size - 1 /\ op.addr \in Nat
      /\ Count(op) \in Nat /\ Length(op) = 3 + Count(op) /\ Given <= Length(op)
      /\ Size \in Nat \ {0} /\ op.unit \in Units
  BY <1>1, <1>2, Counting, OperationShape DEF AtWork, Addresses
<1>5. Moved = Given - 4 /\ Moved' = Given - 3 /\ Moved \in Nat /\ Moved' = Moved + 1
  <2>1. Moved = Given - 4
    BY <1>1, <1>4 DEF Moved
  <2>2. Moved' = Given - 3
    BY <1>1, <1>4 DEF Moved
  <2> QED BY <1>4, <2>1, <2>2
<1>6. issued = {"RD"} /\ Len(got) = Moved /\ ap[u] = (op.addr + Moved) % Size
      /\ \A i \in 1 .. Len(got) : got[i] = rom[op.unit][(op.addr + i - 1) % Size]
  BY <1>1, <1>4 DEF ReadSoFar
<1>7. ap[u] \in Addresses /\ ap[u] \in Nat /\ ap[u] < Size /\ op.addr + Moved \in Nat
  <2>1. op.addr + Moved \in Nat
    BY <1>4, <1>5
  <2> QED BY <1>4, <1>6, <2>1, Division DEF Addresses
<1>8. rom' = rom /\ rcv' = rom[op.unit][(op.addr + Moved) % Size]
      /\ ap' = [ap EXCEPT ![u] = IF @ + 1 >= Size THEN 0 ELSE @ + 1]
  BY <1>1, <1>2, <1>6, <1>7 DEF ServeRead
<1>9. ap'[op.unit] = (op.addr + Moved + 1) % Size
  <2> DEFINE a == op.addr + Moved
  <2>1. a \in Nat /\ ap[u] = a % Size /\ op.addr + Moved + 1 = a + 1
    BY <1>6, <1>7
  <2> HIDE DEF a
  <2>2. (a + 1) % Size = IF (a % Size) + 1 >= Size THEN 0 ELSE (a % Size) + 1
    BY <1>4, <2>1, NextRemainder, Zenon
  <2>3. ap'[u] = IF ap[u] + 1 >= Size THEN 0 ELSE ap[u] + 1
    BY <1>1, <1>4, <1>8 DEF DataInv, DataTyped
  <2>4. op.unit = u
    BY <1>1
  <2> QED BY <2>1, <2>2, <2>3, <2>4, Zenon
<1>10. DataTyped'
  <2>1. ap' \in [Units -> 0 .. Size]
    BY <1>4, <1>7, <1>8 DEF DataInv, DataTyped
  <2> QED BY <1>1, <1>8, <2>1 DEF DataInv, DataTyped
<1>11. ReadSoFar'
  <2>1. op.addr + Moved' - 1 = op.addr + Moved /\ op.addr + Moved' = op.addr + Moved + 1
        /\ Moved' - 1 = Moved
    BY <1>4, <1>5
  <2>2. tip' # TRUE
    BY <1>1
  <2> QED BY <1>1, <1>6, <1>8, <1>9, <2>1, <2>2 DEF ReadSoFar
<1>12. loaded' # TRUE
  BY <1>1 DEF DriverInv
<1> QED BY <1>1, <1>3, <1>10, <1>11, <1>12 DEF DataInv

(* A byte written, or refused because it is protected.                     *)
LEMMA ServeWriteByte ==
  ASSUME DataInv, DriverInv, NEW u \in Units, Serve(u), UNCHANGED driver,
         ~Reads, Given > 2
  PROVE  DataInv'
<1>0. /\ tip = TRUE /\ tip' = FALSE /\ u = op.unit /\ op # None /\ op \in Operations /\ AtWork
      /\ (IF Reads THEN ReadSoFar ELSE WrittenSoFar)
      /\ UNCHANGED <<op, script, loaded, issued, got, saved, slvsel, swp, Given, Reads, Before>>
      /\ Ended = Given - 1 /\ Ended' = Given
  BY ServeState
<1>1. /\ tip = TRUE /\ tip' = FALSE /\ u = op.unit /\ op # None /\ op \in Operations /\ AtWork
      /\ WrittenSoFar
      /\ UNCHANGED <<op, script, loaded, issued, got, saved, slvsel, swp, Given, Reads, Before>>
      /\ Ended = Given - 1 /\ Ended' = Given
  BY <1>0
<1>2. /\ Count(op) \in Nat /\ Length(op) = 3 + Count(op) /\ Given \in Nat
      /\ Before = 2 /\ op.addr \in Addresses /\ op.addr \in Nat /\ op.unit \in Units
  BY <1>1, Counting, OperationShape DEF AtWork, Addresses
<1>3. /\ Given < Length(op) /\ xmt = op.data[Given - 2]
      /\ ap[u] = op.addr + Moved /\ Moved = Given - 3 /\ Moved < Count(op)
      /\ ServeWrite(u)
  BY <1>2, ServeCommand
<1>4. AtWork'
  BY ServeCommand, ServeAtWork
<1>5. Moved' = Moved + 1 /\ Moved \in Nat
  <2>1. Count(op') = Count(op) /\ Before' = 2 /\ Ended' = Given
    BY <1>1, <1>2
  <2>2. Moved' = Given - 2
    BY <1>2, <1>3, <2>1 DEF Moved
  <2> QED BY <1>2, <1>3, <2>2
<1>6. op.addr + Count(op) <= Size
  <2>1. (op.addr % PageSize) + Count(op) <= PageSize
    BY <1>1, OperationAssumption, OperationShape DEF Reads
  <2> QED BY <1>2, <2>1, PageFits
<1>7. ap[u] \in Addresses /\ ap' = [ap EXCEPT ![u] = op.addr + Moved + 1]
  <2>1. ap[u] \in 0 .. Size - 1
    BY <1>2, <1>3, <1>5, <1>6
  <2>2. AfterWrite(ap[u]) = op.addr + Moved + 1
    BY <1>2, <1>3, <1>5, <2>1 DEF AfterWrite
  <2> QED BY <1>3, <2>1, <2>2 DEF ServeWrite, Addresses
<1>8. op.data[Moved + 1] \in Bytes /\ xmt = op.data[Moved + 1]
  <2>1. Moved + 1 = Given - 2 /\ Moved + 1 \in 1 .. Count(op)
    BY <1>2, <1>3, <1>5
  <2> QED BY <1>1, <1>3, <2>1, OperationShape DEF Reads
<1>9. rom' = IF ap[u] < ProtLim THEN rom ELSE [rom EXCEPT ![u][ap[u]] = xmt]
  <2>1. swp[u] = TRUE
    BY DEF DataInv, DataTyped
  <2> QED BY <1>3, <2>1 DEF ServeWrite, IsProtected
<1>10. DataTyped'
  <2>1. ap' \in [Units -> 0 .. Size]
    <3>1. op.addr + Moved + 1 \in 0 .. Size
      BY <1>2, <1>3, <1>5, <1>6
    <3> QED BY <1>7, <3>1 DEF DataInv, DataTyped
  <2>2. rom' \in [Units -> [Addresses -> Bytes]]
    BY <1>7, <1>8, <1>9 DEF DataInv, DataTyped
  <2> QED BY <1>1, <2>1, <2>2 DEF DataInv, DataTyped
<1>11. ASSUME NEW v \in Units, NEW a \in Addresses
       PROVE  rom'[v][a] =
                IF v = op.unit /\ a >= ProtLim /\ op.addr <= a /\ a < op.addr + Moved'
                  THEN op.data[a - op.addr + 1] ELSE saved[v][a]
  <2>1. rom[v][a] =
          IF v = op.unit /\ a >= ProtLim /\ op.addr <= a /\ a < op.addr + Moved
            THEN op.data[a - op.addr + 1] ELSE saved[v][a]
    BY <1>1 DEF WrittenSoFar
  <2>2. a \in Int /\ ProtLim \in Int
    BY DEF Addresses
  <2>3. CASE v = u /\ a = ap[u]
    <3>1. /\ a - op.addr + 1 = Moved + 1 /\ op.addr <= a
          /\ ~(a < op.addr + Moved) /\ a < op.addr + Moved'
      BY <1>2, <1>3, <1>5, <2>2, <2>3
    <3>2. CASE a < ProtLim
      BY <1>9, <2>1, <2>2, <2>3, <3>2
    <3>3. CASE ~(a < ProtLim)
      <4>1. rom'[v][a] = xmt
        BY <1>7, <1>9, <2>3, <3>3 DEF DataInv, DataTyped
      <4> QED BY <1>1, <1>8, <2>2, <2>3, <3>1, <3>3, <4>1
    <3> QED BY <3>2, <3>3
  <2>4. CASE ~(v = u /\ a = ap[u])
    <3>1. rom'[v][a] = rom[v][a]
      BY <1>7, <1>9, <2>4 DEF DataInv, DataTyped
    <3>2. v = op.unit => (a < op.addr + Moved <=> a < op.addr + Moved')
      BY <1>1, <1>2, <1>3, <1>5, <2>2, <2>4
    <3> QED BY <2>1, <3>1, <3>2
  <2> QED BY <2>3, <2>4
<1>12. WrittenSoFar'
  <2>1. ap'[op.unit] = op.addr + Moved'
    <3>1. op.addr + Moved' = op.addr + Moved + 1
      BY <1>2, <1>5
    <3> QED BY <1>1, <1>7, <3>1 DEF DataInv, DataTyped
  <2>2. got' = <<>> /\ issued' = {}
    BY <1>1 DEF WrittenSoFar
  <2> QED BY <1>1, <1>11, <2>1, <2>2 DEF WrittenSoFar
<1> QED BY <1>1, <1>4, <1>10, <1>12 DEF DataInv, WrittenSoFar
LEMMA DataStep == DataInv /\ DriverInv /\ [NextDriver]_allVars => DataInv'
<1> SUFFICES ASSUME DataInv, DriverInv, [NextDriver]_allVars PROVE DataInv'
  OBVIOUS
<1>1. ASSUME NEW o \in Operations, Begin(o) PROVE DataInv'
  BY <1>1, BeginData
<1>2. CASE Enable \/ Load \/ Finish \/ UNCHANGED allVars
  BY <1>2, StillData
<1>3. CASE Issue
  BY <1>3, IssueData
<1>4. CASE Collect
  BY <1>4, CollectData
<1>5. ASSUME NEW u \in Units, Serve(u), UNCHANGED driver PROVE DataInv'
  <2>1. Given \in Nat /\ (Before = IF Reads THEN 3 ELSE 2)
    <3>1. op \in Operations /\ AtWork
      BY <1>5, ServeState
    <3> QED BY <3>1, Counting DEF AtWork
  <2>2. CASE Given <= Before
    BY <1>5, <2>2, ServeControl
  <2>3. CASE Reads /\ Given > 3
    BY <1>5, <2>3, ServeReadByte
  <2>4. CASE ~Reads /\ Given > 2
    BY <1>5, <2>4, ServeWriteByte
  <2> QED BY <2>1, <2>2, <2>3, <2>4
<1> QED BY <1>1, <1>2, <1>3, <1>4, <1>5 DEF NextDriver, Program

LEMMA InitData == InitDriver => DataInv
<1> SUFFICES ASSUME InitDriver PROVE DataInv
  OBVIOUS
<1>1. tip # TRUE /\ loaded # TRUE
  BY Zenon DEF InitDriver, Init
<1>2. /\ pending = {} /\ script = <<>> /\ issued = {} /\ op = None /\ got = <<>> /\ saved = rom
      /\ ap = [u \in Units |-> 0] /\ swp = [u \in Units |-> TRUE]
      /\ rom = [u \in Units |-> [a \in Addresses |-> 0]]
  BY DEF InitDriver, Init
<1>3. DataTyped
  BY <1>2 DEF DataTyped
<1> QED BY <1>1, <1>2, <1>3 DEF DataInv

(* In the step that ends an operation the memory of bytes does it.         *)
LEMMA FinishReads ==
  ASSUME DataInv, DriverInv, Finish, Reads
  PROVE  Memory!Read
<1>1. op # None /\ op \in Operations /\ ReadSoFar /\ script = <<>> /\ tip # TRUE /\ issued = {}
  BY DEF Finish, Ready, DataInv, DriverInv
<1>2. Given = Length(op) /\ Ended = Length(op) /\ Length(op) = 3 + Count(op) /\ Count(op) = op.count
      /\ Count(op) \in Nat /\ Count(op) >= 1
  <2>1. /\ Length(op) \in Nat /\ Length(op) = 3 + Count(op) /\ Count(op) = op.count
        /\ Count(op) \in Nat /\ Count(op) >= 1
    BY <1>1, OperationShape DEF Reads
  <2>2. Len(script) = 0
    BY <1>1
  <2>3. Given = Length(op)
    BY <2>1, <2>2 DEF Given
  <2> QED BY <1>1, <2>1, <2>3 DEF Ended
<1>3. Len(got) = op.count
  <2>1. Moved = Count(op)
    BY <1>2 DEF Moved, Before
  <2>2. issued # {"RD"}
    BY <1>1
  <2> QED BY <1>1, <1>2, <2>1, <2>2 DEF ReadSoFar
<1>4. got = [i \in 1 .. op.count |-> rom[op.unit][(op.addr + i - 1) % Size]]
  <2>1. got \in Seq(Bytes)
    BY DEF DataInv, DataTyped
  <2>2. got = [i \in 1 .. op.count |-> got[i]]
    BY <1>3, <2>1
  <2>3. \A i \in 1 .. op.count : got[i] = rom[op.unit][(op.addr + i - 1) % Size]
    BY <1>1, <1>3 DEF ReadSoFar
  <2> QED BY <2>2, <2>3
<1>5. op' = None /\ got' = got /\ rom' = rom
  BY DEF Finish, vars, roms
<1> QED BY <1>1, <1>4, <1>5 DEF Memory!Read, Memory!Contents, Reads

LEMMA FinishWrites ==
  ASSUME DataInv, DriverInv, Finish, ~Reads
  PROVE  Memory!Write
<1>1. op # None /\ op \in Operations /\ WrittenSoFar /\ script = <<>> /\ tip # TRUE
  BY DEF Finish, Ready, DataInv, DriverInv
<1>2. /\ op.kind = "write" /\ Length(op) = 3 + Count(op) /\ Count(op) = Len(op.data)
      /\ Count(op) \in Nat /\ op.addr \in Nat /\ op.unit \in Units
  BY <1>1, OperationShape DEF Reads, Addresses
<1>3. Moved = Len(op.data)
  <2>1. Given = Length(op) /\ Ended = Length(op)
    <3>1. Len(script) = 0
      BY <1>1
    <3>2. Given = Length(op)
      BY <1>2, <3>1 DEF Given
    <3> QED BY <1>1, <3>2 DEF Ended
  <2> QED BY <1>2, <2>1 DEF Moved, Before
<1>4. rom = [saved EXCEPT ![op.unit] =
               [a \in DOMAIN @ |->
                  IF a \in op.addr .. op.addr + Len(op.data) - 1 /\ a \notin 0 .. ProtLim - 1
                    THEN op.data[a - op.addr + 1] ELSE @[a]]]
  <2> DEFINE f == saved[op.unit]
             w == [a \in DOMAIN f |->
                     IF a \in op.addr .. op.addr + Len(op.data) - 1 /\ a \notin 0 .. ProtLim - 1
                       THEN op.data[a - op.addr + 1] ELSE f[a]]
  <2>1. /\ rom \in [Units -> [Addresses -> Bytes]] /\ saved \in [Units -> [Addresses -> Bytes]]
    BY DEF DataInv, DataTyped
  <2>2. DOMAIN f = Addresses
    BY <1>2, <2>1
  <2>3. rom[op.unit] = w
    <3>1. ASSUME NEW a \in Addresses
          PROVE  rom[op.unit][a] =
                   IF a \in op.addr .. op.addr + Len(op.data) - 1 /\ a \notin 0 .. ProtLim - 1
                     THEN op.data[a - op.addr + 1] ELSE f[a]
      <4>1. rom[op.unit][a] =
              IF a >= ProtLim /\ op.addr <= a /\ a < op.addr + Moved
                THEN op.data[a - op.addr + 1] ELSE f[a]
        BY <1>1, <1>2 DEF WrittenSoFar
      <4>2. a \in Nat /\ ProtLim \in Nat
        BY DEF Addresses
      <4>3. a \in op.addr .. op.addr + Len(op.data) - 1 /\ a \notin 0 .. ProtLim - 1
              <=> a >= ProtLim /\ op.addr <= a /\ a < op.addr + Moved
        BY <1>2, <1>3, <4>2
      <4> QED BY <4>1, <4>3
    <3> HIDE DEF f
    <3>2. rom[op.unit] = [a \in Addresses |-> rom[op.unit][a]]
      BY <1>2, <2>1
    <3> QED BY <2>2, <3>1, <3>2
  <2>4. ASSUME NEW u \in Units, u # op.unit PROVE rom[u] = saved[u]
    <3>1. \A a \in Addresses : rom[u][a] = saved[u][a]
      BY <1>1, <2>4 DEF WrittenSoFar
    <3> QED BY <2>1, <3>1
  <2> HIDE DEF w
  <2>5. rom = [saved EXCEPT ![op.unit] = w]
    BY <1>2, <2>1, <2>3, <2>4
  <2> QED BY <2>5 DEF w
<1>5. op' = None /\ got' = got /\ rom' = rom /\ got = <<>>
  BY <1>1 DEF Finish, vars, roms, WrittenSoFar
<1> QED BY <1>1, <1>2, <1>4, <1>5 DEF Memory!Write, Memory!Written

(* Every other step begins an operation or leaves the memory as it is.     *)
LEMMA StepRefines ==
  ASSUME DataInv, DriverInv, [NextDriver]_allVars
  PROVE  [Memory!Next]_(Memory!vars)
<1> USE DEF Memory!vars
<1>1. ASSUME NEW o \in Operations, Begin(o) PROVE Memory!Call
  BY <1>1, OperationAssumption DEF Begin, Memory!Call, vars, roms
<1>2. CASE Enable \/ Load \/ UNCHANGED allVars
  <2>1. UNCHANGED <<op, rom, saved, got>>
    BY <1>2 DEF Enable, WriteCtl, Load, WriteXmt, roms, driver, allVars, vars
  <2> QED BY <2>1
<1>3. CASE Finish
  BY <1>3, FinishReads, FinishWrites DEF Memory!Next
<1>4. CASE Issue \/ Collect
  <2>1. UNCHANGED <<op, rom, saved>> /\ op # None
    <3>1. CASE Issue
      <4>1. rom' = rom
        BY <3>1 DEF Issue, Command, CmdRefused, CmdTransferRefused, CmdTransfer, CmdStop,
                    CmdPlain, roms
      <4> QED BY <3>1, <4>1 DEF Issue, DriverInv
    <3>2. CASE Collect
      BY <3>2 DEF Collect, DataInv, vars, roms
    <3> QED BY <1>4, <3>1, <3>2
  <2> QED BY <2>1
<1>5. ASSUME NEW u \in Units, Serve(u), UNCHANGED driver
      PROVE  UNCHANGED <<op, got, saved>> /\ op # None /\ (op.kind = "write" \/ rom' = rom)
  <2>1. op # None /\ op \in Operations /\ UNCHANGED <<op, got, saved>>
    BY <1>5, ServeState, Zenon
  <2>2. CASE Reads
    <3>1. Given \in Nat /\ (Given = 1 \/ Given = 2 \/ Given = 3 \/ Given > 3)
      <4>1. Given \in 1 .. Length(op) /\ Length(op) \in Nat
        BY <1>5, <2>1, ServeCommand, OperationShape
      <4> QED BY <4>1
    <3>2. ASSUME Given <= 3 PROVE rom' = rom
      <4>1. /\ Given = 1 \/ (Reads /\ Given = 3) => UNCHANGED <<rcv, ap, rom>>
            /\ Given = 2 => UNCHANGED <<rcv, rom>>
        BY <1>5, ServeCommand
      <4> QED BY <2>2, <3>1, <3>2, <4>1
    <3>3. ASSUME Given > 3 PROVE rom' = rom
      <4>1. ServeRead(u)
        BY <1>5, <2>2, <3>3, ServeCommand
      <4> QED BY <4>1 DEF ServeRead
    <3> QED BY <2>1, <3>1, <3>2, <3>3
  <2> QED BY <2>1, <2>2, OperationShape DEF Reads
<1>6. ASSUME NEW u \in Units, Serve(u), UNCHANGED driver PROVE UNCHANGED Memory!vars
  BY <1>5, <1>6
<1> QED BY <1>1, <1>2, <1>3, <1>4, <1>6 DEF NextDriver, Program, Memory!Next

LEMMA InitRefines == InitDriver => Memory!Init
BY DEF InitDriver, Init, Memory!Init, Addresses

(* The program of I2cDriver implements the memory of bytes: however the    *)
(* events of i2c_svc fall between its steps, a write takes effect as a     *)
(* whole and leaves the protected bytes, and a read returns what is stored.*)
THEOREM EepromImplemented == SpecDriver => Memory!Init /\ [][Memory!Next]_(Memory!vars)
<1>1. InitDriver => DriverInv /\ DataInv
  BY InitData, InitFollows
<1>2. DriverInv /\ DataInv /\ [NextDriver]_allVars => (DriverInv /\ DataInv)'
  BY DriverStep, DataStep
<1>3. DriverInv /\ DataInv /\ [NextDriver]_allVars => [Memory!Next]_(Memory!vars)
  BY StepRefines
<1> QED BY <1>1, <1>2, <1>3, InitRefines, PTL DEF SpecDriver
-----------------------------------------------------------------------------
(* How many steps, the events of i2c_svc included, are left of the         *)
(* operation under way.                                                    *)
StepsLeft ==
  IF op = None THEN 0
  ELSE 1 + (4 * Len(script)) + (IF tip THEN 1 ELSE 0) + (IF issued # {} THEN 1 ELSE 0)
         - (IF loaded THEN 1 ELSE 0)

Switched == op # None => enabled = TRUE

LEMMA SwitchedStep ==
  ASSUME DriverInv, Switched, [NextDriver]_allVars
  PROVE  Switched'
<1>1. CASE Enable
  BY <1>1 DEF Enable, WriteCtl, Switched
<1>2. ASSUME NEW o \in Operations, Begin(o) PROVE Switched'
  BY <1>2 DEF Begin, vars, status, Switched
<1>3. CASE Issue
  <2>1. script # <<>>
    BY <1>3 DEF Issue, DriverInv
  <2>2. enabled' = enabled
    BY <1>3 DEF Issue, Command, CmdRefused, CmdTransferRefused, CmdTransfer, CmdStop, CmdPlain,
                status
  <2>3. op' = op
    BY <1>3 DEF Issue
  <2> QED BY <2>2, <2>3 DEF Switched
<1>4. CASE Load \/ Collect \/ Finish \/ UNCHANGED allVars
  BY <1>4 DEF Load, WriteXmt, Collect, Finish, vars, status, driver, allVars, Switched
<1>5. ASSUME NEW u \in Units, Serve(u), UNCHANGED driver PROVE Switched'
  BY <1>5 DEF Serve, ServeSelect, ServeRead, ServeAddress, ServePageEnd, ServeWrite, Served,
              driver, Switched
<1> QED BY <1>1, <1>2, <1>3, <1>4, <1>5 DEF NextDriver, Program

LEMMA StepsLeftNatural ==
  ASSUME DriverInv
  PROVE  /\ StepsLeft \in Nat
         /\ script \in Seq(ProgramCommand) /\ Len(script) \in Nat
         /\ script # <<>> => Len(script) >= 1 /\ Len(Tail(script)) = Len(script) - 1
<1>1. /\ script \in Seq(ProgramCommand) /\ Len(script) \in Nat
      /\ script # <<>> => Len(script) >= 1 /\ Len(Tail(script)) = Len(script) - 1
  BY DEF DriverInv
<1>2. loaded => Len(script) >= 1
  BY <1>1 DEF DriverInv
<1> QED BY <1>1, <1>2 DEF StepsLeft

LEMMA StepsLeftLess ==
  ASSUME DriverInv, DataInv, Switched, [NextDriver]_allVars, op # None
  PROVE  [StepsLeft' < StepsLeft]_allVars
<1>1. /\ script \in Seq(ProgramCommand) /\ Len(script) \in Nat
      /\ script # <<>> => Len(script) >= 1 /\ Len(Tail(script)) = Len(script) - 1
      /\ loaded \in BOOLEAN /\ tip \in BOOLEAN
  BY StepsLeftNatural DEF DriverInv
<1>2. ~Enable /\ \A o \in Operations : ~Begin(o)
  BY DEF Enable, Begin, Switched
<1>3. CASE Load
  <2>1. op' = op /\ script' = script /\ tip' = tip /\ issued' = issued /\ ~loaded /\ loaded' = TRUE
    BY <1>3 DEF Load, WriteXmt, status
  <2> QED BY <1>1, <2>1 DEF StepsLeft
<1>4. CASE Issue
  <2>1. op' = op /\ script' = Tail(script) /\ script # <<>> /\ loaded = TRUE /\ loaded' = FALSE
        /\ tip = FALSE /\ issued = {}
    BY <1>4 DEF Issue, DriverInv, DataInv
  <2>2. Len(script') = Len(script) - 1
    BY <1>1, <2>1
  <2>3. StepsLeft = 4 * Len(script)
    BY <1>1, <2>1 DEF StepsLeft
  <2>4. StepsLeft' <= 1 + (4 * (Len(script) - 1)) + 2
    BY <1>1, <2>1, <2>2 DEF StepsLeft
  <2>5. StepsLeft' \in Int
    BY <1>1, <2>1, <2>2 DEF StepsLeft
  <2> QED BY <1>1, <2>3, <2>4, <2>5
<1>5. CASE Collect
  <2>1. op' = op /\ script' = script /\ tip' = tip /\ loaded' = loaded
        /\ issued # {} /\ issued' = {}
    BY <1>5 DEF Collect, vars, status
  <2> QED BY <1>1, <2>1 DEF StepsLeft
<1>6. CASE Finish
  <2>1. script = <<>> /\ ~loaded /\ ~tip /\ issued = {} /\ op' = None
    BY <1>6 DEF Finish, Ready, DriverInv
  <2> QED BY <1>1, <2>1 DEF StepsLeft
<1>7. ASSUME NEW u \in Units, Serve(u), UNCHANGED driver PROVE StepsLeft' < StepsLeft
  <2>1. tip = TRUE /\ tip' = FALSE /\ UNCHANGED <<op, script, loaded, issued>>
    BY <1>7, ServeState, Zenon
  <2> DEFINE rest == 1 + (4 * Len(script)) + (IF issued # {} THEN 1 ELSE 0)
                       - (IF loaded THEN 1 ELSE 0)
  <2>2. rest \in Int /\ rest' = rest
    BY <1>1, <2>1
  <2>3. StepsLeft = rest + 1 /\ StepsLeft' = rest'
    BY <1>1, <2>1 DEF StepsLeft
  <2> HIDE DEF rest
  <2> QED BY <2>2, <2>3
<1> QED BY <1>2, <1>3, <1>4, <1>5, <1>6, <1>7 DEF NextDriver, Program

(* A program that waits for TIP waits for an event that is scheduled, and  *)
(* whatever happens during an operation brings it nearer to its end: no    *)
(* command, event or register of the controller sends it back or round.    *)
(* With the fairness of SpecDriver this is why every operation ends.       *)
THEOREM OperationAdvances ==
  SpecDriver => /\ [](tip => pending = {op.unit})
                /\ [](StepsLeft \in Nat)
                /\ [][op # None => StepsLeft' < StepsLeft]_allVars
<1>1. InitDriver => DriverInv /\ DataInv /\ Switched
  BY InitData, InitFollows DEF InitDriver, Switched
<1>2. DriverInv /\ DataInv /\ Switched /\ [NextDriver]_allVars => (DriverInv /\ DataInv /\ Switched)'
  BY DriverStep, DataStep, SwitchedStep
<1>3. DriverInv /\ DataInv => StepsLeft \in Nat /\ (tip => pending = {op.unit})
  <2> SUFFICES ASSUME DriverInv, DataInv
      PROVE StepsLeft \in Nat /\ (tip => pending = {op.unit})
    OBVIOUS
  <2>1. tip \in BOOLEAN
    BY DEF DriverInv
  <2>2. tip => pending = {op.unit}
    BY <2>1 DEF DataInv, AtWork
  <2> QED BY <2>2, StepsLeftNatural
<1>4. DriverInv /\ DataInv /\ Switched /\ [NextDriver]_allVars
        => [op # None => StepsLeft' < StepsLeft]_allVars
  BY StepsLeftLess
<1> QED BY <1>1, <1>2, <1>3, <1>4, PTL DEF SpecDriver
=============================================================================
