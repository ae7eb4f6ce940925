------------------------------- MODULE MCI2c --------------------------------
(* A small instance of the I2C controller, in one of two kinds of use:     *)
(* "any", registers written in any order and an operator who interferes,   *)
(* and "program", the program of I2cDriver.                                *)
EXTENDS I2cDriver

VARIABLE kind

mcVars == <<allVars, kind>>

(* What any use transmits: 0 selects nothing, the others select the two    *)
(* units, to write and to read.  As addresses, modulo Size, they are three *)
(* of the four; the pointer passes the fourth on its way to the end.       *)
AnyBytes == {0, 160, 161, 162}

(* A command for every way through i2c_wr, with and without the bits that  *)
(* i2c_svc or the interrupt go by.                                         *)
AnyCommands ==
  {{"START", "WR"}, {"START", "WR", "IACK"}, {"START"}, {"RD"}, {"RD", "NACK"},
   {"WR"}, {"WR", "STOP"}, {"RD", "WR"}, {"STOP"}, {"STOP", "IACK"}, {"IACK"}, {}}

(* What a unit holds decides nothing of what happens next, and neither     *)
(* does the receive register: of any use, states that differ only there    *)
(* are one.                                                                *)
Seen ==
  <<kind, enabled, mode, xmt, nackCmd, slvsel, status, ap, pending, swp,
    IF kind = "any" THEN <<>> ELSE <<rcv, rom, driver>> >>
-----------------------------------------------------------------------------
(* The program: the addresses, the data and the selects of the two units.  *)
MCBytes == 0 .. 6 \cup 160 .. 163

Reads == [kind : {"read"}, unit : Units, addr : Addresses, count : 1 .. 3]

Writes ==
  {o \in [kind : {"write"}, unit : Units, addr : Addresses,
          data : {<<5>>, <<6>>, <<5, 6>>}] :
     (o.addr % PageSize) + Len(o.data) <= PageSize}

MCOperations == Reads \cup Writes
-----------------------------------------------------------------------------
Registers ==
  \/ \E on \in BOOLEAN : WriteCtl(on)
  \/ \E b \in AnyBytes : WriteXmt(b)
  \/ \E c \in AnyCommands : Command(c)
  \/ \E u \in Units : Serve(u)

(* The bytes deposited are of no consequence but to be seen changed.       *)
Interference ==
  \/ Reset
  \/ \E u \in Units : \/ Deposit(u, Size - 1, 161)
                      \/ Attach(u, 0)
                      \/ \E on \in BOOLEAN : SetSwp(u, on)

MCInit == InitDriver /\ kind \in {"any", "program"}

MCNext ==
  /\ UNCHANGED kind
  /\ \/ kind = "any" /\ Registers /\ UNCHANGED driver
     \/ kind = "any" /\ Interference /\ UNCHANGED driver
     \/ kind = "program" /\ NextDriver

MCSpec == MCInit /\ [][MCNext]_mcVars /\ Fairness
-----------------------------------------------------------------------------
(* The program's memory is an Eeprom, however the events of i2c_svc fall   *)
(* between its steps; and every operation ends.  (Any use is not compared.)*)
Device ==
  INSTANCE Eeprom WITH
    Protected <- [u \in Units |-> 0 .. ProtLim - 1],
    store <- IF kind = "any" THEN [u \in Units |-> [a \in Addresses |-> 0]]
             ELSE IF op # None /\ op.kind = "write" THEN saved ELSE rom,
    reply <- IF op = None THEN got ELSE <<>>

ImplementsEeprom == Device!Spec
=============================================================================
