------------------------------ MODULE I2cDriver ------------------------------
(***************************************************************************)
(* A program that reads and writes the EEPROMs through the I2C controller  *)
(* the way the state machine of i2c_svc asks for: every byte is a command  *)
(* of its own, given once the transfer before it has ended, and a write    *)
(* ends with STOP and stays in one page.  It sees the controller through   *)
(* its registers alone, and implements Eeprom.                             *)
(***************************************************************************)
EXTENDS I2c, Sequences

CONSTANTS
  Operations,   \* what the program does, as in Eeprom
  None

ASSUME OperationAssumption ==
  \A o \in Operations :
    /\ o.kind \in {"read", "write"} /\ o # None
    /\ o.unit \in Units /\ o.addr \in Addresses
    /\ o.kind = "read" => o.count \in Nat \ {0}
    /\ o.kind = "write" => /\ o.data \in Seq(Bytes)
                           /\ (o.addr % PageSize) + Len(o.data) <= PageSize

VARIABLES
  op,           \* the operation under way
  script,       \* what is left of it: transmit bytes and commands
  loaded,       \* the transmit register holds the byte of the next step
  issued,       \* the last command, while its result is to be collected
  got,          \* the bytes read so far
  saved         \* history: the EEPROMs when the operation began

driver == <<op, script, loaded, issued, got, saved>>
allVars == <<vars, driver>>

Cmd(b, bits) == [byte |-> b, bits |-> bits]

(* The commands that position a unit at an address.                        *)
Position(o) ==
  << Cmd(Select(o.unit, FALSE), {"START", "WR"}), Cmd(o.addr, {"WR"}) >>

ReadScript(o) ==
  Position(o)
    \o << Cmd(Select(o.unit, TRUE), {"START", "WR"}) >>
    \o [i \in 1 .. o.count |-> Cmd(0, IF i = o.count THEN {"RD", "NACK"} ELSE {"RD"})]

WriteScript(o) ==
  Position(o)
    \o [i \in 1 .. Len(o.data) |-> Cmd(o.data[i], {"WR"})]
    \o << Cmd(0, {"STOP", "IACK"}) >>

Script(o) == IF o.kind = "read" THEN ReadScript(o) ELSE WriteScript(o)

Begin(o) ==
  /\ op = None /\ enabled
  /\ op' = o
  /\ script' = Script(o)
  /\ got' = <<>> /\ saved' = rom
  /\ UNCHANGED <<vars, loaded, issued>>

Enable == ~enabled /\ WriteCtl(TRUE) /\ UNCHANGED driver

(* TIP is clear and the byte read, if any, is collected.                   *)
Ready == ~tip /\ issued = {}

Load ==
  /\ script # <<>> /\ ~loaded /\ Ready
  /\ WriteXmt(Head(script).byte)
  /\ loaded' = TRUE
  /\ UNCHANGED <<op, script, issued, got, saved>>

Issue ==
  /\ loaded
  /\ Command(Head(script).bits)
  /\ issued' = Head(script).bits \cap {"RD"}
  /\ script' = Tail(script)
  /\ loaded' = FALSE
  /\ UNCHANGED <<op, got, saved>>

Collect ==
  /\ issued # {} /\ ~tip
  /\ got' = Append(got, rcv)
  /\ issued' = {}
  /\ UNCHANGED <<vars, op, script, loaded, saved>>

Finish ==
  /\ op # None /\ script = <<>> /\ Ready
  /\ op' = None
  /\ UNCHANGED <<vars, script, loaded, issued, got, saved>>

Program == Load \/ Issue \/ Collect \/ Finish

InitDriver ==
  /\ Init
  /\ op = None /\ script = <<>> /\ loaded = FALSE /\ issued = {}
  /\ got = <<>> /\ saved = rom

NextDriver ==
  \/ Enable
  \/ \E o \in Operations : Begin(o)
  \/ Program
  \/ \E u \in Units : Serve(u) /\ UNCHANGED driver

(* The program goes on as long as it has something to do, and a scheduled  *)
(* event is served in the end.                                             *)
Fairness ==
  /\ WF_allVars(Program)
  /\ \A u \in Units : WF_allVars(Serve(u) /\ UNCHANGED driver)

SpecDriver == InitDriver /\ [][NextDriver]_allVars /\ Fairness
-----------------------------------------------------------------------------
(* The controller accepts every command of such a program: none ends in a  *)
(* bus error.                                                              *)
NeverRefused ==
  loaded => LET c == Head(script).bits
            IN /\ Wellformed(c)
               /\ IsTransfer(c) =>
                    CanTransfer(IF "START" \in c THEN xmt ELSE slvsel)

(* The memory of bytes that the program implements: a write takes effect   *)
(* at its end, and a read returns what is stored.                          *)
Memory == INSTANCE Eeprom WITH
  Protected <- [u \in Units |-> 0 .. ProtLim - 1],
  store <- IF op # None /\ op.kind = "write" THEN saved ELSE rom,
  reply <- IF op = None THEN got ELSE <<>>
=============================================================================
