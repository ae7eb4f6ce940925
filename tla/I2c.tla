-------------------------------- MODULE I2c ---------------------------------
(***************************************************************************)
(* The serial bus controller and the two serial-presence-detect EEPROMs    *)
(* behind it (sc1_i2c.c).  A program writes the transmit register and the  *)
(* command register; a command schedules one byte transfer on the unit     *)
(* that the slave select names, and i2c_svc performs it when its event     *)
(* comes due.  A step here is one register write, one event, or one        *)
(* command of the simulator's operator.                                    *)
(*                                                                         *)
(* The prescalers are left out, and so are the bits of the control and     *)
(* command registers that nothing reads.                                   *)
(***************************************************************************)
EXTENDS Integers, FiniteSets

CONSTANTS
  NumUnit,      \* I2C_NUMUNIT
  Size,         \* I2C_SIZE
  ProtLim,      \* I2C_PROT_LIM
  PageSize,     \* I2C_PSIZE
  Bytes,        \* the bytes that programs write to the transmit register
  Commands      \* and the commands they give

Units == 0 .. NumUnit - 1
Addresses == 0 .. Size - 1
CommandBits == {"START", "STOP", "RD", "WR", "NACK", "IACK"}
Modes == {"IDLE", "READ", "WRADR", "WRDAT1", "WRDATN"}

ASSUME I2cAssumption ==
  /\ NumUnit \in 1 .. 8
  /\ PageSize \in Nat \ {0}
  /\ Size \in Nat \ {0} /\ Size % PageSize = 0
  /\ ProtLim \in 0 .. Size
  /\ Bytes \subseteq 0 .. 255 /\ 0 \in Bytes
  /\ Commands \subseteq SUBSET CommandBits

VARIABLES
  enabled,      \* I2C_CTL_ENB of i2c_ctl
  mode,         \* i2c_state
  xmt, rcv,     \* i2c_xmt, i2c_rcv
  nackCmd,      \* I2C_CMD_NACK of i2c_cmd
  slvsel,       \* i2c_slvsel
  busy, tip, int, nack, \* the bits of i2c_sta
  ap,           \* AP of each unit
  pending,      \* the units whose event is scheduled
  swp,          \* UNIT_SWP of each unit
  rom           \* filebuf of each unit

status == <<busy, tip, int, nack>>
roms == <<swp, rom>>
vars == <<enabled, mode, xmt, rcv, nackCmd, slvsel, status, ap, pending, roms>>

(* i2c_map_sel: the unit a slave select names, if it names a memory.       *)
Dimm(sel) == (sel \div 2) % 8
IsMemory(sel) == sel \div 16 = 10 /\ Dimm(sel) < NumUnit
IsRead(sel) == sel % 2 = 1

Select(u, read) == 160 + 2 * u + (IF read THEN 1 ELSE 0)
-----------------------------------------------------------------------------
(* Writes to the control and to the transmit register.                     *)
WriteCtl(on) ==
  /\ enabled' = on
  /\ UNCHANGED <<mode, xmt, rcv, nackCmd, slvsel, status, ap, pending, roms>>

WriteXmt(b) ==
  /\ xmt' = b
  /\ UNCHANGED <<enabled, mode, rcv, nackCmd, slvsel, status, ap, pending, roms>>

Invalid(c) ==
  \/ "START" \in c /\ c \cap {"RD", "WR", "STOP"} # {"WR"}
  \/ {"RD", "WR"} \subseteq c

WrongMode(c) ==
  \/ "RD" \in c /\ mode # "READ"
  \/ "WR" \in c /\ mode = "READ"

Wellformed(c) == enabled /\ ~Invalid(c) /\ ~WrongMode(c)
IsTransfer(c) == c \cap {"START", "RD", "WR"} # {}

Acknowledge(c) == int' = (int /\ "IACK" \notin c)

(* A command the controller refuses before it acts on it: it is kept in    *)
(* i2c_cmd all the same, and the store ends in a bus error.                *)
CmdRefused(c) ==
  /\ enabled /\ (Invalid(c) \/ WrongMode(c))
  /\ nackCmd' = ("NACK" \in c)
  /\ UNCHANGED <<enabled, mode, xmt, rcv, slvsel, status, ap, pending, roms>>

(* Mutant of Start: the mode of the previous transfer stays.               *)
StartKeepsMode(c) ==
  /\ nackCmd' = ("NACK" \in c)
  /\ slvsel' = IF "START" \in c THEN xmt ELSE slvsel
  /\ busy' = (busy \/ "START" \in c)
  /\ mode' = mode

(* What START does before the unit and the transfer in progress are looked *)
(* at.                                                                     *)
Start(c) ==
  /\ nackCmd' = ("NACK" \in c)
  /\ slvsel' = IF "START" \in c THEN xmt ELSE slvsel
  /\ busy' = (busy \/ "START" \in c)
  /\ mode' = IF "START" \in c THEN "IDLE" ELSE mode

(* Mutant of CanTransfer: a transfer in progress is no obstacle.           *)
CanTransferBusy(sel) == IsMemory(sel)

CanTransfer(sel) == IsMemory(sel) /\ ~tip

(* A transfer refused for its slave select or for the one in progress.     *)
CmdTransferRefused(c) ==
  /\ Wellformed(c) /\ IsTransfer(c)
  /\ Start(c)
  /\ ~CanTransfer(slvsel')
  /\ UNCHANGED <<enabled, xmt, rcv, tip, int, nack, ap, pending, roms>>

(* A new transfer: it is scheduled on the unit of the slave select.        *)
CmdTransfer(c) ==
  /\ Wellformed(c) /\ IsTransfer(c)
  /\ Start(c)
  /\ CanTransfer(slvsel')
  /\ pending' = pending \cup {Dimm(slvsel')}
  /\ tip' = TRUE
  /\ Acknowledge(c)
  /\ UNCHANGED <<enabled, xmt, rcv, nack, ap, roms>>

(* STOP cancels the transfers and frees the bus; TIP stays as it is.       *)
CmdStop(c) ==
  /\ Wellformed(c) /\ ~IsTransfer(c) /\ "STOP" \in c
  /\ nackCmd' = ("NACK" \in c)
  /\ pending' = {}
  /\ busy' = FALSE
  /\ mode' = "IDLE"
  /\ Acknowledge(c)
  /\ UNCHANGED <<enabled, xmt, rcv, slvsel, tip, nack, ap, roms>>

CmdPlain(c) ==
  /\ Wellformed(c) /\ ~IsTransfer(c) /\ "STOP" \notin c
  /\ nackCmd' = ("NACK" \in c)
  /\ Acknowledge(c)
  /\ UNCHANGED <<enabled, mode, xmt, rcv, slvsel, busy, tip, nack, ap, pending, roms>>
-----------------------------------------------------------------------------
(* i2c_svc: the event of unit u.  Every transfer ends with TIP clear and   *)
(* the interrupt bit set.                                                  *)
Served(u) ==
  /\ u \in pending
  /\ pending' = pending \ {u}
  /\ tip' = FALSE
  /\ int' = TRUE
  /\ UNCHANGED <<enabled, xmt, nackCmd, slvsel, busy, swp>>

(* The byte after START: the direction of what follows.                    *)
ServeSelect(u) ==
  /\ mode = "IDLE" /\ Served(u)
  /\ mode' = IF IsRead(slvsel) THEN "READ" ELSE "WRADR"
  /\ UNCHANGED <<rcv, nack, ap, rom>>

(* A byte read; beyond the buffer whatever is there is returned.           *)
ServeRead(u) ==
  /\ mode = "READ" /\ Served(u)
  /\ \/ ap[u] < Size /\ rcv' = rom[u][ap[u]]
     \/ ap[u] >= Size /\ rcv' \in Bytes
  /\ ap' = [ap EXCEPT ![u] = IF @ + 1 >= Size THEN 0 ELSE @ + 1]
  /\ mode' = IF nackCmd THEN "IDLE" ELSE "READ"
  /\ UNCHANGED <<nack, rom>>

(* The address of a write, or of the read that follows.                    *)
ServeAddress(u) ==
  /\ mode = "WRADR" /\ Served(u)
  /\ ap' = [ap EXCEPT ![u] = xmt % Size]
  /\ mode' = "WRDAT1"
  /\ nack' = FALSE
  /\ UNCHANGED <<rcv, rom>>

(* Mutant of AfterWrite: the pointer stays where it is.                    *)
AfterWriteStays(a) == a

(* The address pointer after a byte written or refused.                    *)
AfterWrite(a) == IF a + 1 > Size THEN 0 ELSE a + 1

(* Mutant of NewPage: the last byte of a page counts as the next page.     *)
NewPageEarly(a) == a % PageSize = PageSize - 1

NewPage(a) == a % PageSize = 0

(* A byte after the first at the start of a page: refused, and the pointer *)
(* moves into that page.                                                   *)
ServePageEnd(u) ==
  /\ mode = "WRDATN" /\ NewPage(ap[u]) /\ Served(u)
  /\ ap' = [ap EXCEPT ![u] = AfterWrite(@)]
  /\ nack' = TRUE
  /\ UNCHANGED <<mode, rcv, rom>>

(* Mutants of IsProtected: a byte after the first goes unchecked, or the   *)
(* limit itself counts as protected.                                       *)
IsProtectedFirst(u) == swp[u] /\ ap[u] < ProtLim /\ mode = "WRDAT1"
IsProtectedLimit(u) == swp[u] /\ ap[u] <= ProtLim

IsProtected(u) == swp[u] /\ ap[u] < ProtLim

(* Any other byte of a write.                                              *)
ServeWrite(u) ==
  /\ mode = "WRDAT1" \/ (mode = "WRDATN" /\ ~NewPage(ap[u]))
  /\ Served(u)
  /\ \/ IsProtected(u) /\ nack' = TRUE /\ UNCHANGED rom
     \/ ~IsProtected(u) /\ nack' = FALSE /\ rom' = [rom EXCEPT ![u][ap[u]] = xmt]
  /\ ap' = [ap EXCEPT ![u] = AfterWrite(@)]
  /\ mode' = "WRDATN"
  /\ UNCHANGED rcv

Serve(u) ==
  \/ ServeSelect(u) \/ ServeRead(u) \/ ServeAddress(u)
  \/ ServePageEnd(u) \/ ServeWrite(u)
-----------------------------------------------------------------------------
(* The operator, between two instructions: a reset of the device, a byte   *)
(* deposited (i2c_dep), a file attached, or SET SWP and SET NOSWP.         *)
Reset ==
  /\ enabled' = FALSE /\ mode' = "IDLE"
  /\ xmt' = 0 /\ rcv' = 0 /\ nackCmd' = FALSE /\ slvsel' = 0
  /\ busy' = FALSE /\ tip' = FALSE /\ int' = FALSE /\ nack' = FALSE
  /\ ap' = [u \in Units |-> 0]
  /\ pending' = {}
  /\ UNCHANGED roms

registers == <<enabled, mode, xmt, rcv, nackCmd, slvsel, status, ap, pending>>

Deposit(u, a, b) ==
  /\ rom' = [rom EXCEPT ![u][a] = b]
  /\ UNCHANGED <<registers, swp>>

Attach(u, b) ==
  /\ rom' = [rom EXCEPT ![u] = [a \in Addresses |-> b]]
  /\ UNCHANGED <<registers, swp>>

SetSwp(u, on) ==
  /\ swp' = [swp EXCEPT ![u] = on]
  /\ UNCHANGED <<registers, rom>>

Init ==
  /\ enabled = FALSE /\ mode = "IDLE"
  /\ xmt = 0 /\ rcv = 0 /\ nackCmd = FALSE /\ slvsel = 0
  /\ busy = FALSE /\ tip = FALSE /\ int = FALSE /\ nack = FALSE
  /\ ap = [u \in Units |-> 0]
  /\ pending = {}
  /\ swp = [u \in Units |-> TRUE]
  /\ rom = [u \in Units |-> [a \in Addresses |-> 0]]

Command(c) ==
  \/ CmdRefused(c) \/ CmdTransferRefused(c) \/ CmdTransfer(c)
  \/ CmdStop(c) \/ CmdPlain(c)

Bus ==
  \/ \E on \in BOOLEAN : WriteCtl(on)
  \/ \E b \in Bytes : WriteXmt(b)
  \/ \E c \in Commands : Command(c)
  \/ \E u \in Units : Serve(u)

Operator ==
  \/ Reset
  \/ \E u \in Units : \/ \E a \in Addresses, b \in Bytes : Deposit(u, a, b)
                      \/ \E b \in Bytes : Attach(u, b)
                      \/ \E on \in BOOLEAN : SetSwp(u, on)

Next == Bus \/ Operator

(* sim_process_event serves an event once its time has come.               *)
Spec == Init /\ [][Next]_vars /\ \A u \in Units : WF_vars(Serve(u))
-----------------------------------------------------------------------------
TypeOK ==
  /\ enabled \in BOOLEAN /\ mode \in Modes /\ nackCmd \in BOOLEAN
  /\ xmt \in Bytes /\ rcv \in Bytes /\ slvsel \in Bytes
  /\ busy \in BOOLEAN /\ tip \in BOOLEAN /\ int \in BOOLEAN /\ nack \in BOOLEAN
  /\ ap \in [Units -> 0 .. Size]
  /\ pending \subseteq Units
  /\ swp \in [Units -> BOOLEAN]
  /\ rom \in [Units -> [Addresses -> Bytes]]

(* One transfer at a time: a scheduled event is the transfer that TIP      *)
(* stands for, whatever commands, refused ones too, came in between.       *)
OneTransfer ==
  /\ pending # {} => tip
  /\ \A u, v \in pending : u = v

(* A byte never goes to a unit other than the one of the slave select,     *)
(* although a START refused for a transfer in progress has replaced the    *)
(* slave select under it: i2c_state is then back at the select byte.       *)
ByteToSelected ==
  \A u \in pending : mode # "IDLE" => IsMemory(slvsel) /\ u = Dimm(slvsel)

(* No byte is ever stored beyond the EEPROM, although a write of its last  *)
(* byte leaves the pointer one past the end: a first byte follows an       *)
(* address, and the end is the start of a page.                            *)
StoresInside ==
  \A u \in pending :
    mode = "WRDAT1" \/ (mode = "WRDATN" /\ ~NewPage(ap[u])) => ap[u] < Size

(* A transfer never changes the protected bytes of a protected unit.       *)
ProtectedKept ==
  [][Bus => \A u \in Units, a \in Addresses :
              swp[u] /\ a < ProtLim => rom'[u][a] = rom[u][a]]_vars

=============================================================================
