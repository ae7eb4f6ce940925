------------------------------- MODULE Eeprom --------------------------------
(***************************************************************************)
(* What the EEPROMs promise a program that waits for each transfer to end: *)
(* a memory of bytes with two operations, each of which takes effect at    *)
(* once.  Bytes that are write-protected stay as they are.                 *)
(***************************************************************************)
EXTENDS Integers, Sequences

CONSTANTS
  Size,         \* the bytes of a unit
  Protected,    \* the addresses that are write-protected, of each unit
  Operations,   \* [kind : {"read"}, unit, addr, count] and
                \* [kind : {"write"}, unit, addr, data]
  None          \* no operation

VARIABLES op, store, reply

vars == <<op, store, reply>>

(* A read goes on at address 0 after the last.                             *)
Contents(o) == [i \in 1 .. o.count |-> store[o.unit][(o.addr + i - 1) % Size]]

Written(o) ==
  [store EXCEPT ![o.unit] =
     [a \in DOMAIN @ |->
        IF a \in o.addr .. o.addr + Len(o.data) - 1 /\ a \notin Protected[o.unit]
          THEN o.data[a - o.addr + 1]
          ELSE @[a]]]

Init ==
  /\ op = None
  /\ store \in [DOMAIN Protected -> [0 .. Size - 1 -> {0}]]
  /\ reply = <<>>

Call ==
  /\ op = None
  /\ op' \in Operations
  /\ reply' = <<>>
  /\ UNCHANGED store

Read ==
  /\ op # None /\ op.kind = "read"
  /\ reply' = Contents(op)
  /\ op' = None
  /\ UNCHANGED store

Write ==
  /\ op # None /\ op.kind = "write"
  /\ store' = Written(op)
  /\ op' = None
  /\ UNCHANGED reply

Next == Call \/ Read \/ Write

Spec == Init /\ [][Next]_vars /\ WF_vars(Read \/ Write)
=============================================================================
