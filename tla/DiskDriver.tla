----------------------------- MODULE DiskDriver -----------------------------
(***************************************************************************)
(* Programs on several cores that share the disk controller: each takes a  *)
(* lock in memory with LL and SC, sets the controller's registers, writes  *)
(* the command, reads the status and releases the lock with a store.       *)
(* Between any two of its instructions a core may be interrupted.  The     *)
(* programs are not part of the repository.                                *)
(***************************************************************************)
EXTENDS Storage

CONSTANTS
  LockVa,       \* the address of the lock, of each core's buffer, and of the
  BufferPa,     \*   controller's registers; a transfer names its buffer by
  RegisterVa,   \*   the physical address
  Requests      \* the blocks each core transfers: [write, block]

VARIABLES
  step,         \* where each program is
  served        \* the requests it has made

driver == <<step, served>>

Request(c) == Requests[c][served[c] + 1]

Goto(c, s) == step' = [step EXCEPT ![c] = s]

(* An instruction of the program; a register it stores was loaded before.  *)
Issue(c, op, va) ==
  Instruction(c, [op |-> op, va |-> va, rt |-> 1, f |-> 0]) /\ UNCHANGED ran

SetRegister(c, n, v) ==
  /\ StoreTo(c, RegisterVa + (8 * n), 8, v, {})
  /\ UNCHANGED <<R, F, cp1, ran>>

Link(c) ==
  /\ step[c] = "link" /\ served[c] < Len(Requests[c])
  /\ Issue(c, "LL", LockVa[c]) /\ Goto(c, "test")
  /\ UNCHANGED served

(* If the lock is free, the register is loaded with one.                   *)
Test(c) ==
  /\ step[c] = "test"
  /\ R' = [R EXCEPT ![c][1] = 1]
  /\ Goto(c, IF R[c][1] = 0 THEN "try" ELSE "link")
  /\ UNCHANGED <<storage, F, cp1, lock, lockAddr, trap, badVa, ran, served>>

Try(c) ==
  /\ step[c] = "try"
  /\ Issue(c, "SC", LockVa[c])
  /\ Goto(c, IF R'[c][1] = 1 THEN "block" ELSE "link")
  /\ UNCHANGED served

SetBlock(c) ==
  /\ step[c] = "block" /\ SetRegister(c, DiskAddress, 8 * Request(c).block)
  /\ Goto(c, "buffer") /\ UNCHANGED served

SetBuffer(c) ==
  /\ step[c] = "buffer" /\ SetRegister(c, MemAddress, BufferPa[c])
  /\ Goto(c, "count") /\ UNCHANGED served

SetCount(c) ==
  /\ step[c] = "count" /\ SetRegister(c, Count, 8)
  /\ Goto(c, "command") /\ UNCHANGED served

Start(c) ==
  /\ step[c] = "command"
  /\ SetRegister(c, Command, IF Request(c).write THEN CmdWrite ELSE CmdRead)
  /\ Goto(c, "status") /\ served' = [served EXCEPT ![c] = @ + 1]

Check(c) ==
  /\ step[c] = "status" /\ Issue(c, "LD", RegisterVa + (8 * Status))
  /\ Goto(c, IF R'[c][1] = StatusGood THEN "release" ELSE "failed")
  /\ UNCHANGED served

Release(c) ==
  /\ step[c] = "release" /\ StoreTo(c, LockVa[c], 4, 0, {})
  /\ Goto(c, "link") /\ UNCHANGED <<R, F, cp1, ran, served>>

Interrupt(c) == Eret(c) /\ UNCHANGED driver

Transfer(c) == SetBlock(c) \/ SetBuffer(c) \/ SetCount(c) \/ Start(c)
=============================================================================
