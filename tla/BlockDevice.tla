---------------------------- MODULE BlockDevice ----------------------------
(***************************************************************************)
(* What the disk promises programs that share it: each request moves one   *)
(* block between the disk and the buffer of the program that asked, at     *)
(* once and exactly once, in the order of each program.                    *)
(***************************************************************************)
EXTENDS Naturals, Sequences

CONSTANTS
  Programs,
  Requests      \* of each program, in order: [write, block]

VARIABLES
  blocks,       \* the contents of each block of the disk
  buffer,       \* and of each program's buffer
  served        \* how many of its requests each program has had served

vars == <<blocks, buffer, served>>

Init == served = [p \in Programs |-> 0]

Serve(p) ==
  /\ served[p] < Len(Requests[p])
  /\ served' = [served EXCEPT ![p] = @ + 1]
  /\ LET r == Requests[p][served'[p]]
     IN \/ /\ r.write
           /\ blocks' = [blocks EXCEPT ![r.block] = buffer[p]]
           /\ UNCHANGED buffer
        \/ /\ ~r.write
           /\ buffer' = [buffer EXCEPT ![p] = blocks[r.block]]
           /\ UNCHANGED blocks

Next == \E p \in Programs : Serve(p)

Spec == Init /\ [][Next]_vars
=============================================================================
