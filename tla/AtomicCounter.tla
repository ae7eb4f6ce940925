--------------------------- MODULE AtomicCounter ---------------------------
(***************************************************************************)
(* What load-linked and store-conditional promise to the programs: the     *)
(* cores increment a word in memory as if each increment were one step.    *)
(***************************************************************************)
EXTENDS Integers

CONSTANTS
  Cores,
  Increments    \* how often each core increments the counter

VARIABLES
  count,
  left          \* the increments a core has left

vars == <<count, left>>

Init == count = 0 /\ left = [c \in Cores |-> Increments]

Increment(c) ==
  /\ left[c] > 0
  /\ count' = count + 1
  /\ left' = [left EXCEPT ![c] = @ - 1]

Next == \E c \in Cores : Increment(c)

Spec == Init /\ [][Next]_vars
=============================================================================
