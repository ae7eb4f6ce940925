----------------------------- MODULE TlbSearch -----------------------------
(***************************************************************************)
(* The loops of tlb_search, one probe at a time: a binary search for the   *)
(* address under the current ASID, then one for it as a global page.  The  *)
(* table does not change while it is searched; any table that qsort and    *)
(* the duplicate check of tlb_write_i can leave is searched, for any       *)
(* address and ASID.                                                       *)
(***************************************************************************)
EXTENDS TlbEntry

CONSTANTS
  Entries,      \* the entries a table is made of: [tag, mask]
  Vas           \* the page addresses looked up

ASSUME EntriesAssumption ==
  /\ Entries \subseteq [tag : SUBSET TagBits, mask : PageMask]
  /\ \A e \in Entries : GBit \in e.tag => e.tag \cap AsidBits = {}
  /\ Vas \subseteq SUBSET VaBits

VARIABLES
  t,            \* the table
  va, asid,     \* the address looked up
  phase,        \* the loop that runs, or the result
  lo, hi,       \* the slots not yet excluded
  slot          \* the slot of a hit

vars == <<t, va, asid, phase, lo, hi, slot>>

Tables ==
  {f \in [Slots -> Entries] : Sorted(f) /\ Disjoint(f) /\ UniformOverlaps(f)}

Last == TLB_LNT - 1

Init ==
  /\ t \in Tables /\ va \in Vas /\ asid \in SUBSET AsidBits
  /\ phase = "asid" /\ lo = 0 /\ hi = Last /\ slot = 0

(* Mutant of LoAfter: a bound that never excludes the slot probed.         *)
LoAfterMid(down) == IF down THEN lo ELSE (lo + hi) \div 2

(* The slot probed, and the bounds when the probe says to go down or up.   *)
Mid == (lo + hi) \div 2
LoAfter(down) == IF down THEN lo ELSE Mid + 1
HiAfter(down) == IF down THEN Mid - 1 ELSE hi

(* One probe of the loop in phase ph, which looks for w and goes to phase  *)
(* next when nothing is left.                                              *)
Probe(ph, next, w, down) ==
  /\ phase = ph
  /\ UNCHANGED <<t, va, asid>>
  /\ \/ /\ TagMatch(w, t[Mid])
        /\ phase' = "hit" /\ slot' = Mid /\ UNCHANGED <<lo, hi>>
     \/ /\ ~TagMatch(w, t[Mid])
        /\ UNCHANGED slot
        /\ IF LoAfter(down) <= HiAfter(down)
           THEN phase' = ph /\ lo' = LoAfter(down) /\ hi' = HiAfter(down)
           ELSE phase' = next /\ lo' = 0 /\ hi' = Last

ProbeAsid ==
  Probe("asid", "global", AsidTag(va, asid), Down(AsidTag(va, asid), t[Mid]))

ProbeGlobal ==
  Probe("global", "miss", GlobalTag(va), DownGlobal(GlobalTag(va), t[Mid]))

Done == phase \in {"hit", "miss"} /\ UNCHANGED vars

Next == ProbeAsid \/ ProbeGlobal \/ Done

Spec == Init /\ [][Next]_vars

(* The search is a loop of one call: it runs until it returns.             *)
FairSpec == Spec /\ WF_vars(Next)
-----------------------------------------------------------------------------
TypeOK ==
  /\ t \in Tables
  /\ va \in Vas /\ asid \in SUBSET AsidBits
  /\ phase \in {"asid", "global", "hit", "miss"}
  /\ lo \in Slots /\ hi \in Slots /\ lo <= hi
  /\ slot \in Slots

(* What a loop has excluded does not match.                                *)
Remaining ==
  /\ phase = "asid" =>
       \A s \in Slots : TagMatch(AsidTag(va, asid), t[s]) => s \in lo .. hi
  /\ phase = "global" =>
       \A s \in Slots :
         /\ ~TagMatch(AsidTag(va, asid), t[s])
         /\ TagMatch(GlobalTag(va), t[s]) => s \in lo .. hi

(* The result is right: a hit is an entry that serves the address, and     *)
(* after a miss no entry of the table does.                                *)
Correct ==
  /\ phase = "hit"  => Covers(t[slot], va, asid)
  /\ phase = "miss" => \A s \in Slots : ~Covers(t[s], va, asid)

(* The operator Lookup, which the other modules use, is this loop.         *)
LoopIsLookup ==
  /\ phase = "hit"  => Lookup(t, va, asid) = {slot}
  /\ phase = "miss" => Lookup(t, va, asid) = {}

(* Both loops end.                                                         *)
Returns == <>(phase \in {"hit", "miss"})
=============================================================================
