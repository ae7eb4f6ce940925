------------------------------ MODULE TlbEntry ------------------------------
(***************************************************************************)
(* The format of one entry of a core's variable-page-size TLB, as          *)
(* sc1_mmu.c lays it out, and the comparisons the code makes between an    *)
(* entry and a word.                                                       *)
(*                                                                         *)
(* A 64-bit word is the set of its one bits, so that "a & ~m" is a \ m,    *)
(* "a | b" is a \cup b and "((a ^ b) & ~m) == 0" is a \ m = b \ m.  Only   *)
(* the bits the code treats differently are represented: the ASID bits,    *)
(* the G bit just above them, the page-parity bit VA<12>, and the VPN2     *)
(* bits with the region bits VA<63:62> among them.                         *)
(***************************************************************************)
EXTENDS Integers, FiniteSets

CONSTANTS
  TLB_LNT,      \* number of entries of the TLB
  AsidBits,     \* bit positions of the address space identifier
  GBit,         \* bit position of the global flag in a tag
  PageBit,      \* VA<12>, the lowest bit of a page number
  Vpn2Bits,     \* bit positions of the virtual page pair number and region
  XkphysBits    \* the VPN2 bits that are set in the base of XKPHYS

ASSUME TlbLntAssumption == TLB_LNT \in Nat \ {0}

ASSUME BitsAssumption ==
  /\ AsidBits \subseteq 0 .. 63 /\ Vpn2Bits \subseteq 0 .. 63
  /\ GBit \in 0 .. 63 /\ PageBit \in 0 .. 63
  /\ \A a \in AsidBits : a < GBit
  /\ GBit < PageBit
  /\ \A b \in Vpn2Bits : PageBit < b
  /\ XkphysBits \subseteq Vpn2Bits

Slots == 0 .. TLB_LNT - 1

VaBits == Vpn2Bits \cup {PageBit}

(* A page mask covers the low VPN2 bits without a gap, and the bit above   *)
(* it is a VPN2 bit too, as in every page size of the architecture.        *)
PageMask ==
  {m \in SUBSET Vpn2Bits :
     /\ \A b \in m : \A c \in Vpn2Bits : c < b => c \in m
     /\ \E b \in Vpn2Bits \ m : b - 1 \in m \cup {PageBit}}

EntLo == [pfn : SUBSET VaBits, fl : SUBSET {"V", "D", "G"}]

TagBits == Vpn2Bits \cup {GBit} \cup AsidBits

Entry == [indx : Slots, tag : SUBSET TagBits, mask : PageMask,
          pfn0 : SUBSET VaBits, f0 : SUBSET {"V", "D"},
          pfn1 : SUBSET VaBits, f1 : SUBSET {"V", "D"}]

(* a < b as unsigned words: the highest bit in which they differ is in b.  *)
Less(a, b) == \E k \in b \ a : \A j \in a \ b : j < k

(* What qsort orders the entries by (tlb_comp): the tag without the bits   *)
(* its page mask hides.                                                    *)
Key(e) == e.tag \ e.mask

(* tlb_search's test of an entry against a word.                           *)
TagMatch(w, e) == w \ e.mask = Key(e)

(* The two words tlb_search looks for.                                     *)
AsidTag(va, asid) == (va \cap Vpn2Bits) \cup asid
GlobalTag(va)     == (va \cap Vpn2Bits) \cup {GBit}

(* The address bit that selects the even or the odd page of a pair.        *)
Sel(mask) ==
  (CHOOSE b \in Vpn2Bits \ mask : \A c \in Vpn2Bits \ mask : b <= c) - 1

Half(e, va) == IF Sel(e.mask) \in va THEN [pfn |-> e.pfn1, fl |-> e.f1]
                                     ELSE [pfn |-> e.pfn0, fl |-> e.f0]

(* The part of va that is an offset into a page of this size.              *)
PageOffset(mask, va) == {b \in va : b + 1 \in mask}

(* Entry e serves the address space asid at va.                            *)
Covers(e, va, asid) ==
  TagMatch(AsidTag(va, asid), e) \/ TagMatch(GlobalTag(va), e)

(* Two entries that could both serve one address: what tlb_write_i rejects.*)
Overlap(e1, e2) ==
  /\ (e1.tag \cap Vpn2Bits) \ (e1.mask \cup e2.mask)
       = (e2.tag \cap Vpn2Bits) \ (e1.mask \cup e2.mask)
  /\ \/ GBit \in e1.tag
     \/ GBit \in e2.tag
     \/ e1.tag \cap AsidBits = e2.tag \cap AsidBits
-----------------------------------------------------------------------------
(* Mutant of Down: the tag is compared with its page mask's bits.          *)
DownUnmasked(w, e) == Less(w, e.tag)

(* tlb_search: two binary searches.  Down(w, e) says that the loop goes    *)
(* below e.                                                                *)
Down(w, e)       == Less(w \ e.mask, Key(e))
DownGlobal(w, e) == Less(w, e.tag)

(* The slot probed, and the bounds after a probe that does not match.  The *)
(* loop stops at a slot of match, goes below one of down, and ends when    *)
(* nothing is left.                                                        *)
Middle(b)  == (b.lo + b.hi) \div 2
Open(b)    == b.lo <= b.hi
AllOpen    == [lo |-> 0, hi |-> TLB_LNT - 1]

Narrow(match, down, b) ==
  IF ~Open(b) \/ Middle(b) \in match THEN b
  ELSE IF Middle(b) \in down THEN [lo |-> b.lo, hi |-> Middle(b) - 1]
  ELSE [lo |-> Middle(b) + 1, hi |-> b.hi]

(* The bounds at which the loop stops: it probes no slot twice.            *)
StopAt(match, down) ==
  LET bounds[n \in Nat] ==
        IF n = 0 THEN AllOpen ELSE Narrow(match, down, bounds[n - 1])
  IN bounds[TLB_LNT]

(* At most one slot: the one the loop stops at because it matches.         *)
Found(match, down) ==
  LET b == StopAt(match, down)
  IN IF Open(b) /\ Middle(b) \in match THEN {Middle(b)} ELSE {}

Matches(t, w) == {p \in Slots : TagMatch(w, t[p])}

FoundPrivate(t, w) == Found(Matches(t, w), {p \in Slots : Down(w, t[p])})
FoundGlobal(t, w) == Found(Matches(t, w), {p \in Slots : DownGlobal(w, t[p])})

(* Mutant of Lookup: global pages are forgotten.                           *)
LookupPrivate(t, va, asid) == FoundPrivate(t, AsidTag(va, asid))

(* At most one slot: the one whose entry tlb_search returns.               *)
Lookup(t, va, asid) ==
  LET byAsid == FoundPrivate(t, AsidTag(va, asid))
  IN IF byAsid # {} THEN byAsid ELSE FoundGlobal(t, GlobalTag(va))
-----------------------------------------------------------------------------
(* A table's order, which qsort establishes.                               *)
Sorted(t) == \A a, b \in Slots : a < b => ~Less(Key(t[b]), Key(t[a]))

IndexOnce(t) == \A a, b \in Slots : t[a].indx = t[b].indx => a = b

Disjoint(t) == \A a, b \in Slots : a # b => ~Overlap(t[a], t[b])

(* Entries whose pages share addresses, be it in different address spaces, *)
(* have one page size.                                                     *)
UniformOverlaps(t) ==
  \A a, b \in Slots :
    LET hidden == t[a].mask \cup t[b].mask
    IN (t[a].tag \cap Vpn2Bits) \ hidden = (t[b].tag \cap Vpn2Bits) \ hidden
         => t[a].mask = t[b].mask
=============================================================================
