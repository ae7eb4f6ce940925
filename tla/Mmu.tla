-------------------------------- MODULE Mmu --------------------------------
(***************************************************************************)
(* Address translation of one core: the TLB kept sorted for binary search, *)
(* the two one-entry mini-TLBs in front of it, and the coprocessor 0       *)
(* registers that read and write it (sc1_mmu.c).  One action is one        *)
(* instruction's call, or one call of xlate_va.  Exceptions are taken by   *)
(* the caller; traps is what the last call raised.  BadVA, Context,        *)
(* XContext and SR.TS, which only software reads, and the cache attribute  *)
(* of a page are left out.                                                 *)
(***************************************************************************)
EXTENDS TlbEntry, Functions

CONSTANTS
  InitVpn2,     \* [Slots -> VPN2 bits]: the bits of "i << (VA_V_VPN + 1)"
  MappedVas,    \* the mapped page addresses software uses,
  Modes,        \* the kinds of access it makes of them,
  EntHis,       \* the values software writes to EntryHi,
  EntLo0s,      \*   EntryLo0,
  EntLo1s,      \*   EntryLo1,
  Masks,        \*   PageMask,
  Indexes,      \*   Index
  Wireds        \*   and Wired

AllModes == {"read", "write", "instr", "conread", "conwrite"}

ASSUME InitAssumption ==
  /\ InitVpn2 \in [Slots -> SUBSET (Vpn2Bits \ XkphysBits)]
  /\ \A i, j \in Slots : i < j => Less(InitVpn2[i], InitVpn2[j])
  /\ {} \in PageMask

ASSUME SoftwareAssumption ==
  /\ MappedVas \subseteq SUBSET VaBits /\ XkphysBits \notin MappedVas
  /\ Modes \subseteq AllModes
  /\ EntHis \subseteq SUBSET (Vpn2Bits \cup AsidBits)
  /\ EntLo0s \subseteq EntLo /\ EntLo1s \subseteq EntLo
  /\ Masks \subseteq PageMask
  /\ Indexes \subseteq 0 .. TLB_LNT
  /\ Wireds \subseteq Slots

VARIABLES
  tlb,          \* [Slots -> Entry], sorted by Key
  imtlb, dmtlb, \* the instruction and the data mini-TLB
  enthi, elo0, elo1, pgmask,
  index,        \* [p : probe failed, n : Index field]
  random, wired,
  traps,        \* the traps the last call raised
  asidMoved     \* history: EntryHi.ASID changed with the mini-TLBs kept

regs  == <<enthi, elo0, elo1, pgmask, index, random, wired>>
mtlbs == <<imtlb, dmtlb>>
vars  == <<tlb, mtlbs, regs, traps, asidMoved>>

Writes == {"write", "conwrite"}
Con    == {"conread", "conwrite"}
TrapKinds ==
  {"LTLBM", "STLBM", "LTLBV", "STLBV", "STLBW", "LAER", "SAER", "MCHK", "SIER"}

NoPa     == {PageBit - 1}       \* no page: not a set of page bits
MiniTlb  == [tag : SUBSET VaBits, pfn : SUBSET VaBits, fl : SUBSET {"V", "D"}]
NoMini   == [tag |-> XkphysBits, pfn |-> {}, fl |-> {}]
Asid     == enthi \cap AsidBits
NoTrap   == traps' = {}
-----------------------------------------------------------------------------
(* xlate_va on a mapped address.                                           *)
Store(mode) == mode \in Writes
TrapOf(mode, load, store) == IF Store(mode) THEN store ELSE load
Mini(mode)  == IF mode = "instr" THEN imtlb ELSE dmtlb

(* Mutant of MiniHit: a store needs no dirty page.                         *)
MiniHitClean(mode, va) == Mini(mode).tag = va

MiniHit(mode, va) ==
  LET m == Mini(mode) IN m.tag = va /\ (Store(mode) => "D" \in m.fl)

(* What an entry answers: a page, or the trap it raises.                   *)
Answer(e, mode, va) ==
  LET h == Half(e, va)
  IN IF "V" \notin h.fl THEN [pa |-> NoPa, trap |-> {TrapOf(mode, "LTLBV", "STLBV")}]
     ELSE IF Store(mode) /\ "D" \notin h.fl THEN [pa |-> NoPa, trap |-> {"STLBW"}]
     ELSE [pa |-> h.pfn \cup PageOffset(e.mask, va), trap |-> {}]

Miss(mode) == [pa |-> NoPa, trap |-> {TrapOf(mode, "LTLBM", "STLBM")}]

Xlate(mode, va) ==
  LET hit == Lookup(tlb, va, Asid)
  IN IF MiniHit(mode, va) THEN [pa |-> Mini(mode).pfn, trap |-> {}]
     ELSE IF hit = {} THEN Miss(mode)
     ELSE Answer(tlb[CHOOSE p \in hit : TRUE], mode, va)

InvalidateMini == imtlb' = NoMini /\ dmtlb' = NoMini /\ asidMoved' = FALSE

(* A hit in a mini-TLB.                                                    *)
XlateMini(mode, va) ==
  /\ MiniHit(mode, va)
  /\ NoTrap
  /\ UNCHANGED <<tlb, mtlbs, regs, asidMoved>>

(* A hit in the TLB, which refills the mini-TLB of its kind.               *)
XlateTlb(mode, va) ==
  /\ ~MiniHit(mode, va)
  /\ \E p \in Lookup(tlb, va, Asid) :
       LET a == Answer(tlb[p], mode, va)
           m == [tag |-> va, pfn |-> a.pa, fl |-> Half(tlb[p], va).fl]
       IN /\ a.trap = {}
          /\ imtlb' = IF mode = "instr" THEN m ELSE imtlb
          /\ dmtlb' = IF mode = "instr" THEN dmtlb ELSE m
  /\ NoTrap
  /\ UNCHANGED <<tlb, regs, asidMoved>>

(* tlb_set_err: the faulting page goes to EntryHi, the ASID stays; an      *)
(* access from the console changes nothing.                                *)
XlateFault(mode, va) ==
  /\ Xlate(mode, va).trap # {}
  /\ IF mode \in Con
     THEN NoTrap /\ UNCHANGED <<enthi, mtlbs, asidMoved>>
     ELSE /\ traps' = Xlate(mode, va).trap
          /\ enthi' = Asid \cup (va \cap Vpn2Bits)
          /\ InvalidateMini
  /\ UNCHANGED <<tlb, elo0, elo1, pgmask, index, random, wired>>

(* tlb_set_aer: a misaligned address, or one outside the segments the      *)
(* core's mode may use.                                                    *)
AddressError(mode) ==
  /\ IF mode \in Con
     THEN NoTrap /\ UNCHANGED <<mtlbs, asidMoved>>
     ELSE traps' = {TrapOf(mode, "LAER", "SAER")} /\ InvalidateMini
  /\ UNCHANGED <<tlb, regs>>
-----------------------------------------------------------------------------
(* Mutant of Mtc0EntHi: the mini-TLBs outlive the old ASID.                *)
Mtc0EntHiKeepsMini(w) ==
  /\ enthi' = w
  /\ NoTrap
  /\ UNCHANGED <<tlb, mtlbs, elo0, elo1, pgmask, index, random, wired, asidMoved>>

(* MTC0 to the registers of the TLB (cp0_putreg).                          *)
Mtc0EntHi(w) ==
  /\ enthi' = w
  /\ InvalidateMini /\ NoTrap
  /\ UNCHANGED <<tlb, elo0, elo1, pgmask, index, random, wired>>

Mtc0EntLo0(x) ==
  /\ elo0' = x /\ NoTrap
  /\ UNCHANGED <<tlb, mtlbs, enthi, elo1, pgmask, index, random, wired, asidMoved>>

Mtc0EntLo1(x) ==
  /\ elo1' = x /\ NoTrap
  /\ UNCHANGED <<tlb, mtlbs, enthi, elo0, pgmask, index, random, wired, asidMoved>>

Mtc0Mask(m) ==
  /\ pgmask' = m /\ NoTrap
  /\ UNCHANGED <<tlb, mtlbs, enthi, elo0, elo1, index, random, wired, asidMoved>>

Mtc0Index(n) ==
  /\ index' = [index EXCEPT !.n = n] /\ NoTrap
  /\ UNCHANGED <<tlb, mtlbs, enthi, elo0, elo1, pgmask, random, wired, asidMoved>>

Mtc0Wired(w) ==
  /\ wired' = w /\ random' = TLB_LNT - 1 /\ NoTrap
  /\ UNCHANGED <<tlb, mtlbs, enthi, elo0, elo1, pgmask, index, asidMoved>>

-----------------------------------------------------------------------------
(* TLBP.                                                                   *)
Tlbp ==
  LET hit == Lookup(tlb, enthi, Asid) IN
  /\ \/ hit = {} /\ index' = [p |-> TRUE, n |-> 0]
     \/ \E p \in hit : index' = [p |-> FALSE, n |-> tlb[p].indx]
  /\ NoTrap
  /\ UNCHANGED <<tlb, mtlbs, enthi, elo0, elo1, pgmask, random, wired, asidMoved>>

(* TLBR: tlb_read, tlb_read_ent.  PageMask is not loaded, and the          *)
(* mini-TLBs keep what they hold.                                          *)
Tlbr ==
  /\ ~index.p /\ index.n < TLB_LNT
  /\ \E s \in Slots :
       LET e == tlb[s]
           g == IF GBit \in e.tag THEN {"G"} ELSE {}
       IN /\ e.indx = index.n
          /\ elo0' = [pfn |-> e.pfn0, fl |-> e.f0 \cup g]
          /\ elo1' = [pfn |-> e.pfn1, fl |-> e.f1 \cup g]
          /\ enthi' = e.tag \cap (Vpn2Bits \cup AsidBits)
          /\ asidMoved' = (asidMoved \/ e.tag \cap AsidBits # Asid)
  /\ NoTrap
  /\ UNCHANGED <<tlb, mtlbs, pgmask, index, random, wired>>

(* An index no entry has: a simulation error.  A failed probe is such an   *)
(* index, for the test is of the whole register.                           *)
TlbrBad ==
  /\ index.p \/ index.n >= TLB_LNT
  /\ traps' = {"SIER"}
  /\ UNCHANGED <<tlb, mtlbs, regs, asidMoved>>

(* tlb_write_ent: the entry the registers describe.                        *)
NewEntry(i) ==
  [indx |-> i,
   tag  |-> (enthi \cap Vpn2Bits)
            \cup IF "G" \in elo0.fl \cap elo1.fl THEN {GBit} ELSE Asid,
   mask |-> pgmask,
   pfn0 |-> elo0.pfn, f0 |-> elo0.fl \ {"G"},
   pfn1 |-> elo1.pfn, f1 |-> elo1.fl \ {"G"}]

(* Mutants of Duplicate: the global flag, or the other entry's page size,  *)
(* is forgotten.                                                           *)
DuplicatePrivate(i) ==
  \E s \in Slots :
    /\ tlb[s].indx # i
    /\ Overlap(tlb[s], NewEntry(i))
    /\ tlb[s].tag \cap AsidBits = Asid

DuplicateNewSize(i) ==
  \E s \in Slots :
    /\ tlb[s].indx # i
    /\ (tlb[s].tag \cap Vpn2Bits) \ pgmask = (enthi \cap Vpn2Bits) \ pgmask
    /\ Overlap(tlb[s], NewEntry(i))

Duplicate(i) == \E s \in Slots : tlb[s].indx # i /\ Overlap(tlb[s], NewEntry(i))

(* qsort: some rearrangement of the entries that is sorted by Key.         *)
SortInto(t) ==
  \E perm \in Bijection(Slots, Slots) :
    /\ tlb' = [s \in Slots |-> t[perm[s]]]
    /\ \A a, b \in Slots : a < b => ~Less(Key(tlb'[b]), Key(tlb'[a]))

(* Mutant of WriteEntry: the mini-TLBs are kept.                           *)
WriteEntryKeepsMini(i) ==
  /\ UNCHANGED <<mtlbs, asidMoved>>
  /\ IF i >= TLB_LNT
     THEN traps' = {"SIER"} /\ UNCHANGED tlb
     ELSE IF Duplicate(i)
     THEN traps' = {"MCHK"} /\ UNCHANGED tlb
     ELSE /\ SortInto([s \in Slots |-> IF tlb[s].indx = i THEN NewEntry(i) ELSE tlb[s]])
          /\ NoTrap

(* tlb_write_i, reached from TLBWI and TLBWR.                              *)
WriteEntry(i) ==
  /\ InvalidateMini
  /\ IF i >= TLB_LNT
     THEN traps' = {"SIER"} /\ UNCHANGED tlb
     ELSE IF Duplicate(i)
     THEN traps' = {"MCHK"} /\ UNCHANGED tlb
     ELSE /\ SortInto([s \in Slots |-> IF tlb[s].indx = i THEN NewEntry(i) ELSE tlb[s]])
          /\ NoTrap

Tlbwi ==
  /\ WriteEntry(index.n)
  /\ UNCHANGED <<enthi, elo0, elo1, pgmask, index, random, wired>>

(* Mutant of Tlbwr: Random wraps a step late.                              *)
TlbwrLateWrap ==
  /\ WriteEntry(random)
  /\ random' = IF random < wired THEN TLB_LNT - 1 ELSE random - 1
  /\ UNCHANGED <<enthi, elo0, elo1, pgmask, index, wired>>

Tlbwr ==
  /\ WriteEntry(random)
  /\ random' = IF random <= wired THEN TLB_LNT - 1 ELSE random - 1
  /\ UNCHANGED <<enthi, elo0, elo1, pgmask, index, wired>>
-----------------------------------------------------------------------------
(* tlb_init.                                                               *)
InitTlb ==
  [s \in Slots |->
     [indx |-> s, tag |-> XkphysBits \cup InitVpn2[s], mask |-> {},
      pfn0 |-> {}, f0 |-> {}, pfn1 |-> {PageBit}, f1 |-> {}]]

(* cpu_reset; with the power-up switch -P the TLB is initialised too.      *)
Reset(powerUp) ==
  /\ random' = TLB_LNT - 1 /\ wired' = 0 /\ NoTrap
  /\ IF powerUp THEN tlb' = InitTlb /\ InvalidateMini
                ELSE UNCHANGED <<tlb, mtlbs, asidMoved>>
  /\ UNCHANGED <<enthi, elo0, elo1, pgmask, index>>

Init ==
  /\ tlb = InitTlb
  /\ imtlb = NoMini /\ dmtlb = NoMini /\ asidMoved = FALSE
  /\ enthi = {} /\ pgmask = {}
  /\ elo0 = [pfn |-> {}, fl |-> {}] /\ elo1 = [pfn |-> {}, fl |-> {}]
  /\ index = [p |-> FALSE, n |-> 0]
  /\ random = TLB_LNT - 1 /\ wired = 0
  /\ traps = {}

Access ==
  \E mode \in Modes, va \in MappedVas :
    XlateMini(mode, va) \/ XlateTlb(mode, va) \/ XlateFault(mode, va)

Mtc0 ==
  \/ \E w \in EntHis : Mtc0EntHi(w)
  \/ \E x \in EntLo0s : Mtc0EntLo0(x)
  \/ \E x \in EntLo1s : Mtc0EntLo1(x)
  \/ \E m \in Masks : Mtc0Mask(m)
  \/ \E n \in Indexes : Mtc0Index(n)
  \/ \E w \in Wireds : Mtc0Wired(w)

Next ==
  \/ Access
  \/ \E mode \in Modes : AddressError(mode)
  \/ Mtc0
  \/ Tlbp \/ Tlbr \/ TlbrBad \/ Tlbwi \/ Tlbwr
  \/ \E powerUp \in BOOLEAN : Reset(powerUp)

Spec == Init /\ [][Next]_vars
-----------------------------------------------------------------------------
(* Types of every variable (sc1_defs.h, CORECTX and TLBENT).               *)
TypeOK ==
  /\ tlb \in [Slots -> Entry]
  /\ imtlb \in MiniTlb /\ dmtlb \in MiniTlb
  /\ enthi \in SUBSET (Vpn2Bits \cup AsidBits)
  /\ elo0 \in EntLo /\ elo1 \in EntLo
  /\ pgmask \in PageMask
  /\ index \in [p : BOOLEAN, n : 0 .. TLB_LNT]
  /\ random \in Slots /\ wired \in Slots
  /\ traps \in SUBSET TrapKinds
  /\ asidMoved \in BOOLEAN

(* Every index of the real TLB is in the table once, the table is in       *)
(* order, and no two of its entries overlap, after every write and sort.   *)
TableInv == IndexOnce(tlb) /\ Sorted(tlb) /\ Disjoint(tlb)

(* tlb_write_i's machine check keeps out a second translation: no address  *)
(* has two of them in one address space.                                   *)
UniqueMatch ==
  \A va \in MappedVas, asid \in SUBSET AsidBits, a, b \in Slots :
    Covers(tlb[a], va, asid) /\ Covers(tlb[b], va, asid) => a = b

(* TLBWR's index never falls below Wired, even when its write is rejected. *)
RandomAboveWired == wired <= random /\ random < TLB_LNT

(* What a valid mini-TLB holds was answered by an entry still in the TLB.  *)
Backed(m) ==
  m = NoMini \/ \E s \in Slots, asid \in SUBSET AsidBits :
                  /\ Covers(tlb[s], m.tag, asid)
                  /\ Half(tlb[s], m.tag).fl = m.fl /\ "V" \in m.fl
                  /\ Answer(tlb[s], "read", m.tag).pa = m.pfn
MiniTlbsBacked == Backed(imtlb) /\ Backed(dmtlb)

(* The translation the architecture defines: by the one entry that covers  *)
(* the address for the current ASID, wherever it is in the table.          *)
RefXlate(mode, va) ==
  LET hit == {s \in Slots : Covers(tlb[s], va, Asid)}
  IN IF hit = {} THEN Miss(mode)
     ELSE Answer(tlb[CHOOSE s \in hit : TRUE], mode, va)

(* Mini-TLBs, binary search and table agree with that definition for every *)
(* access, as long as no TLBR changed the ASID behind the mini-TLBs and no *)
(* two page sizes overlap.                                                 *)
XlateAgrees ==
  ~asidMoved /\ UniformOverlaps(tlb) =>
    \A mode \in Modes, va \in MappedVas : Xlate(mode, va) = RefXlate(mode, va)

(* "The TLB is sorted by tag for faster searching": the search finds what  *)
(* the table holds.                                                        *)
SearchFinds ==
  \A va \in MappedVas : 
    (\E s \in Slots : Covers(tlb[s], va, Asid)) => Lookup(tlb, va, Asid) # {}

(* A store is let through only to a page an entry has marked dirty, by     *)
(* whichever way it was translated.                                        *)
StoresNeedDirty ==
  \A va \in MappedVas :
    Xlate("write", va).trap = {} =>
      \E s \in Slots, asid \in SUBSET AsidBits :
        Covers(tlb[s], va, asid) /\ {"V", "D"} \subseteq Half(tlb[s], va).fl

(* A wired entry is replaced only by an indexed write of its own index.    *)
EntryOf(t, i) == CHOOSE e \in {t[s] : s \in Slots} : e.indx = i
WiredKept ==
  [][\A i \in 0 .. wired - 1 :
       EntryOf(tlb', i) # EntryOf(tlb, i) => index.n = i \/ tlb' = InitTlb]_vars
=============================================================================
