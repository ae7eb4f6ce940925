----------------------------- MODULE MmuProofs -----------------------------
(***************************************************************************)
(* What holds of the TLB of every size and of every program that runs over *)
(* it: the table stays a sorted set of entries that never overlap, and the *)
(* mini-TLBs hold nothing the table does not.                              *)
(***************************************************************************)
EXTENDS Mmu, TlbEntryProofs

LEMMA LessAsym ==
  ASSUME NEW a \in SUBSET (0 .. 63), NEW b \in SUBSET (0 .. 63), Less(a, b)
  PROVE  ~Less(b, a) /\ a # b
<1>1. PICK k \in b \ a : \A j \in a \ b : j < k
  BY DEF Less
<1>2. ASSUME NEW i \in a \ b, \A j \in b \ a : j < i PROVE FALSE
  <2>1. i < k /\ k < i /\ i \in Int /\ k \in Int
    BY <1>1, <1>2
  <2> QED BY <2>1
<1> QED BY <1>1, <1>2 DEF Less

LEMMA OverlapSymmetric ==
  ASSUME NEW a, NEW b, Overlap(a, b)
  PROVE  Overlap(b, a)
BY DEF Overlap

-----------------------------------------------------------------------------
LEMMA NewEntryType ==
  ASSUME TypeOK, NEW i \in Slots
  PROVE  NewEntry(i) \in Entry
BY DEF TypeOK, NewEntry, Entry, EntLo, TagBits, Asid

LEMMA InitTlbType == InitTlb \in [Slots -> Entry]
<1> SUFFICES ASSUME NEW s \in Slots PROVE InitTlb[s] \in Entry
  BY DEF InitTlb
<1>1. XkphysBits \cup InitVpn2[s] \in SUBSET TagBits
  BY InitAssumption, BitsAssumption DEF TagBits
<1>2. {PageBit} \in SUBSET VaBits
  BY DEF VaBits
<1> QED BY <1>1, <1>2, InitAssumption DEF InitTlb, Entry

(* Sorting moves the entries of a table t about, each to one slot.         *)
LEMMA SortMoves ==
  ASSUME NEW t, SortInto(t)
  PROVE  \E perm \in [Slots -> Slots] :
           /\ tlb' = [s \in Slots |-> t[perm[s]]]
           /\ \A a, b \in Slots : perm[a] = perm[b] => a = b
           /\ \A s \in Slots : \E r \in Slots : perm[r] = s
<1>1. PICK perm \in Bijection(Slots, Slots) : tlb' = [s \in Slots |-> t[perm[s]]]
  BY DEF SortInto
<1>2. /\ perm \in [Slots -> Slots]
      /\ \A a, b \in Slots : perm[a] = perm[b] => a = b
      /\ \A s \in Slots : \E r \in Slots : perm[r] = s
  BY <1>1 DEF Bijection, Injection, Surjection, IsInjective
<1> QED BY <1>1, <1>2

(* A write of entry i that is not rejected: the table it leaves.           *)
LEMMA WriteTable ==
  ASSUME TypeOK, NEW i \in 0 .. TLB_LNT, WriteEntry(i), tlb' # tlb
  PROVE  /\ i \in Slots /\ ~Duplicate(i)
         /\ SortInto([s \in Slots |-> IF tlb[s].indx = i THEN NewEntry(i) ELSE tlb[s]])
BY TlbLntAssumption DEF WriteEntry, Slots

LEMMA WriteType ==
  ASSUME TypeOK, NEW i \in 0 .. TLB_LNT, WriteEntry(i)
  PROVE  /\ tlb' \in [Slots -> Entry]
         /\ imtlb' = NoMini /\ dmtlb' = NoMini /\ asidMoved' = FALSE
         /\ traps' \in SUBSET TrapKinds
<1>1. tlb' \in [Slots -> Entry]
  <2>1. CASE tlb' = tlb
    BY <2>1 DEF TypeOK
  <2>2. CASE tlb' # tlb
    <3> DEFINE t == [s \in Slots |-> IF tlb[s].indx = i THEN NewEntry(i) ELSE tlb[s]]
    <3>1. i \in Slots /\ SortInto(t)
      BY <2>2, WriteTable
    <3>2. t \in [Slots -> Entry]
      BY <3>1, NewEntryType DEF TypeOK
    <3> HIDE DEF t
    <3>3. PICK perm \in [Slots -> Slots] :
            /\ tlb' = [s \in Slots |-> t[perm[s]]]
            /\ \A a, b \in Slots : perm[a] = perm[b] => a = b
            /\ \A s \in Slots : \E r \in Slots : perm[r] = s
      BY <3>1, SortMoves
    <3> QED BY <3>2, <3>3
  <2> QED BY <2>1, <2>2
<1>2. traps' \in SUBSET TrapKinds
  BY DEF WriteEntry, NoTrap, TrapKinds
<1> QED BY <1>1, <1>2 DEF WriteEntry, InvalidateMini

LEMMA NoMiniType == NoMini \in MiniTlb
BY BitsAssumption DEF NoMini, MiniTlb, VaBits

(* What a mini-TLB holds is what an entry answers for the current ASID,    *)
(* unless TLBR moved the ASID since it was filled.                         *)
Current(m) ==
  m = NoMini \/ \E s \in Slots :
                  /\ Covers(tlb[s], m.tag, Asid)
                  /\ Half(tlb[s], m.tag).fl = m.fl /\ "V" \in m.fl
                  /\ Answer(tlb[s], "read", m.tag).pa = m.pfn
MiniTlbsCurrent == ~asidMoved => Current(imtlb) /\ Current(dmtlb)

(* What a hit puts into a mini-TLB is backed by the entry that was hit.    *)
LEMMA FillBacked ==
  ASSUME TypeOK, NEW mode, NEW va \in SUBSET VaBits, NEW p \in Lookup(tlb, va, Asid),
         Answer(tlb[p], mode, va).trap = {}
  PROVE  LET m == [tag |-> va, pfn |-> Answer(tlb[p], mode, va).pa,
                   fl |-> Half(tlb[p], va).fl]
         IN m \in MiniTlb /\ Backed(m) /\ Current(m)
<1> DEFINE h == Half(tlb[p], va)
           m == [tag |-> va, pfn |-> Answer(tlb[p], mode, va).pa, fl |-> h.fl]
<1>1. p \in Slots /\ Covers(tlb[p], va, Asid) /\ Asid \in SUBSET AsidBits
  BY LookupSound DEF Asid
<1>2. tlb[p] \in Entry
  BY <1>1 DEF TypeOK
<1>3. h \in [pfn : SUBSET VaBits, fl : SUBSET {"V", "D"}]
  BY <1>2 DEF Half, Entry
<1> HIDE DEF h
<1>4. "V" \in h.fl /\ Answer(tlb[p], mode, va).pa = h.pfn \cup PageOffset(tlb[p].mask, va)
  BY DEF Answer, h
<1>5. Answer(tlb[p], "read", va).pa = h.pfn \cup PageOffset(tlb[p].mask, va)
  BY <1>4 DEF Answer, h, Store, Writes
<1>6. PageOffset(tlb[p].mask, va) \in SUBSET VaBits
  BY DEF PageOffset
<1>7. m \in MiniTlb
  BY <1>3, <1>4, <1>6 DEF MiniTlb
<1>8. m.tag = va /\ m.pfn = h.pfn \cup PageOffset(tlb[p].mask, va) /\ m.fl = h.fl
  BY <1>4
<1>9. Current(m)
  <2> HIDE DEF m
  <2> QED BY <1>1, <1>4, <1>5, <1>8 DEF Current, h
<1>10. Backed(m)
  <2> HIDE DEF m
  <2> QED BY <1>1, <1>9 DEF Current, Backed
<1> QED BY <1>7, <1>9, <1>10 DEF h
-----------------------------------------------------------------------------
(* Type correctness.                                                       *)
LEMMA TypeInit == Init => TypeOK
<1> SUFFICES ASSUME Init PROVE TypeOK
  OBVIOUS
<1>1. tlb \in [Slots -> Entry]
  BY InitTlbType DEF Init
<1>2. imtlb \in MiniTlb /\ dmtlb \in MiniTlb
  BY NoMiniType DEF Init
<1>3. TLB_LNT - 1 \in Slots /\ 0 \in Slots
  BY TlbLntAssumption DEF Slots
<1>4. pgmask \in PageMask /\ enthi \in SUBSET (Vpn2Bits \cup AsidBits)
  BY InitAssumption DEF Init
<1>5. elo0 \in EntLo /\ elo1 \in EntLo
  BY DEF Init, EntLo
<1>6. index \in [p : BOOLEAN, n : 0 .. TLB_LNT]
  <2>1. 0 \in 0 .. TLB_LNT
    BY TlbLntAssumption
  <2> QED BY <2>1 DEF Init
<1>7. traps \in SUBSET TrapKinds /\ asidMoved \in BOOLEAN
  BY DEF Init
<1>8. random \in Slots /\ wired \in Slots
  BY <1>3 DEF Init
<1> QED BY <1>1, <1>2, <1>4, <1>5, <1>6, <1>7, <1>8 DEF TypeOK

LEMMA XlateType ==
  ASSUME TypeOK, NEW mode \in Modes, NEW va \in MappedVas,
         XlateMini(mode, va) \/ XlateTlb(mode, va) \/ XlateFault(mode, va)
  PROVE  TypeOK'
<1>1. va \in SUBSET VaBits
  BY SoftwareAssumption
<1>2. CASE XlateMini(mode, va)
  BY <1>2 DEF XlateMini, TypeOK, NoTrap, mtlbs, regs
<1>3. CASE XlateTlb(mode, va)
  <2>1. PICK p \in Lookup(tlb, va, Asid) :
          LET m == [tag |-> va, pfn |-> Answer(tlb[p], mode, va).pa,
                    fl |-> Half(tlb[p], va).fl]
          IN /\ Answer(tlb[p], mode, va).trap = {}
             /\ imtlb' = IF mode = "instr" THEN m ELSE imtlb
             /\ dmtlb' = IF mode = "instr" THEN dmtlb ELSE m
    BY <1>3 DEF XlateTlb
  <2>2. imtlb' \in MiniTlb /\ dmtlb' \in MiniTlb
    BY <1>1, <2>1, FillBacked DEF TypeOK
  <2> QED BY <1>3, <2>2 DEF XlateTlb, TypeOK, NoTrap, regs
<1>4. CASE XlateFault(mode, va)
  <2>1. enthi' \in SUBSET (Vpn2Bits \cup AsidBits)
    BY <1>4 DEF XlateFault, TypeOK, Asid
  <2>2. imtlb' \in MiniTlb /\ dmtlb' \in MiniTlb /\ asidMoved' \in BOOLEAN
    BY <1>4, NoMiniType DEF XlateFault, TypeOK, InvalidateMini, mtlbs
  <2>3. Xlate(mode, va).trap \in SUBSET TrapKinds
    BY DEF Xlate, Answer, Miss, TrapOf, TrapKinds
  <2>4. traps' \in SUBSET TrapKinds
    BY <1>4, <2>3 DEF XlateFault, NoTrap
  <2> QED BY <1>4, <2>1, <2>2, <2>4 DEF XlateFault, TypeOK
<1> QED BY <1>2, <1>3, <1>4

LEMMA Mtc0Type == TypeOK /\ Mtc0 => TypeOK'
<1> SUFFICES ASSUME TypeOK, Mtc0 PROVE TypeOK'
  OBVIOUS
<1> USE DEF TypeOK, NoTrap, mtlbs
<1>1. ASSUME NEW w \in EntHis, Mtc0EntHi(w) PROVE TypeOK'
  BY <1>1, SoftwareAssumption, NoMiniType DEF Mtc0EntHi, InvalidateMini
<1>2. ASSUME NEW x \in EntLo0s, Mtc0EntLo0(x) PROVE TypeOK'
  BY <1>2, SoftwareAssumption DEF Mtc0EntLo0
<1>3. ASSUME NEW x \in EntLo1s, Mtc0EntLo1(x) PROVE TypeOK'
  BY <1>3, SoftwareAssumption DEF Mtc0EntLo1
<1>4. ASSUME NEW m \in Masks, Mtc0Mask(m) PROVE TypeOK'
  BY <1>4, SoftwareAssumption DEF Mtc0Mask
<1>5. ASSUME NEW n \in Indexes, Mtc0Index(n) PROVE TypeOK'
  BY <1>5, SoftwareAssumption DEF Mtc0Index
<1>6. ASSUME NEW w \in Wireds, Mtc0Wired(w) PROVE TypeOK'
  BY <1>6, SoftwareAssumption, TlbLntAssumption DEF Mtc0Wired, Slots
<1> QED BY <1>1, <1>2, <1>3, <1>4, <1>5, <1>6 DEF Mtc0

LEMMA TlbOpType ==
  ASSUME TypeOK, Tlbp \/ Tlbr \/ TlbrBad \/ Tlbwi \/ Tlbwr
  PROVE  TypeOK'
<1>1. CASE Tlbp
  <2>1. 0 \in 0 .. TLB_LNT
    BY TlbLntAssumption
  <2>2. ASSUME NEW p \in Lookup(tlb, enthi, Asid) PROVE tlb[p].indx \in 0 .. TLB_LNT
    <3>1. tlb[p].indx \in Slots
      BY LookupSound DEF TypeOK, Entry
    <3> QED BY <3>1, TlbLntAssumption DEF Slots
  <2>3. index' \in [p : BOOLEAN, n : 0 .. TLB_LNT]
    <3>1. CASE index' = [p |-> TRUE, n |-> 0]
      BY <2>1, <3>1
    <3>2. CASE \E p \in Lookup(tlb, enthi, Asid) :
                 index' = [p |-> FALSE, n |-> tlb[p].indx]
      <4>1. PICK p \in Lookup(tlb, enthi, Asid) :
              index' = [p |-> FALSE, n |-> tlb[p].indx]
        BY <3>2
      <4>2. tlb[p].indx \in 0 .. TLB_LNT
        BY <2>2
      <4> QED BY <4>1, <4>2
    <3> QED BY <1>1, <3>1, <3>2 DEF Tlbp
  <2> QED BY <1>1, <2>3 DEF Tlbp, TypeOK, NoTrap, mtlbs
<1>2. CASE Tlbr
  <2>1. PICK s \in Slots :
          LET g == IF GBit \in tlb[s].tag THEN {"G"} ELSE {}
          IN /\ elo0' = [pfn |-> tlb[s].pfn0, fl |-> tlb[s].f0 \cup g]
             /\ elo1' = [pfn |-> tlb[s].pfn1, fl |-> tlb[s].f1 \cup g]
             /\ enthi' = tlb[s].tag \cap (Vpn2Bits \cup AsidBits)
             /\ asidMoved' = (asidMoved \/ tlb[s].tag \cap AsidBits # Asid)
    BY <1>2 DEF Tlbr
  <2>2. tlb[s] \in Entry
    BY DEF TypeOK
  <2>3. elo0' \in EntLo /\ elo1' \in EntLo
    BY <2>1, <2>2 DEF Entry, EntLo
  <2>4. enthi' \in SUBSET (Vpn2Bits \cup AsidBits) /\ asidMoved' \in BOOLEAN
    BY <2>1 DEF TypeOK
  <2> QED BY <1>2, <2>3, <2>4 DEF Tlbr, TypeOK, NoTrap, mtlbs
<1>3. CASE TlbrBad
  BY <1>3 DEF TlbrBad, TypeOK, TrapKinds, mtlbs, regs
<1>4. CASE Tlbwi
  <2>1. index.n \in 0 .. TLB_LNT
    BY DEF TypeOK
  <2>2. WriteEntry(index.n)
    BY <1>4 DEF Tlbwi
  <2> QED BY <1>4, <2>1, <2>2, WriteType, NoMiniType DEF Tlbwi, TypeOK
<1>5. CASE Tlbwr
  <2>1. random \in 0 .. TLB_LNT
    BY TlbLntAssumption DEF TypeOK, Slots
  <2>2. WriteEntry(random)
    BY <1>5 DEF Tlbwr
  <2>3. random' \in Slots
    BY <1>5, TlbLntAssumption DEF Tlbwr, TypeOK, Slots
  <2> QED BY <1>5, <2>1, <2>2, <2>3, WriteType, NoMiniType DEF Tlbwr, TypeOK
<1> QED BY <1>1, <1>2, <1>3, <1>4, <1>5

LEMMA ResetType ==
  ASSUME TypeOK, NEW powerUp \in BOOLEAN, Reset(powerUp)
  PROVE  TypeOK'
<1>1. TLB_LNT - 1 \in Slots /\ 0 \in Slots
  BY TlbLntAssumption DEF Slots
<1>2. tlb' \in [Slots -> Entry] /\ imtlb' \in MiniTlb /\ dmtlb' \in MiniTlb
      /\ asidMoved' \in BOOLEAN
  BY InitTlbType, NoMiniType DEF Reset, TypeOK, InvalidateMini, mtlbs
<1> QED BY <1>1, <1>2 DEF Reset, TypeOK, NoTrap

LEMMA TypeStep == TypeOK /\ [Next]_vars => TypeOK'
<1> SUFFICES ASSUME TypeOK, [Next]_vars PROVE TypeOK'
  OBVIOUS
<1>1. CASE Access
  BY <1>1, XlateType DEF Access
<1>2. ASSUME NEW mode \in Modes, AddressError(mode) PROVE TypeOK'
  BY <1>2, NoMiniType
  DEF AddressError, TypeOK, InvalidateMini, NoTrap, TrapOf, TrapKinds, mtlbs, regs
<1>3. CASE Mtc0
  BY <1>3, Mtc0Type
<1>4. CASE Tlbp \/ Tlbr \/ TlbrBad \/ Tlbwi \/ Tlbwr
  BY <1>4, TlbOpType
<1>5. ASSUME NEW powerUp \in BOOLEAN, Reset(powerUp) PROVE TypeOK'
  BY <1>5, ResetType
<1>6. CASE UNCHANGED vars
  BY <1>6 DEF vars, mtlbs, regs, TypeOK
<1> QED BY <1>1, <1>2, <1>3, <1>4, <1>5, <1>6 DEF Next

(* The registers, the TLB and the mini-TLBs keep their types.              *)
THEOREM TypeCorrect == Spec => []TypeOK
BY TypeInit, TypeStep, PTL DEF Spec
-----------------------------------------------------------------------------
(* What a step may do to the table: nothing, a power-up reset, or a write  *)
(* by TLBWI or TLBWR.                                                      *)
LEMMA TableStep ==
  ASSUME TypeOK, [Next]_vars
  PROVE  \/ tlb' = tlb
         \/ tlb' = InitTlb /\ imtlb' = NoMini /\ dmtlb' = NoMini
         \/ \E i \in 0 .. TLB_LNT : (i = index.n \/ i = random) /\ WriteEntry(i)
<1>1. CASE Access
  BY <1>1 DEF Access, XlateMini, XlateTlb, XlateFault
<1>2. ASSUME NEW mode \in Modes, AddressError(mode) PROVE tlb' = tlb
  BY <1>2 DEF AddressError
<1>3. CASE Mtc0
  BY <1>3 DEF Mtc0, Mtc0EntHi, Mtc0EntLo0, Mtc0EntLo1, Mtc0Mask, Mtc0Index, Mtc0Wired
<1>4. CASE Tlbp \/ Tlbr \/ TlbrBad
  BY <1>4 DEF Tlbp, Tlbr, TlbrBad
<1>5. CASE Tlbwi
  <2>1. index.n \in 0 .. TLB_LNT
    BY DEF TypeOK
  <2> QED BY <1>5, <2>1 DEF Tlbwi
<1>6. CASE Tlbwr
  <2>1. random \in 0 .. TLB_LNT
    BY TlbLntAssumption DEF TypeOK, Slots
  <2> QED BY <1>6, <2>1 DEF Tlbwr
<1>7. ASSUME NEW powerUp \in BOOLEAN, Reset(powerUp)
      PROVE  tlb' = tlb \/ (tlb' = InitTlb /\ imtlb' = NoMini /\ dmtlb' = NoMini)
  BY <1>7 DEF Reset, InvalidateMini
<1>8. CASE UNCHANGED vars
  BY <1>8 DEF vars
<1> QED BY <1>1, <1>2, <1>3, <1>4, <1>5, <1>6, <1>7, <1>8 DEF Next

(* The entries tlb_init leaves differ in their page pairs, and are in      *)
(* order.                                                                  *)
LEMMA InitTable == IndexOnce(InitTlb) /\ Sorted(InitTlb) /\ Disjoint(InitTlb)
<1>1. ASSUME NEW a \in Slots, NEW b \in Slots, a < b
      PROVE  ~Less(Key(InitTlb[b]), Key(InitTlb[a])) /\ InitVpn2[a] # InitVpn2[b]
  <2> DEFINE u == InitVpn2[a]
             v == InitVpn2[b]
  <2>1. Less(u, v)
    BY <1>1, InitAssumption
  <2>2. /\ u \subseteq Vpn2Bits \ XkphysBits /\ v \subseteq Vpn2Bits \ XkphysBits
        /\ XkphysBits \cup u \in SUBSET (0 .. 63) /\ XkphysBits \cup v \in SUBSET (0 .. 63)
        /\ u \in SUBSET (0 .. 63) /\ v \in SUBSET (0 .. 63)
    BY InitAssumption, BitsAssumption
  <2>3. Key(InitTlb[a]) = XkphysBits \cup u /\ Key(InitTlb[b]) = XkphysBits \cup v
    BY DEF Key, InitTlb
  <2> HIDE DEF u, v
  <2>4. Less(XkphysBits \cup u, XkphysBits \cup v)
    BY <2>1, <2>2 DEF Less
  <2>5. ~Less(XkphysBits \cup v, XkphysBits \cup u)
    BY <2>2, <2>4, LessAsym
  <2>6. u # v
    BY <2>1, <2>2, LessAsym
  <2> QED BY <2>3, <2>5, <2>6 DEF u, v
<1>2. Sorted(InitTlb)
  BY <1>1 DEF Sorted
<1>3. IndexOnce(InitTlb)
  BY DEF IndexOnce, InitTlb
<1>4. ASSUME NEW a \in Slots, NEW b \in Slots, a # b
      PROVE  ~Overlap(InitTlb[a], InitTlb[b])
  <2>1. a < b \/ b < a
    BY <1>4, TlbLntAssumption DEF Slots
  <2>2. InitVpn2[a] # InitVpn2[b]
    BY <1>1, <2>1
  <2>3. InitVpn2[a] \subseteq Vpn2Bits \ XkphysBits
        /\ InitVpn2[b] \subseteq Vpn2Bits \ XkphysBits /\ XkphysBits \subseteq Vpn2Bits
    BY InitAssumption, BitsAssumption
  <2>4. ASSUME NEW s \in {a, b}
        PROVE  InitTlb[s].tag = XkphysBits \cup InitVpn2[s] /\ InitTlb[s].mask = {}
    BY DEF InitTlb
  <2>5. (InitTlb[a].tag \cap Vpn2Bits) \ (InitTlb[a].mask \cup InitTlb[b].mask)
          = XkphysBits \cup InitVpn2[a]
    BY <2>3, <2>4
  <2>6. (InitTlb[b].tag \cap Vpn2Bits) \ (InitTlb[a].mask \cup InitTlb[b].mask)
          = XkphysBits \cup InitVpn2[b]
    BY <2>3, <2>4
  <2>7. XkphysBits \cup InitVpn2[a] # XkphysBits \cup InitVpn2[b]
    BY <2>2, <2>3
  <2> QED BY <2>5, <2>6, <2>7 DEF Overlap
<1> QED BY <1>2, <1>3, <1>4 DEF Disjoint

(* The check for duplicates keeps the written table free of overlaps, and  *)
(* the sort carries that over to the table in order.                       *)
LEMMA WriteSound ==
  ASSUME TypeOK, TableInv, NEW i \in 0 .. TLB_LNT, WriteEntry(i), tlb' # tlb
  PROVE  TableInv'
<1> DEFINE t == [s \in Slots |-> IF tlb[s].indx = i THEN NewEntry(i) ELSE tlb[s]]
<1>1. i \in Slots /\ ~Duplicate(i) /\ SortInto(t)
  BY WriteTable
<1>2. IndexOnce(t)
  BY DEF IndexOnce, TableInv, NewEntry
<1>3. Disjoint(t)
  <2> HIDE DEF t
  <2>0. /\ \A s \in Slots : t[s] = IF tlb[s].indx = i THEN NewEntry(i) ELSE tlb[s]
        /\ \A r, s \in Slots : tlb[r].indx = i /\ tlb[s].indx = i => r = s
    BY DEF t, TableInv, IndexOnce
  <2> SUFFICES ASSUME NEW a \in Slots, NEW b \in Slots, a # b, Overlap(t[a], t[b])
               PROVE  FALSE
    BY DEF Disjoint
  <2>1. CASE tlb[a].indx # i /\ tlb[b].indx # i
    BY <2>0, <2>1 DEF TableInv, Disjoint
  <2>2. CASE tlb[a].indx = i
    <3>1. tlb[b].indx # i
      BY <2>0, <2>2
    <3>2. Overlap(tlb[b], NewEntry(i))
      BY <2>0, <2>2, <3>1, OverlapSymmetric
    <3> QED BY <1>1, <3>1, <3>2 DEF Duplicate
  <2>3. CASE tlb[b].indx = i
    <3>1. tlb[a].indx # i
      BY <2>0, <2>3
    <3>2. Overlap(tlb[a], NewEntry(i))
      BY <2>0, <2>3, <3>1
    <3> QED BY <1>1, <3>1, <3>2 DEF Duplicate
  <2> QED BY <2>1, <2>2, <2>3
<1> HIDE DEF t
<1>4. Sorted(tlb')
  BY <1>1 DEF SortInto, Sorted
<1>5. PICK perm \in [Slots -> Slots] :
        /\ tlb' = [s \in Slots |-> t[perm[s]]]
        /\ \A a, b \in Slots : perm[a] = perm[b] => a = b
        /\ \A s \in Slots : \E r \in Slots : perm[r] = s
  BY <1>1, SortMoves
<1>6. \A s \in Slots : perm[s] \in Slots /\ tlb'[s] = t[perm[s]]
  BY <1>5
<1>7. IndexOnce(tlb')
  BY <1>2, <1>5, <1>6 DEF IndexOnce
<1>8. Disjoint(tlb')
  BY <1>3, <1>5, <1>6 DEF Disjoint
<1> QED BY <1>4, <1>7, <1>8 DEF TableInv, IndexOnce, Sorted, Disjoint

(* The table stays sorted, with every index once and no two entries that   *)
(* overlap.                                                                *)
THEOREM TableSound == Spec => []TableInv
<1>1. Init => TableInv
  BY InitTable DEF Init, TableInv
<1>2. TypeOK /\ TableInv /\ [Next]_vars => TableInv'
  <2> SUFFICES ASSUME TypeOK, TableInv, [Next]_vars PROVE TableInv'
    OBVIOUS
  <2>1. CASE tlb' = tlb
    BY <2>1 DEF TableInv, IndexOnce, Sorted, Disjoint
  <2>2. CASE tlb' = InitTlb
    BY <2>2, InitTable DEF TableInv, IndexOnce, Sorted, Disjoint
  <2>3. ASSUME NEW i \in 0 .. TLB_LNT, WriteEntry(i) PROVE TableInv'
    BY <2>1, <2>3, WriteSound
  <2> QED BY <2>1, <2>2, <2>3, TableStep
<1> QED BY <1>1, <1>2, TypeCorrect, PTL DEF Spec

(* No address has two translations in one address space.                   *)
THEOREM MatchUnique == Spec => []UniqueMatch
<1>1. TypeOK /\ TableInv => UniqueMatch
  <2> SUFFICES ASSUME TypeOK, TableInv,
                      NEW va \in MappedVas, NEW asid \in SUBSET AsidBits,
                      NEW a \in Slots, NEW b \in Slots,
                      Covers(tlb[a], va, asid), Covers(tlb[b], va, asid), a # b
               PROVE  FALSE
    BY DEF UniqueMatch
  <2>1. tlb[a] \in Entry /\ tlb[b] \in Entry /\ va \in SUBSET VaBits
    BY SoftwareAssumption DEF TypeOK
  <2>2. Overlap(tlb[a], tlb[b])
    BY <2>1, CoversOverlap DEF Entry
  <2> QED BY <2>2 DEF TableInv, Disjoint
<1> QED BY <1>1, TypeCorrect, TableSound, PTL

(* A valid mini-TLB never outlives the entry it was filled from.           *)
THEOREM MiniTlbsSound == Spec => []MiniTlbsBacked
<1>1. Init => MiniTlbsBacked
  BY DEF Init, MiniTlbsBacked, Backed
<1>2. TypeOK /\ MiniTlbsBacked /\ [Next]_vars => MiniTlbsBacked'
  <2> SUFFICES ASSUME TypeOK, MiniTlbsBacked, [Next]_vars PROVE MiniTlbsBacked'
    OBVIOUS
  <2>1. CASE imtlb' = NoMini /\ dmtlb' = NoMini
    BY <2>1 DEF MiniTlbsBacked, Backed
  <2>2. CASE UNCHANGED <<tlb, imtlb, dmtlb>>
    BY <2>2 DEF MiniTlbsBacked, Backed, Answer
  <2>3. ASSUME NEW mode \in Modes, NEW va \in MappedVas, XlateTlb(mode, va)
        PROVE  MiniTlbsBacked'
    <3>1. PICK p \in Lookup(tlb, va, Asid) :
            LET m == [tag |-> va, pfn |-> Answer(tlb[p], mode, va).pa,
                      fl |-> Half(tlb[p], va).fl]
            IN /\ Answer(tlb[p], mode, va).trap = {}
               /\ imtlb' = IF mode = "instr" THEN m ELSE imtlb
               /\ dmtlb' = IF mode = "instr" THEN dmtlb ELSE m
      BY <2>3 DEF XlateTlb
    <3>2. va \in SUBSET VaBits /\ tlb' = tlb
      BY <2>3, SoftwareAssumption DEF XlateTlb
    <3>3. Backed(imtlb') /\ Backed(dmtlb')
      BY <3>1, <3>2, FillBacked DEF MiniTlbsBacked
    <3> QED BY <3>2, <3>3 DEF MiniTlbsBacked, Backed, Answer
  <2>4. \/ imtlb' = NoMini /\ dmtlb' = NoMini
        \/ UNCHANGED <<tlb, imtlb, dmtlb>>
        \/ \E mode \in Modes, va \in MappedVas : XlateTlb(mode, va)
    <3> USE DEF InvalidateMini, mtlbs
    <3>1. CASE Access
      BY <3>1 DEF Access, XlateMini, XlateFault
    <3>2. ASSUME NEW mode \in Modes, AddressError(mode) PROVE <2>4!1 \/ <2>4!2
      BY <3>2 DEF AddressError
    <3>3. CASE Mtc0
      BY <3>3 DEF Mtc0, Mtc0EntHi, Mtc0EntLo0, Mtc0EntLo1, Mtc0Mask, Mtc0Index, Mtc0Wired
    <3>4. CASE Tlbp \/ Tlbr \/ TlbrBad
      BY <3>4 DEF Tlbp, Tlbr, TlbrBad
    <3>5. CASE Tlbwi \/ Tlbwr
      BY <3>5 DEF Tlbwi, Tlbwr, WriteEntry
    <3>6. ASSUME NEW powerUp \in BOOLEAN, Reset(powerUp) PROVE <2>4!1 \/ <2>4!2
      BY <3>6 DEF Reset
    <3>7. CASE UNCHANGED vars
      BY <3>7 DEF vars
    <3> QED BY <3>1, <3>2, <3>3, <3>4, <3>5, <3>6, <3>7 DEF Next
  <2> QED BY <2>1, <2>2, <2>3, <2>4
<1> QED BY <1>1, <1>2, TypeCorrect, PTL DEF Spec

(* Random never leaves the entries from Wired up.                          *)
THEOREM RandomSound == Spec => []RandomAboveWired
<1> USE TlbLntAssumption DEF RandomAboveWired, Slots
<1>1. Init => RandomAboveWired
  BY DEF Init
<1>2. TypeOK /\ RandomAboveWired /\ [Next]_vars => RandomAboveWired'
  <2> SUFFICES ASSUME TypeOK, RandomAboveWired, [Next]_vars PROVE RandomAboveWired'
    OBVIOUS
  <2>1. random \in Slots /\ wired \in Slots
    BY DEF TypeOK
  <2>2. CASE UNCHANGED <<random, wired>>
    BY <2>2
  <2>3. CASE Tlbwr
    BY <2>1, <2>3 DEF Tlbwr
  <2>4. ASSUME NEW w \in Wireds, Mtc0Wired(w) PROVE RandomAboveWired'
    BY <2>4, SoftwareAssumption DEF Mtc0Wired
  <2>5. ASSUME NEW powerUp \in BOOLEAN, Reset(powerUp) PROVE RandomAboveWired'
    BY <2>5 DEF Reset
  <2>6. CASE Access \/ Tlbp \/ Tlbr \/ TlbrBad \/ Tlbwi \/ UNCHANGED vars
    BY <2>2, <2>6 DEF Access, XlateMini, XlateTlb, XlateFault, Tlbp, Tlbr, TlbrBad,
                      Tlbwi, regs, vars
  <2>7. ASSUME NEW mode \in Modes, AddressError(mode) PROVE RandomAboveWired'
    BY <2>2, <2>7 DEF AddressError, regs
  <2>8. CASE Mtc0
    BY <2>2, <2>4, <2>8
    DEF Mtc0, Mtc0EntHi, Mtc0EntLo0, Mtc0EntLo1, Mtc0Mask, Mtc0Index
  <2> QED BY <2>3, <2>5, <2>6, <2>7, <2>8 DEF Next
<1> QED BY <1>1, <1>2, TypeCorrect, PTL DEF Spec

(* A store is translated only by a mini-TLB or an entry that is dirty, and *)
(* what the mini-TLB holds an entry of the table says too.                 *)
THEOREM DirtyNeeded == Spec => []StoresNeedDirty
<1>1. TypeOK /\ MiniTlbsBacked => StoresNeedDirty
  <2> SUFFICES ASSUME TypeOK, MiniTlbsBacked, NEW va \in MappedVas,
                      Xlate("write", va).trap = {}
               PROVE  \E s \in Slots, asid \in SUBSET AsidBits :
                        Covers(tlb[s], va, asid) /\ {"V", "D"} \subseteq Half(tlb[s], va).fl
    BY DEF StoresNeedDirty
  <2>1. CASE MiniHit("write", va)
    <3>1. dmtlb.tag = va /\ "D" \in dmtlb.fl
      BY <2>1 DEF MiniHit, Mini, Store, Writes
    <3>2. dmtlb # NoMini
      BY <3>1 DEF NoMini
    <3> QED BY <3>1, <3>2 DEF MiniTlbsBacked, Backed
  <2>2. CASE ~MiniHit("write", va)
    <3> DEFINE hit == Lookup(tlb, va, Asid)
               p == CHOOSE q \in hit : TRUE
    <3>1. hit # {}
      BY <2>2 DEF Xlate, Miss
    <3>2. p \in hit /\ Answer(tlb[p], "write", va).trap = {}
      BY <2>2, <3>1 DEF Xlate
    <3>3. p \in Slots /\ Covers(tlb[p], va, Asid)
      BY <3>2, LookupSound
    <3> HIDE DEF p, hit
    <3>4. {"V", "D"} \subseteq Half(tlb[p], va).fl
      BY <3>2 DEF Answer, Store, Writes
    <3> QED BY <3>3, <3>4 DEF Asid
  <2> QED BY <2>1, <2>2
<1> QED BY <1>1, TypeCorrect, MiniTlbsSound, PTL
-----------------------------------------------------------------------------
LEMMA MiniTlbsFresh == Spec => []MiniTlbsCurrent
<1>1. Init => MiniTlbsCurrent
  BY DEF Init, MiniTlbsCurrent, Current
<1>2. TypeOK /\ MiniTlbsCurrent /\ [Next]_vars => MiniTlbsCurrent'
  <2> SUFFICES ASSUME TypeOK, MiniTlbsCurrent, [Next]_vars PROVE MiniTlbsCurrent'
    OBVIOUS
  <2> DEFINE Same == /\ UNCHANGED <<tlb, imtlb, dmtlb>>
                     /\ asidMoved' \/ (Asid' = Asid /\ asidMoved' = asidMoved)
  <2>1. CASE imtlb' = NoMini /\ dmtlb' = NoMini
    BY <2>1 DEF MiniTlbsCurrent, Current
  <2>2. CASE Same
    BY <2>2 DEF MiniTlbsCurrent, Current, Answer
  <2>3. ASSUME NEW mode \in Modes, NEW va \in MappedVas, XlateTlb(mode, va)
        PROVE  MiniTlbsCurrent'
    <3>1. PICK p \in Lookup(tlb, va, Asid) :
            LET m == [tag |-> va, pfn |-> Answer(tlb[p], mode, va).pa,
                      fl |-> Half(tlb[p], va).fl]
            IN /\ Answer(tlb[p], mode, va).trap = {}
               /\ imtlb' = IF mode = "instr" THEN m ELSE imtlb
               /\ dmtlb' = IF mode = "instr" THEN dmtlb ELSE m
      BY <2>3 DEF XlateTlb
    <3>2. va \in SUBSET VaBits /\ tlb' = tlb /\ Asid' = Asid /\ asidMoved' = asidMoved
      BY <2>3, SoftwareAssumption DEF XlateTlb, regs, Asid
    <3>3. ~asidMoved => Current(imtlb') /\ Current(dmtlb')
      BY <3>1, <3>2, FillBacked DEF MiniTlbsCurrent
    <3> QED BY <3>2, <3>3 DEF MiniTlbsCurrent, Current, Answer
  <2>4. \/ imtlb' = NoMini /\ dmtlb' = NoMini
        \/ Same
        \/ \E mode \in Modes, va \in MappedVas : XlateTlb(mode, va)
    <3> USE DEF InvalidateMini, mtlbs, Asid
    <3>1. CASE Access
      BY <3>1 DEF Access, XlateMini, XlateFault, regs
    <3>2. ASSUME NEW mode \in Modes, AddressError(mode) PROVE <2>4!1 \/ <2>4!2
      BY <3>2 DEF AddressError, regs
    <3>3. CASE Mtc0
      BY <3>3 DEF Mtc0, Mtc0EntHi, Mtc0EntLo0, Mtc0EntLo1, Mtc0Mask, Mtc0Index, Mtc0Wired
    <3>4. CASE Tlbp \/ TlbrBad
      BY <3>4 DEF Tlbp, TlbrBad, regs
    <3>5. CASE Tlbr
      <4>1. PICK s \in Slots :
              /\ enthi' = tlb[s].tag \cap (Vpn2Bits \cup AsidBits)
              /\ asidMoved' = (asidMoved \/ tlb[s].tag \cap AsidBits # Asid)
        BY <3>5 DEF Tlbr
      <4>2. asidMoved \in BOOLEAN
        BY DEF TypeOK
      <4>3. Asid' = tlb[s].tag \cap AsidBits
        BY <4>1
      <4>4. UNCHANGED <<tlb, imtlb, dmtlb>>
        BY <3>5 DEF Tlbr
      <4> QED BY <4>1, <4>2, <4>3, <4>4
    <3>6. CASE Tlbwi \/ Tlbwr
      BY <3>6 DEF Tlbwi, Tlbwr, WriteEntry
    <3>7. ASSUME NEW powerUp \in BOOLEAN, Reset(powerUp) PROVE <2>4!1 \/ <2>4!2
      BY <3>7 DEF Reset
    <3>8. CASE UNCHANGED vars
      BY <3>8 DEF vars, regs
    <3> QED BY <3>1, <3>2, <3>3, <3>4, <3>5, <3>6, <3>7, <3>8 DEF Next
  <2> QED BY <2>1, <2>2, <2>3, <2>4
<1> QED BY <1>1, <1>2, TypeCorrect, PTL DEF Spec

(* Every access is translated by the one entry that covers it for the      *)
(* current ASID, through whichever mini-TLB and whatever order the table   *)
(* is in: for any number of entries, as long as no two page sizes overlap  *)
(* and no TLBR moved the ASID behind the mini-TLBs.                        *)
THEOREM TranslationCorrect == Spec => []XlateAgrees
<1>1. TypeOK /\ TableInv /\ MiniTlbsCurrent => XlateAgrees
  <2> SUFFICES ASSUME TypeOK, TableInv, MiniTlbsCurrent,
                      ~asidMoved, UniformOverlaps(tlb),
                      NEW mode \in Modes, NEW va \in MappedVas
               PROVE  Xlate(mode, va) = RefXlate(mode, va)
    BY DEF XlateAgrees
  <2> DEFINE hits == {s \in Slots : Covers(tlb[s], va, Asid)}
             m == Mini(mode)
  <2>1. Searchable(tlb) /\ va \in SUBSET VaBits /\ Asid \in SUBSET AsidBits
    BY SoftwareAssumption DEF TypeOK, TableInv, Searchable, IsTable, Entry, Asid
  <2>2. Lookup(tlb, va, Asid) = hits
    BY <2>1, LookupComplete
  <2>3. CASE MiniHit(mode, va)
    <3>1. m # NoMini /\ m.tag = va
      BY <2>3, SoftwareAssumption DEF MiniHit, NoMini
    <3>2. Current(m)
      BY DEF MiniTlbsCurrent, Mini
    <3>3. PICK s \in Slots :
            /\ Covers(tlb[s], va, Asid)
            /\ Half(tlb[s], va).fl = m.fl /\ "V" \in m.fl
            /\ Answer(tlb[s], "read", va).pa = m.pfn
      BY <3>1, <3>2 DEF Current
    <3>4. hits = {s}
      <4>1. ASSUME NEW r \in hits PROVE r = s
        <5>1. tlb[r].mask \in PageMask /\ tlb[s].mask \in PageMask
          BY DEF TypeOK, Entry
        <5>2. Overlap(tlb[r], tlb[s])
          BY <2>1, <3>3, <5>1, CoversOverlap
        <5> QED BY <5>2 DEF TableInv, Disjoint
      <4> QED BY <3>3, <4>1
    <3>5. RefXlate(mode, va) = Answer(tlb[s], mode, va)
      <4>1. (CHOOSE r \in hits : TRUE) = s /\ hits # {}
        BY <3>4
      <4> HIDE DEF hits
      <4>2. RefXlate(mode, va) = IF hits = {} THEN Miss(mode)
                                 ELSE Answer(tlb[CHOOSE r \in hits : TRUE], mode, va)
        BY DEF RefXlate, hits
      <4> QED BY <4>1, <4>2
    <3>6. Answer(tlb[s], mode, va) = [pa |-> m.pfn, trap |-> {}]
      <4>1. Store(mode) => "D" \in Half(tlb[s], va).fl
        BY <2>3, <3>3 DEF MiniHit
      <4> HIDE DEF m
      <4> QED BY <3>3, <4>1 DEF Answer, Store, Writes
    <3>7. Xlate(mode, va) = [pa |-> m.pfn, trap |-> {}]
      BY <2>3 DEF Xlate
    <3> QED BY <3>5, <3>6, <3>7
  <2>4. CASE ~MiniHit(mode, va)
    <3> HIDE DEF hits
    <3>1. Xlate(mode, va) = IF hits = {} THEN Miss(mode)
                            ELSE Answer(tlb[CHOOSE r \in hits : TRUE], mode, va)
      BY <2>2, <2>4 DEF Xlate
    <3>2. RefXlate(mode, va) = IF hits = {} THEN Miss(mode)
                               ELSE Answer(tlb[CHOOSE r \in hits : TRUE], mode, va)
      BY DEF RefXlate, hits
    <3> QED BY <3>1, <3>2
  <2> QED BY <2>3, <2>4
<1> QED BY <1>1, TypeCorrect, TableSound, MiniTlbsFresh, PTL

(* Two page sizes over one range are the only way to lose an entry: as     *)
(* long as there are none, the search finds every translation the table    *)
(* holds.                                                                  *)
THEOREM SearchFindsUniform == Spec => [](UniformOverlaps(tlb) => SearchFinds)
<1>1. TypeOK /\ TableInv => (UniformOverlaps(tlb) => SearchFinds)
  <2> SUFFICES ASSUME TypeOK, TableInv, UniformOverlaps(tlb), NEW va \in MappedVas,
                      NEW s \in Slots, Covers(tlb[s], va, Asid)
               PROVE  Lookup(tlb, va, Asid) # {}
    BY DEF SearchFinds
  <2>1. Searchable(tlb) /\ va \in SUBSET VaBits /\ Asid \in SUBSET AsidBits
    BY SoftwareAssumption DEF TypeOK, TableInv, Searchable, IsTable, Entry, Asid
  <2>2. Lookup(tlb, va, Asid) = {r \in Slots : Covers(tlb[r], va, Asid)}
    BY <2>1, LookupComplete
  <2> QED BY <2>2
<1> QED BY <1>1, TypeCorrect, TableSound, PTL
-----------------------------------------------------------------------------
(* Every index of the real TLB has an entry in the table.                  *)
EveryIndex(t) == \A i \in Slots : \E s \in Slots : t[s].indx = i

LEMMA EntryAt ==
  ASSUME NEW t, IndexOnce(t), NEW s \in Slots
  PROVE  EntryOf(t, t[s].indx) = t[s]
<1>1. \A e \in {t[r] : r \in Slots} : e.indx = t[s].indx => e = t[s]
  BY DEF IndexOnce
<1> QED BY <1>1 DEF EntryOf

(* A write replaces the entry of its own index and of no other.            *)
LEMMA WriteKeeps ==
  ASSUME TypeOK, TableInv, EveryIndex(tlb), NEW j \in 0 .. TLB_LNT,
         WriteEntry(j), tlb' # tlb
  PROVE  /\ EveryIndex(tlb')
         /\ \A i \in Slots \ {j} : EntryOf(tlb', i) = EntryOf(tlb, i)
<1> DEFINE t == [s \in Slots |-> IF tlb[s].indx = j THEN NewEntry(j) ELSE tlb[s]]
<1>1. SortInto(t)
  BY WriteTable
<1>2. \A s \in Slots : t[s].indx = tlb[s].indx /\ (tlb[s].indx # j => t[s] = tlb[s])
  BY DEF NewEntry
<1> HIDE DEF t
<1>3. PICK perm \in [Slots -> Slots] :
        /\ tlb' = [s \in Slots |-> t[perm[s]]]
        /\ \A a, b \in Slots : perm[a] = perm[b] => a = b
        /\ \A s \in Slots : \E r \in Slots : perm[r] = s
  BY <1>1, SortMoves
<1>4. IndexOnce(tlb') /\ IndexOnce(tlb)
  BY WriteSound DEF TableInv, IndexOnce
<1>5. ASSUME NEW i \in Slots
      PROVE  \E r, s \in Slots : /\ tlb'[r].indx = i /\ tlb[s].indx = i
                                 /\ i # j => tlb'[r] = tlb[s]
  <2>1. PICK s \in Slots : tlb[s].indx = i
    BY DEF EveryIndex
  <2>2. PICK r \in Slots : perm[r] = s
    BY <1>3
  <2>3. tlb'[r] = t[s]
    BY <1>3, <2>2
  <2> QED BY <1>2, <2>1, <2>3
<1>6. ASSUME NEW i \in Slots \ {j} PROVE EntryOf(tlb', i) = EntryOf(tlb, i)
  <2>1. PICK r \in Slots, s \in Slots :
          tlb'[r].indx = i /\ tlb[s].indx = i /\ tlb'[r] = tlb[s]
    BY <1>5
  <2>2. EntryOf(tlb', i) = tlb'[r] /\ EntryOf(tlb, i) = tlb[s]
    BY <1>4, <2>1, EntryAt
  <2> QED BY <2>1, <2>2
<1>7. EveryIndex(tlb')
  BY <1>5 DEF EveryIndex
<1> QED BY <1>6, <1>7

LEMMA IndexesKept == Spec => []EveryIndex(tlb)
<1>1. Init => EveryIndex(tlb)
  BY DEF Init, InitTlb, EveryIndex
<1>2. TypeOK /\ TableInv /\ EveryIndex(tlb) /\ [Next]_vars => EveryIndex(tlb)'
  <2> SUFFICES ASSUME TypeOK, TableInv, EveryIndex(tlb), [Next]_vars
               PROVE  EveryIndex(tlb')
    OBVIOUS
  <2>1. CASE tlb' = tlb
    BY <2>1
  <2>2. CASE tlb' = InitTlb
    BY <2>2 DEF InitTlb, EveryIndex
  <2>3. ASSUME NEW i \in 0 .. TLB_LNT, WriteEntry(i) PROVE EveryIndex(tlb')
    BY <2>1, <2>3, WriteKeeps
  <2> QED BY <2>1, <2>2, <2>3, TableStep
<1> QED BY <1>1, <1>2, TypeCorrect, TableSound, PTL DEF Spec

(* TLBWR never replaces a wired entry, whatever the sort did to the table  *)
(* since it was written.                                                   *)
THEOREM WiredEntriesKept == Spec => WiredKept
<1> DEFINE Kept == \A i \in 0 .. wired - 1 :
                     EntryOf(tlb', i) # EntryOf(tlb, i) => index.n = i \/ tlb' = InitTlb
<1>1. TypeOK /\ TableInv /\ RandomAboveWired /\ EveryIndex(tlb) /\ [Next]_vars => [Kept]_vars
  <2> SUFFICES ASSUME TypeOK, TableInv, RandomAboveWired, EveryIndex(tlb), [Next]_vars,
                      NEW i \in 0 .. wired - 1,
                      EntryOf(tlb', i) # EntryOf(tlb, i), tlb' # InitTlb
               PROVE  index.n = i
    OBVIOUS
  <2>1. tlb' # tlb
    OBVIOUS
  <2>2. PICK j \in 0 .. TLB_LNT : (j = index.n \/ j = random) /\ WriteEntry(j)
    BY <2>1, TableStep
  <2>3. i \in Slots /\ i < random
    BY TlbLntAssumption DEF TypeOK, RandomAboveWired, Slots
  <2>4. i = j
    BY <2>1, <2>2, <2>3, WriteKeeps
  <2>5. i # random
    BY <2>3 DEF TypeOK, Slots
  <2> QED BY <2>2, <2>4, <2>5
<1> QED BY <1>1, TypeCorrect, TableSound, RandomSound, IndexesKept, PTL DEF Spec, WiredKept
=============================================================================
