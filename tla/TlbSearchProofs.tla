-------------------------- MODULE TlbSearchProofs --------------------------
(***************************************************************************)
(* The binary searches of tlb_search are correct, for any number of        *)
(* entries and any sound table: a hit serves the address, and a miss means *)
(* that no entry does.                                                     *)
(***************************************************************************)
EXTENDS TlbSearch, TlbEntryProofs

LEMMA TablesSearchable ==
  ASSUME NEW f \in Tables
  PROVE  Searchable(f)
<1>1. ASSUME NEW s \in Slots PROVE f[s].tag \in SUBSET TagBits /\ f[s].mask \in PageMask
  <2>1. f[s] \in [tag : SUBSET TagBits, mask : PageMask]
    BY EntriesAssumption DEF Tables
  <2> QED BY <2>1
<1> QED BY <1>1 DEF Tables, Searchable, IsTable

Inv == TypeOK /\ Remaining /\ Correct

LEMMA Words ==
  ASSUME TypeOK
  PROVE  /\ AsidTag(va, asid) \in SUBSET (0 .. 63)
         /\ GlobalTag(va) \in SUBSET (0 .. 63) /\ GBit \in GlobalTag(va)
BY EntriesAssumption, SearchWords, Bits DEF TypeOK, GlobalTag

LEMMA MidBetween ==
  ASSUME TypeOK
  PROVE  Mid \in Slots /\ lo <= Mid /\ Mid <= hi
<1>1. lo \in Int /\ hi \in Int /\ lo <= hi /\ 0 <= lo /\ hi <= TLB_LNT - 1
  BY TlbLntAssumption DEF TypeOK, Slots
<1>2. Mid \in Int /\ lo <= Mid /\ Mid <= hi
  BY <1>1 DEF Mid
<1> QED BY <1>1, <1>2, TlbLntAssumption DEF Slots

LEMMA InitInv == Init => Inv
<1> SUFFICES ASSUME Init PROVE Inv
  OBVIOUS
<1>1. Slots = 0 .. TLB_LNT - 1 /\ 0 \in Slots /\ TLB_LNT - 1 \in Slots
  BY TlbLntAssumption DEF Slots
<1>2. TypeOK
  BY <1>1, TlbLntAssumption DEF Init, TypeOK, Last
<1>3. Remaining /\ Correct
  BY <1>1 DEF Init, Remaining, Correct, Last
<1> QED BY <1>2, <1>3 DEF Inv

LEMMA AsidStep == Inv /\ ProbeAsid => Inv'
<1> SUFFICES ASSUME Inv, ProbeAsid PROVE Inv'
  OBVIOUS
<1> DEFINE w == AsidTag(va, asid)
<1>1. /\ TypeOK /\ Remaining /\ phase = "asid"
      /\ t \in Tables /\ t' = t /\ va' = va /\ asid' = asid
      /\ Mid \in Slots /\ lo <= Mid /\ Mid <= hi /\ w \in SUBSET (0 .. 63)
      /\ Slots = 0 .. TLB_LNT - 1
  BY Words, MidBetween DEF Inv, ProbeAsid, Probe, TypeOK, Slots
<1>2. w' = w /\ GlobalTag(va)' = GlobalTag(va)
  BY <1>1 DEF AsidTag, GlobalTag
<1>3. CASE TagMatch(w, t[Mid]) /\ phase' = "hit" /\ slot' = Mid /\ UNCHANGED <<lo, hi>>
  <2>1. TypeOK'
    BY <1>1, <1>3 DEF TypeOK
  <2>2. Remaining'
    BY <1>3 DEF Remaining
  <2>3. Correct'
    BY <1>1, <1>3 DEF Correct, Covers
  <2> QED BY <2>1, <2>2, <2>3 DEF Inv
<1>4. CASE ~TagMatch(w, t[Mid]) /\ ~(phase' = "hit")
  <2> DEFINE l == IF Down(w, t[Mid]) THEN lo ELSE Mid + 1
             h == IF Down(w, t[Mid]) THEN Mid - 1 ELSE hi
  <2>1. slot' = slot
    BY <1>4 DEF ProbeAsid, Probe, LoAfter, HiAfter, Last
  <2>2. ASSUME NEW s \in Slots, TagMatch(w, t[s]) PROVE l <= s /\ s <= h
    <3>1. lo <= s /\ s <= hi
      BY <1>1, <2>2 DEF Remaining, TypeOK
    <3>2. (Down(w, t[Mid]) => s < Mid) /\ (~Down(w, t[Mid]) => Mid < s)
      BY <1>1, <1>4, <2>2, AsidProbe, TablesSearchable
    <3> QED BY <1>1, <3>1, <3>2, TlbLntAssumption
  <2>3. CASE l <= h
    <3>1. phase' = "asid" /\ lo' = l /\ hi' = h
      BY <1>4, <2>3 DEF ProbeAsid, Probe, LoAfter, HiAfter, Last
    <3>2. l \in Slots /\ h \in Slots
      BY <1>1, <2>3, TlbLntAssumption DEF TypeOK
    <3>3. TypeOK'
      BY <1>1, <2>1, <2>3, <3>1, <3>2 DEF TypeOK
    <3>4. Remaining'
      <4>1. ASSUME NEW s \in Slots, TagMatch(w, t[s]) PROVE s \in l .. h
        BY <1>1, <2>2, <3>2, <4>1
      <4> HIDE DEF l, h, w
      <4> QED BY <1>1, <1>2, <3>1, <4>1 DEF Remaining, w
    <3>5. Correct'
      BY <3>1 DEF Correct
    <3> QED BY <3>3, <3>4, <3>5 DEF Inv
  <2>4. CASE ~(l <= h)
    <3>1. phase' = "global" /\ lo' = 0 /\ hi' = TLB_LNT - 1
      BY <1>4, <2>4 DEF ProbeAsid, Probe, LoAfter, HiAfter, Last
    <3>2. TypeOK'
      BY <1>1, <2>1, <3>1, TlbLntAssumption DEF TypeOK
    <3>3. ASSUME NEW s \in Slots PROVE ~TagMatch(w, t[s])
      BY <1>1, <2>2, <2>4, TlbLntAssumption DEF TypeOK
    <3>4. Remaining'
      BY <1>1, <1>2, <3>1, <3>3 DEF Remaining
    <3>5. Correct'
      BY <3>1 DEF Correct
    <3> QED BY <3>2, <3>4, <3>5 DEF Inv
  <2> QED BY <2>3, <2>4
<1> QED BY <1>3, <1>4 DEF ProbeAsid, Probe, LoAfter, HiAfter, Last

LEMMA GlobalStep == Inv /\ ProbeGlobal => Inv'
<1> SUFFICES ASSUME Inv, ProbeGlobal PROVE Inv'
  OBVIOUS
<1> DEFINE w == GlobalTag(va)
<1>1. /\ TypeOK /\ Remaining /\ phase = "global"
      /\ t \in Tables /\ t' = t /\ va' = va /\ asid' = asid
      /\ Mid \in Slots /\ lo <= Mid /\ Mid <= hi
      /\ w \in SUBSET (0 .. 63) /\ GBit \in w
      /\ Slots = 0 .. TLB_LNT - 1
  BY Words, MidBetween DEF Inv, ProbeGlobal, Probe, TypeOK, Slots
<1>2. w' = w /\ AsidTag(va, asid)' = AsidTag(va, asid)
  BY <1>1 DEF AsidTag, GlobalTag
<1>3. CASE TagMatch(w, t[Mid]) /\ phase' = "hit" /\ slot' = Mid /\ UNCHANGED <<lo, hi>>
  <2>1. TypeOK'
    BY <1>1, <1>3 DEF TypeOK
  <2>2. Remaining'
    BY <1>3 DEF Remaining
  <2>3. Correct'
    BY <1>1, <1>3 DEF Correct, Covers
  <2> QED BY <2>1, <2>2, <2>3 DEF Inv
<1>4. CASE ~TagMatch(w, t[Mid]) /\ ~(phase' = "hit")
  <2> DEFINE l == IF DownGlobal(w, t[Mid]) THEN lo ELSE Mid + 1
             h == IF DownGlobal(w, t[Mid]) THEN Mid - 1 ELSE hi
  <2>1. slot' = slot
    BY <1>4 DEF ProbeGlobal, Probe, LoAfter, HiAfter, Last
  <2>2. ASSUME NEW s \in Slots, TagMatch(w, t[s]) PROVE l <= s /\ s <= h
    <3>1. lo <= s /\ s <= hi
      BY <1>1, <2>2 DEF Remaining, TypeOK
    <3>2. (DownGlobal(w, t[Mid]) => s < Mid) /\ (~DownGlobal(w, t[Mid]) => Mid < s)
      BY <1>1, <1>4, <2>2, GlobalProbe, TablesSearchable
    <3> QED BY <1>1, <3>1, <3>2, TlbLntAssumption
  <2>3. CASE l <= h
    <3>1. phase' = "global" /\ lo' = l /\ hi' = h
      BY <1>4, <2>3 DEF ProbeGlobal, Probe, LoAfter, HiAfter, Last
    <3>2. l \in Slots /\ h \in Slots
      BY <1>1, <2>3, TlbLntAssumption DEF TypeOK
    <3>3. TypeOK'
      BY <1>1, <2>1, <2>3, <3>1, <3>2 DEF TypeOK
    <3>4. Remaining'
      <4>1. ASSUME NEW s \in Slots, TagMatch(w, t[s]) PROVE s \in l .. h
        BY <1>1, <2>2, <3>2, <4>1
      <4>2. ASSUME NEW s \in Slots PROVE ~TagMatch(AsidTag(va, asid), t[s])
        BY <1>1 DEF Remaining
      <4> HIDE DEF l, h, w
      <4> QED BY <1>1, <1>2, <3>1, <4>1, <4>2 DEF Remaining, w
    <3>5. Correct'
      BY <3>1 DEF Correct
    <3> QED BY <3>3, <3>4, <3>5 DEF Inv
  <2>4. CASE ~(l <= h)
    <3>1. phase' = "miss" /\ lo' = 0 /\ hi' = TLB_LNT - 1
      BY <1>4, <2>4 DEF ProbeGlobal, Probe, LoAfter, HiAfter, Last
    <3>2. TypeOK'
      BY <1>1, <2>1, <3>1, TlbLntAssumption DEF TypeOK
    <3>3. ASSUME NEW s \in Slots PROVE ~TagMatch(w, t[s])
      BY <1>1, <2>2, <2>4, TlbLntAssumption DEF TypeOK
    <3>4. ASSUME NEW s \in Slots PROVE ~TagMatch(AsidTag(va, asid), t[s])
      BY <1>1 DEF Remaining
    <3>5. Remaining'
      BY <3>1 DEF Remaining
    <3>6. Correct'
      BY <1>1, <3>1, <3>3, <3>4 DEF Correct, Covers
    <3> QED BY <3>2, <3>5, <3>6 DEF Inv
  <2> QED BY <2>3, <2>4
<1> QED BY <1>3, <1>4 DEF ProbeGlobal, Probe, LoAfter, HiAfter, Last

LEMMA StutterStep == Inv /\ UNCHANGED vars => Inv'
BY DEF Inv, TypeOK, Remaining, Correct, vars, AsidTag, GlobalTag, Covers

(* tlb_search returns an entry that serves the address, and NULL only if   *)
(* the table has none.                                                     *)
THEOREM SearchCorrect == Spec => []Correct
<1>1. Inv /\ [Next]_vars => Inv'
  BY AsidStep, GlobalStep, StutterStep DEF Next, Done
<1>2. Inv => Correct
  BY DEF Inv
<1> QED BY InitInv, <1>1, <1>2, PTL DEF Spec

(* The bounds of the search never leave the table, so every probe reads an *)
(* entry of it.                                                            *)
THEOREM SearchTyped == Spec => []TypeOK
<1>1. Inv /\ [Next]_vars => Inv'
  BY AsidStep, GlobalStep, StutterStep DEF Next, Done
<1>2. Inv => TypeOK
  BY DEF Inv
<1> QED BY InitInv, <1>1, <1>2, PTL DEF Spec

(* The operator Lookup, by which the other modules search, returns what    *)
(* the loops of tlb_search return, probe by probe.                         *)
THEOREM LoopLookup == Spec => []LoopIsLookup
<1>1. TypeOK /\ Correct => LoopIsLookup
  <2> SUFFICES ASSUME TypeOK, Correct PROVE LoopIsLookup
    OBVIOUS
  <2>1. Searchable(t) /\ va \in SUBSET VaBits /\ asid \in SUBSET AsidBits
    BY TablesSearchable, EntriesAssumption DEF TypeOK
  <2>2. Lookup(t, va, asid) = {s \in Slots : Covers(t[s], va, asid)}
    BY <2>1, LookupComplete
  <2>3. ASSUME phase = "hit", NEW s \in Slots, Covers(t[s], va, asid) PROVE s = slot
    <3>1. slot \in Slots /\ Covers(t[slot], va, asid)
      BY <2>3 DEF TypeOK, Correct
    <3>2. t[s].mask \in PageMask /\ t[slot].mask \in PageMask
      BY <2>1, <3>1 DEF Searchable, IsTable
    <3>3. Overlap(t[s], t[slot])
      BY <2>1, <2>3, <3>1, <3>2, CoversOverlap
    <3> QED BY <2>1, <3>1, <3>3 DEF Searchable, Disjoint
  <2>4. phase = "hit" => slot \in Slots /\ Covers(t[slot], va, asid)
    BY DEF TypeOK, Correct
  <2>5. phase = "miss" => \A s \in Slots : ~Covers(t[s], va, asid)
    BY DEF Correct
  <2> QED BY <2>2, <2>3, <2>4, <2>5 DEF LoopIsLookup
<1> QED BY <1>1, SearchTyped, SearchCorrect, PTL

(* How many more probes there can be.                                      *)
ProbesLeft ==
  CASE phase = "asid"   -> TLB_LNT + (hi - lo) + 1
    [] phase = "global" -> (hi - lo) + 1
    [] OTHER            -> 0

(* The two loops of tlb_search cannot go round for ever: every probe that  *)
(* does not return leaves fewer slots, of which there are at most twice    *)
(* TLB_LNT.  With the fairness of FairSpec this is why the loops return.   *)
THEOREM SearchAdvances ==
  Spec => [](ProbesLeft \in 0 .. 2 * TLB_LNT) /\ [][ProbesLeft' < ProbesLeft]_vars
<1>1. ASSUME TypeOK
      PROVE  /\ ProbesLeft \in 0 .. 2 * TLB_LNT
             /\ lo \in 0 .. TLB_LNT - 1 /\ hi \in 0 .. TLB_LNT - 1 /\ lo <= hi
  <2>1. /\ lo \in 0 .. TLB_LNT - 1 /\ hi \in 0 .. TLB_LNT - 1 /\ lo <= hi
        /\ phase \in {"asid", "global", "hit", "miss"} /\ TLB_LNT \in Nat
    BY <1>1, TlbLntAssumption DEF TypeOK, Slots
  <2> QED BY <2>1 DEF ProbesLeft
<1>2. ASSUME TypeOK, [Next]_vars PROVE [ProbesLeft' < ProbesLeft]_vars
  <2>1. /\ lo \in 0 .. TLB_LNT - 1 /\ hi \in 0 .. TLB_LNT - 1 /\ lo <= hi /\ TLB_LNT \in Nat
        /\ Mid \in Int /\ lo <= Mid /\ Mid <= hi
    BY <1>1, <1>2, MidBetween, TlbLntAssumption DEF Slots
  <2>2. ASSUME NEW down \in BOOLEAN, LoAfter(down) <= HiAfter(down)
        PROVE  /\ LoAfter(down) \in Int /\ HiAfter(down) \in Int
               /\ HiAfter(down) - LoAfter(down) < hi - lo
    BY <2>1, <2>2 DEF LoAfter, HiAfter
  <2>3. CASE ProbeAsid
    <3> DEFINE d == Down(AsidTag(va, asid), t[Mid])
    <3>1. /\ phase = "asid"
          /\ \/ phase' = "hit"
             \/ /\ LoAfter(d) <= HiAfter(d)
                /\ phase' = "asid" /\ lo' = LoAfter(d) /\ hi' = HiAfter(d)
             \/ phase' = "global" /\ lo' = 0 /\ hi' = TLB_LNT - 1
      BY <2>3 DEF ProbeAsid, Probe, Last
    <3>2. d \in BOOLEAN
      BY DEF Down, Less
    <3> HIDE DEF d
    <3> QED BY <2>1, <2>2, <3>1, <3>2 DEF ProbesLeft
  <2>4. CASE ProbeGlobal
    <3> DEFINE d == DownGlobal(GlobalTag(va), t[Mid])
    <3>1. /\ phase = "global"
          /\ \/ phase' \in {"hit", "miss"}
             \/ /\ LoAfter(d) <= HiAfter(d)
                /\ phase' = "global" /\ lo' = LoAfter(d) /\ hi' = HiAfter(d)
      BY <2>4 DEF ProbeGlobal, Probe, Last
    <3>2. d \in BOOLEAN
      BY DEF DownGlobal, Less
    <3> HIDE DEF d
    <3> QED BY <2>1, <2>2, <3>1, <3>2 DEF ProbesLeft
  <2>5. CASE Done \/ UNCHANGED vars
    BY <2>5 DEF Done
  <2> QED BY <1>2, <2>3, <2>4, <2>5 DEF Next
<1> QED BY <1>1, <1>2, SearchTyped, PTL DEF Spec
=============================================================================
