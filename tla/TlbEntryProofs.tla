--------------------------- MODULE TlbEntryProofs ---------------------------
(* Lemmas about the words, keys and entries of module TlbEntry.            *)
EXTENDS TlbEntry, WellFoundedInduction, TLAPS

(* A set of natural numbers has a least element.                           *)
LEMMA NatMin ==
  ASSUME NEW T \in SUBSET Nat, T # {}
  PROVE  \E x \in T : \A y \in T : x <= y
<1>1. PICK x \in T : \A y \in T : ~(<<y, x>> \in OpToRel(<, Nat))
  BY NatLessThanWellFounded, WFMin
<1>2. \A y \in T : ~(y < x)
  BY <1>1 DEF OpToRel
<1> QED BY <1>2

(* A set of natural numbers with 0 and every successor is all of them.     *)
LEMMA NatAll ==
  ASSUME NEW T \in SUBSET Nat, 0 \in T, \A n \in T : n + 1 \in T
  PROVE  T = Nat
<1> SUFFICES ASSUME Nat \ T # {} PROVE FALSE
  OBVIOUS
<1>1. PICK x \in Nat \ T : \A y \in Nat \ T : x <= y
  <2>1. Nat \ T \in SUBSET Nat
    OBVIOUS
  <2> QED BY <2>1, NatMin
<1>2. x # 0 /\ x - 1 \in Nat
  BY <1>1
<1>3. x - 1 \in T
  BY <1>1, <1>2
<1>4. (x - 1) + 1 = x
  BY <1>1
<1> QED BY <1>3, <1>4

(* Two different words are ordered: some bit is the highest in which they  *)
(* differ.                                                                 *)
LEMMA LessTotal ==
  ASSUME NEW a \in SUBSET (0 .. 63), NEW b \in SUBSET (0 .. 63), a # b
  PROVE  Less(a, b) \/ Less(b, a)
<1> DEFINE D == (a \ b) \cup (b \ a)
           T == {63 - j : j \in D}
<1>1. D # {} /\ D \subseteq 0 .. 63
  OBVIOUS
<1>2. T \in SUBSET Nat /\ T # {}
  BY <1>1
<1>3. PICK x \in T : \A y \in T : x <= y
  BY <1>2, NatMin
<1>4. PICK k \in D : x = 63 - k
  BY <1>3
<1>5. ASSUME NEW j \in D PROVE j <= k
  <2>1. 63 - j \in T
    OBVIOUS
  <2>2. 63 - k <= 63 - j
    BY <1>3, <1>4, <2>1
  <2>3. j \in 0 .. 63 /\ k \in 0 .. 63
    BY <1>1
  <2> HIDE DEF D, T
  <2> QED BY <2>2, <2>3
<1>6. CASE k \in b
  <2>1. k \in b \ a
    BY <1>4, <1>6
  <2>2. ASSUME NEW j \in a \ b PROVE j < k
    BY <1>1, <1>5, <1>6
  <2> QED BY <2>1, <2>2 DEF Less
<1>7. CASE k \notin b
  <2>1. k \in a \ b
    BY <1>4, <1>7
  <2>2. ASSUME NEW j \in b \ a PROVE j < k
    BY <1>1, <1>5, <1>7
  <2> QED BY <2>1, <2>2 DEF Less
<1> QED BY <1>6, <1>7

(* The bits of a tag are bits of a word, and a page mask hides no bit of   *)
(* the ASID nor the global flag.                                           *)
LEMMA Bits ==
  /\ TagBits \subseteq 0 .. 63
  /\ VaBits \subseteq 0 .. 63
  /\ GBit \notin Vpn2Bits /\ GBit \notin AsidBits
  /\ AsidBits \cap Vpn2Bits = {}
  /\ \A m \in PageMask : m \subseteq Vpn2Bits
BY BitsAssumption DEF TagBits, VaBits, PageMask

LEMMA SearchWords ==
  ASSUME NEW va \in SUBSET VaBits, NEW asid \in SUBSET AsidBits
  PROVE  AsidTag(va, asid) \in SUBSET TagBits /\ GlobalTag(va) \in SUBSET TagBits
BY DEF AsidTag, GlobalTag, TagBits

(* A VPN2 bit d that two page masks leave alone is above every bit they    *)
(* hide.                                                                   *)
LEMMA AboveMasks ==
  ASSUME NEW m \in PageMask, NEW d \in Vpn2Bits \ m, NEW j \in 0 .. 63
  PROVE  /\ j \in m => j < d
         /\ d <= j => j \notin m
<1>1. d \in 0 .. 63
  BY BitsAssumption
<1>2. ASSUME j \in m PROVE j < d
  <2>1. j # d
    BY <1>2
  <2>2. ~(d < j)
    BY <1>2 DEF PageMask
  <2> QED BY <1>1, <2>1, <2>2
<1> QED BY <1>1, <1>2

(* Two words that differ in a VPN2 bit no mask hides compare the same way  *)
(* whether the bits of one mask, of both or of neither are dropped.  mm is *)
(* what the search drops from both, ms and mp what the two keys drop.      *)
LEMMA OrderBelow ==
  ASSUME NEW w \in SUBSET (0 .. 63), NEW u \in SUBSET (0 .. 63),
         NEW ms \in PageMask, NEW mp \in PageMask, NEW mm \in SUBSET mp,
         NEW d \in Vpn2Bits \ (ms \cup mp), (d \in w) # (d \in u),
         Less(w \ mm, u \ mm)
  PROVE  Less(w \ ms, u \ mp)
<1>1. PICK k \in (u \ mm) \ (w \ mm) : \A j \in (w \ mm) \ (u \ mm) : j < k
  BY DEF Less
<1>2. PICK K \in u \ w : k <= K /\ d <= K
  <2>1. k \in u \ w /\ k \in 0 .. 63 /\ d \in 0 .. 63
    BY <1>1, BitsAssumption
  <2>2. CASE d \in w
    <3>1. d < k
      BY <1>1, <2>2
    <3> QED BY <2>1, <3>1
  <2>3. CASE d \in u
    <3>1. d \in u \ w
      BY <2>3
    <3> QED BY <2>1, <3>1
  <2> QED BY <2>2, <2>3
<1>3. K \in (u \ mp) \ (w \ ms)
  BY <1>2, AboveMasks
<1>4. ASSUME NEW j \in (w \ ms) \ (u \ mp) PROVE j < K
  <2>1. j \in 0 .. 63 /\ d \in 0 .. 63 /\ K \in 0 .. 63 /\ k \in 0 .. 63
    BY <1>1, <1>2, BitsAssumption
  <2>2. CASE j \in mp
    BY <1>2, <2>1, <2>2, AboveMasks
  <2>3. CASE j \notin mp
    <3>1. j \in (w \ mm) \ (u \ mm)
      BY <2>3
    <3> QED BY <1>1, <1>2, <2>1, <3>1
  <2> QED BY <2>2, <2>3
<1> QED BY <1>3, <1>4 DEF Less

LEMMA OrderAbove ==
  ASSUME NEW w \in SUBSET (0 .. 63), NEW u \in SUBSET (0 .. 63),
         NEW ms \in PageMask, NEW mp \in PageMask, NEW mm \in SUBSET mp,
         NEW d \in Vpn2Bits \ (ms \cup mp), (d \in w) # (d \in u),
         Less(u \ mm, w \ mm)
  PROVE  Less(u \ mp, w \ ms)
<1>1. PICK k \in (w \ mm) \ (u \ mm) : \A j \in (u \ mm) \ (w \ mm) : j < k
  BY DEF Less
<1>2. PICK K \in w \ u : k <= K /\ d <= K
  <2>1. k \in w \ u /\ k \in 0 .. 63 /\ d \in 0 .. 63
    BY <1>1, BitsAssumption
  <2>2. CASE d \in u
    <3>1. d < k
      BY <1>1, <2>2
    <3> QED BY <2>1, <3>1
  <2>3. CASE d \in w
    <3>1. d \in w \ u
      BY <2>3
    <3> QED BY <2>1, <3>1
  <2> QED BY <2>2, <2>3
<1>3. K \in (w \ ms) \ (u \ mp)
  BY <1>2, AboveMasks
<1>4. ASSUME NEW j \in (u \ mp) \ (w \ ms) PROVE j < K
  <2>1. j \in 0 .. 63 /\ d \in 0 .. 63 /\ K \in 0 .. 63 /\ k \in 0 .. 63
    BY <1>1, <1>2, BitsAssumption
  <2>2. CASE j \in ms
    BY <1>2, <2>1, <2>2, AboveMasks
  <2>3. CASE j \notin ms
    <3>1. j \in (u \ mm) \ (w \ mm)
      BY <2>3
    <3> QED BY <1>1, <1>2, <2>1, <3>1
  <2> QED BY <2>2, <2>3
<1> QED BY <1>3, <1>4 DEF Less
-----------------------------------------------------------------------------
(* A start and a step function determine a sequence of states: finite runs *)
(* of every length exist and agree with each other.                        *)
IsRun(g, n, N, x) ==
  g[0] = x /\ \A k \in 0 .. n - 1 : g[k + 1] = N[g[k]]

Iterates(f, N, x) == f[0] = x /\ \A k \in Nat : f[k + 1] = N[f[k]]

LEMMA RunsAgree ==
  ASSUME NEW N, NEW x, NEW n \in Nat, NEW m \in Nat, NEW g, NEW h,
         IsRun(g, n, N, x), IsRun(h, m, N, x)
  PROVE  \A k \in Nat : k <= n /\ k <= m => g[k] = h[k]
<1> DEFINE T == {k \in Nat : k <= n /\ k <= m => g[k] = h[k]}
<1>1. 0 \in T
  BY DEF IsRun
<1>2. ASSUME NEW k \in T PROVE k + 1 \in T
  <2> SUFFICES ASSUME k + 1 <= n, k + 1 <= m PROVE g[k + 1] = h[k + 1]
    OBVIOUS
  <2>1. k \in 0 .. n - 1 /\ k \in 0 .. m - 1 /\ g[k] = h[k]
    OBVIOUS
  <2> QED BY <2>1 DEF IsRun
<1>3. T = Nat
  <2> HIDE DEF T
  <2>1. T \in SUBSET Nat
    BY DEF T
  <2> QED BY <1>1, <1>2, <2>1, NatAll
<1> QED BY <1>3

LEMMA RunOfLength ==
  ASSUME NEW S, NEW N \in [S -> S], NEW x \in S, NEW n \in Nat
  PROVE  \E g \in [0 .. n -> S] : IsRun(g, n, N, x)
<1> DEFINE T == {k \in Nat : \E g \in [0 .. k -> S] : IsRun(g, k, N, x)}
<1>1. 0 \in T
  <2> DEFINE g == [k \in 0 .. 0 |-> x]
  <2>1. g \in [0 .. 0 -> S] /\ IsRun(g, 0, N, x)
    BY DEF IsRun
  <2> QED BY <2>1
<1>2. ASSUME NEW k \in T PROVE k + 1 \in T
  <2>1. PICK g \in [0 .. k -> S] : IsRun(g, k, N, x)
    OBVIOUS
  <2> DEFINE h == [j \in 0 .. k + 1 |-> IF j = k + 1 THEN N[g[k]] ELSE g[j]]
  <2>2. h \in [0 .. k + 1 -> S]
    <3>1. g[k] \in S
      OBVIOUS
    <3> QED BY <3>1
  <2>3. IsRun(h, k + 1, N, x)
    BY <2>1 DEF IsRun
  <2> HIDE DEF h
  <2> QED BY <2>2, <2>3
<1>3. T = Nat
  <2> HIDE DEF T
  <2>1. T \in SUBSET Nat
    BY DEF T
  <2> QED BY <1>1, <1>2, <2>1, NatAll
<1> QED BY <1>3

LEMMA Iteration ==
  ASSUME NEW S, NEW N \in [S -> S], NEW x \in S
  PROVE  \E f \in [Nat -> S] : Iterates(f, N, x)
<1> DEFINE R(n) == CHOOSE g \in [0 .. n -> S] : IsRun(g, n, N, x)
           f == [n \in Nat |-> R(n)[n]]
<1>1. ASSUME NEW n \in Nat PROVE R(n) \in [0 .. n -> S] /\ IsRun(R(n), n, N, x)
  BY RunOfLength
<1> HIDE DEF R
<1>2. f \in [Nat -> S]
  BY <1>1
<1>3. f[0] = x
  BY <1>1 DEF IsRun
<1>4. ASSUME NEW k \in Nat PROVE f[k + 1] = N[f[k]]
  <2>1. R(k + 1)[k + 1] = N[R(k + 1)[k]]
    BY <1>1 DEF IsRun
  <2>2. R(k + 1)[k] = R(k)[k]
    <3>1. IsRun(R(k + 1), k + 1, N, x) /\ IsRun(R(k), k, N, x)
      BY <1>1
    <3> QED BY <3>1, RunsAgree
  <2> QED BY <2>1, <2>2
<1> HIDE DEF f
<1> QED BY <1>2, <1>3, <1>4 DEF Iterates
-----------------------------------------------------------------------------
(* The bounds of a search, probe by probe.                                 *)
AllBounds == [lo : Int, hi : Int]

LEMMA NarrowType ==
  ASSUME NEW match, NEW down, NEW b \in AllBounds
  PROVE  Narrow(match, down, b) \in AllBounds
BY DEF Narrow, AllBounds, Middle

LEMMA StopAtRun ==
  ASSUME NEW match, NEW down
  PROVE  \E f \in [Nat -> AllBounds] :
           /\ f[0] = AllOpen
           /\ \A k \in Nat : f[k + 1] = Narrow(match, down, f[k])
           /\ StopAt(match, down) = f[TLB_LNT]
<1> DEFINE IsBounds(f) ==
             f = [n \in Nat |-> IF n = 0 THEN AllOpen ELSE Narrow(match, down, f[n - 1])]
           F == CHOOSE f : IsBounds(f)
           N == [b \in AllBounds |-> Narrow(match, down, b)]
<1>1. AllOpen \in AllBounds /\ N \in [AllBounds -> AllBounds]
  BY NarrowType, TlbLntAssumption DEF AllOpen, AllBounds
<1>2. PICK f \in [Nat -> AllBounds] :
        f[0] = AllOpen /\ \A k \in Nat : f[k + 1] = N[f[k]]
  <2> HIDE DEF N, IsBounds, F
  <2>1. PICK f \in [Nat -> AllBounds] : Iterates(f, N, AllOpen)
    BY <1>1, Iteration, Zenon
  <2> QED BY <2>1 DEF Iterates
<1>3. IsBounds(f)
  <2>1. ASSUME NEW n \in Nat \ {0} PROVE f[n] = Narrow(match, down, f[n - 1])
    <3>1. n - 1 \in Nat /\ (n - 1) + 1 = n
      OBVIOUS
    <3>2. f[n] = N[f[n - 1]] /\ f[n - 1] \in AllBounds
      BY <1>2, <3>1
    <3> QED BY <3>2
  <2> QED BY <1>2, <2>1
<1>4. IsBounds(F)
  BY <1>3
<1>5. StopAt(match, down) = F[TLB_LNT]
  BY DEF StopAt
<1> HIDE DEF F
<1>6. ASSUME NEW h, IsBounds(h)
      PROVE  h[0] = AllOpen /\ \A k \in Nat : h[k + 1] = Narrow(match, down, h[k])
  <2>1. h[0] = AllOpen
    BY <1>6
  <2>2. ASSUME NEW k \in Nat PROVE h[k + 1] = Narrow(match, down, h[k])
    <3>1. k + 1 \in Nat /\ k + 1 # 0 /\ (k + 1) - 1 = k
      OBVIOUS
    <3>2. h[k + 1] = Narrow(match, down, h[(k + 1) - 1])
      BY <1>6, <3>1
    <3> QED BY <3>1, <3>2
  <2> QED BY <2>1, <2>2
<1>7. F \in [Nat -> AllBounds]
  <2> DEFINE T == {k \in Nat : F[k] \in AllBounds}
  <2>1. 0 \in T
    BY <1>1, <1>4, <1>6
  <2>2. ASSUME NEW k \in T PROVE k + 1 \in T
    BY <1>4, <1>6, NarrowType
  <2>3. T = Nat
    <3> HIDE DEF T
    <3>1. T \in SUBSET Nat
      BY DEF T
    <3> QED BY <2>1, <2>2, <3>1, NatAll
  <2>4. F = [n \in Nat |-> F[n]]
    BY <1>4
  <2> QED BY <2>3, <2>4
<1> QED BY <1>4, <1>5, <1>6, <1>7

(* A search finds a slot that matches whenever there is one, if every slot *)
(* that does not match says truly on which side of it the matches lie.     *)
LEMMA FoundComplete ==
  ASSUME NEW match \in SUBSET Slots, NEW down,
         \A s \in match, p \in Slots \ match :
           (p \in down => s < p) /\ (p \notin down => p < s)
  PROVE  /\ Found(match, down) \subseteq match
         /\ match # {} => Found(match, down) # {}
         /\ \A s, r \in Found(match, down) : s = r
<1>1. PICK f \in [Nat -> AllBounds] :
        /\ f[0] = AllOpen
        /\ \A k \in Nat : f[k + 1] = Narrow(match, down, f[k])
        /\ StopAt(match, down) = f[TLB_LNT]
  BY StopAtRun
<1> DEFINE Within(b) == /\ 0 <= b.lo /\ b.hi <= TLB_LNT - 1
                        /\ \A s \in match : b.lo <= s /\ s <= b.hi
           Stopped(b) == ~Open(b) \/ Middle(b) \in match
           T == {k \in Nat : /\ Within(f[k])
                             /\ Stopped(f[k]) \/ f[k].hi - f[k].lo <= TLB_LNT - 1 - k}
<1>2. 0 \in T
  BY <1>1, TlbLntAssumption DEF AllOpen, Slots
<1>3. ASSUME NEW b \in AllBounds, Within(b), ~Stopped(b)
      PROVE  /\ Within(Narrow(match, down, b))
             /\ Narrow(match, down, b).hi - Narrow(match, down, b).lo < b.hi - b.lo
  <2> DEFINE m == Middle(b)
  <2>1. b.lo \in Int /\ b.hi \in Int /\ b.lo <= b.hi
    BY <1>3 DEF AllBounds, Open
  <2>2. m \in Int /\ b.lo <= m /\ m <= b.hi
    BY <2>1 DEF Middle
  <2>3. m \in Slots \ match
    BY <1>3, <2>1, <2>2, TlbLntAssumption DEF Slots
  <2>4. \A s \in match : s \in Int
    BY TlbLntAssumption DEF Slots
  <2>5. CASE m \in down
    <3>1. Narrow(match, down, b) = [lo |-> b.lo, hi |-> m - 1]
      BY <1>3, <2>5 DEF Narrow
    <3>2. \A s \in match : s < m
      BY <2>3, <2>5
    <3> HIDE DEF m, Stopped
    <3> QED BY <1>3, <2>1, <2>2, <2>4, <3>1, <3>2, TlbLntAssumption
  <2>6. CASE m \notin down
    <3>1. Narrow(match, down, b) = [lo |-> m + 1, hi |-> b.hi]
      BY <1>3, <2>6 DEF Narrow
    <3>2. \A s \in match : m < s
      BY <2>3, <2>6
    <3> HIDE DEF m, Stopped
    <3> QED BY <1>3, <2>1, <2>2, <2>4, <3>1, <3>2, TlbLntAssumption
  <2> QED BY <2>5, <2>6
<1>4. ASSUME NEW k \in T PROVE k + 1 \in T
  <2>1. k \in Nat /\ f[k] \in AllBounds /\ f[k + 1] \in AllBounds /\ Within(f[k])
        /\ f[k + 1] = Narrow(match, down, f[k])
    BY <1>1
  <2>2. CASE Stopped(f[k])
    <3>1. f[k + 1] = f[k]
      BY <2>1, <2>2 DEF Narrow
    <3> QED BY <2>1, <2>2, <3>1
  <2>3. CASE ~Stopped(f[k])
    <3>1. Within(f[k + 1]) /\ f[k + 1].hi - f[k + 1].lo < f[k].hi - f[k].lo
      BY <1>3, <2>1, <2>3
    <3>2. f[k].hi - f[k].lo <= TLB_LNT - 1 - k
      BY <2>3
    <3>3. f[k + 1].hi - f[k + 1].lo <= TLB_LNT - 1 - (k + 1)
      <4>1. /\ f[k].hi \in Int /\ f[k].lo \in Int
            /\ f[k + 1].hi \in Int /\ f[k + 1].lo \in Int
        BY <2>1 DEF AllBounds
      <4> QED BY <2>1, <3>1, <3>2, <4>1, TlbLntAssumption
    <3> QED BY <2>1, <3>1, <3>3
  <2> QED BY <2>2, <2>3
<1>5. T = Nat
  <2> HIDE DEF T
  <2>1. T \in SUBSET Nat
    BY DEF T
  <2> QED BY <1>2, <1>4, <2>1, NatAll
<1> DEFINE b == f[TLB_LNT]
<1>6. Within(b) /\ Stopped(b) /\ b \in AllBounds
  <2>1. TLB_LNT \in T
    BY <1>5, TlbLntAssumption
  <2>2. b.hi \in Int /\ b.lo \in Int /\ b \in AllBounds
    BY TlbLntAssumption DEF AllBounds
  <2>3. b.hi - b.lo <= TLB_LNT - 1 - TLB_LNT => ~Open(b)
    BY <2>2, TlbLntAssumption DEF Open
  <2> QED BY <2>1, <2>2, <2>3
<1>7. match # {} => Open(b)
  <2> SUFFICES ASSUME NEW s \in match PROVE Open(b)
    OBVIOUS
  <2>1. b.lo \in Int /\ b.hi \in Int /\ s \in Int /\ b.lo <= s /\ s <= b.hi
    BY <1>6, TlbLntAssumption DEF AllBounds, Slots
  <2> QED BY <2>1 DEF Open
<1>8. Found(match, down) = IF Open(b) /\ Middle(b) \in match THEN {Middle(b)} ELSE {}
  BY <1>1 DEF Found
<1> HIDE DEF b, T, Within
<1> QED BY <1>6, <1>7, <1>8
-----------------------------------------------------------------------------
(* What the table of a TLB is made of, and what the searches assume of it. *)
IsTable(f) ==
  \A s \in Slots : f[s].tag \in SUBSET TagBits /\ f[s].mask \in PageMask

Searchable(f) == IsTable(f) /\ Sorted(f) /\ Disjoint(f) /\ UniformOverlaps(f)

LEMMA TableFacts ==
  ASSUME NEW f, IsTable(f), NEW s \in Slots
  PROVE  /\ f[s].tag \in SUBSET (0 .. 63) /\ f[s].mask \in PageMask
         /\ f[s].mask \subseteq Vpn2Bits /\ Key(f[s]) \in SUBSET (0 .. 63)
BY Bits DEF IsTable, Key

(* Entries that do not overlap differ in a VPN2 bit neither mask hides, so *)
(* they are on the same side of each other in the table as the search      *)
(* takes them to be.                                                       *)
LEMMA Apart ==
  ASSUME NEW f, Searchable(f), NEW w \in SUBSET (0 .. 63),
         NEW s \in Slots, NEW p \in Slots, TagMatch(w, f[s]),
         NEW mm \in SUBSET f[p].mask, w \ mm # f[p].tag \ mm,
         (f[s].tag \cap Vpn2Bits) \ (f[s].mask \cup f[p].mask)
           # (f[p].tag \cap Vpn2Bits) \ (f[s].mask \cup f[p].mask)
  PROVE  /\ Less(w \ mm, f[p].tag \ mm) => s < p
         /\ ~Less(w \ mm, f[p].tag \ mm) => p < s
<1> DEFINE u == f[p].tag
           ms == f[s].mask
           mp == f[p].mask
<1>1. /\ u \in SUBSET (0 .. 63) /\ ms \in PageMask /\ mp \in PageMask
      /\ f[s].tag \in SUBSET (0 .. 63)
  BY TableFacts DEF Searchable
<1>2. PICK d \in Vpn2Bits \ (ms \cup mp) : (d \in f[s].tag) # (d \in u)
  OBVIOUS
<1>3. (d \in w) # (d \in u)
  BY <1>2 DEF TagMatch, Key
<1>4. w \ ms = Key(f[s]) /\ u \ mp = Key(f[p])
  BY DEF TagMatch, Key
<1>5. s # p
  BY <1>2
<1>6. s \in Int /\ p \in Int
  BY TlbLntAssumption DEF Slots
<1>7. CASE Less(w \ mm, u \ mm)
  <2>1. Less(w \ ms, u \ mp)
    BY <1>1, <1>2, <1>3, <1>7, OrderBelow
  <2>2. ~(p < s)
    BY <1>4, <2>1 DEF Searchable, Sorted
  <2> QED BY <1>5, <1>6, <1>7, <2>2
<1>8. CASE ~Less(w \ mm, u \ mm)
  <2>1. Less(u \ mm, w \ mm)
    <3>1. w \ mm \in SUBSET (0 .. 63) /\ u \ mm \in SUBSET (0 .. 63)
      BY <1>1
    <3>2. w \ mm # u \ mm
      OBVIOUS
    <3> QED BY <1>8, <3>1, <3>2, LessTotal
  <2>2. Less(u \ mp, w \ ms)
    BY <1>1, <1>2, <1>3, <2>1, OrderAbove
  <2>3. ~(s < p)
    BY <1>4, <2>2 DEF Searchable, Sorted
  <2> QED BY <1>5, <1>6, <1>8, <2>3
<1> QED BY <1>7, <1>8

(* A probe of the first loop that does not match leaves every match on the *)
(* side the loop continues on.                                             *)
LEMMA AsidProbe ==
  ASSUME NEW f, Searchable(f), NEW w \in SUBSET (0 .. 63),
         NEW s \in Slots, NEW p \in Slots,
         TagMatch(w, f[s]), ~TagMatch(w, f[p])
  PROVE  /\ Down(w, f[p]) => s < p
         /\ ~Down(w, f[p]) => p < s
<1> DEFINE hidden == f[s].mask \cup f[p].mask
<1>1. CASE (f[s].tag \cap Vpn2Bits) \ hidden # (f[p].tag \cap Vpn2Bits) \ hidden
  BY <1>1, Apart DEF Down, TagMatch, Key
<1>2. CASE (f[s].tag \cap Vpn2Bits) \ hidden = (f[p].tag \cap Vpn2Bits) \ hidden
  <2>1. f[s].mask = f[p].mask
    BY <1>2 DEF Searchable, UniformOverlaps
  <2>2. w \ f[p].mask = Key(f[s])
    BY <2>1 DEF TagMatch
  <2>3. Key(f[s]) # Key(f[p])
    BY <2>2 DEF TagMatch
  <2>4. s \in Int /\ p \in Int /\ s # p
    BY <2>3, TlbLntAssumption DEF Slots
  <2>5. Less(Key(f[s]), Key(f[p])) => ~(p < s)
    BY DEF Searchable, Sorted
  <2>6. Less(Key(f[p]), Key(f[s])) => ~(s < p)
    BY DEF Searchable, Sorted
  <2>7. Less(Key(f[s]), Key(f[p])) \/ Less(Key(f[p]), Key(f[s]))
    BY <2>3, TableFacts, LessTotal DEF Searchable
  <2> QED BY <2>2, <2>4, <2>5, <2>6, <2>7 DEF Down
<1> QED BY <1>1, <1>2

(* The same of the second loop, whose matches are global: nothing else in  *)
(* the table overlaps them.                                                *)
LEMMA GlobalProbe ==
  ASSUME NEW f, Searchable(f), NEW w \in SUBSET (0 .. 63), GBit \in w,
         NEW s \in Slots, NEW p \in Slots,
         TagMatch(w, f[s]), ~TagMatch(w, f[p])
  PROVE  /\ DownGlobal(w, f[p]) => s < p
         /\ ~DownGlobal(w, f[p]) => p < s
<1>1. s # p
  OBVIOUS
<1>2. GBit \in f[s].tag
  <2>1. GBit \notin f[s].mask
    BY TableFacts, Bits DEF Searchable
  <2> QED BY <2>1 DEF TagMatch, Key
<1>3. ~Overlap(f[s], f[p])
  BY <1>1 DEF Searchable, Disjoint
<1>4. (f[s].tag \cap Vpn2Bits) \ (f[s].mask \cup f[p].mask)
        # (f[p].tag \cap Vpn2Bits) \ (f[s].mask \cup f[p].mask)
  BY <1>2, <1>3 DEF Overlap
<1>5. w # f[p].tag
  BY DEF TagMatch, Key
<1>6. {} \in SUBSET f[p].mask /\ w \ {} = w /\ f[p].tag \ {} = f[p].tag
  OBVIOUS
<1>7. /\ Less(w \ {}, f[p].tag \ {}) => s < p
      /\ ~Less(w \ {}, f[p].tag \ {}) => p < s
  <2>1. w \ {} # f[p].tag \ {}
    BY <1>5, <1>6
  <2> QED BY <1>4, <1>6, <2>1, Apart
<1> QED BY <1>6, <1>7 DEF DownGlobal
(* A hit of the search is a slot whose entry serves the address.           *)
LEMMA LookupSound ==
  ASSUME NEW t, NEW va, NEW asid, NEW p \in Lookup(t, va, asid)
  PROVE  p \in Slots /\ Covers(t[p], va, asid)
BY DEF Lookup, FoundPrivate, FoundGlobal, Found, Matches, Covers

(* Two entries that serve one address in one space overlap.                *)
LEMMA CoversOverlap ==
  ASSUME NEW e1, NEW e2, e1.mask \in PageMask, e2.mask \in PageMask,
         NEW va \in SUBSET VaBits, NEW asid \in SUBSET AsidBits,
         Covers(e1, va, asid), Covers(e2, va, asid)
  PROVE  Overlap(e1, e2)
<1> DEFINE V == va \cap Vpn2Bits
           m == e1.mask \cup e2.mask
<1>1. e1.mask \subseteq Vpn2Bits /\ e2.mask \subseteq Vpn2Bits
  BY Bits
<1>2. ASSUME NEW e \in {e1, e2}
      PROVE  /\ (e.tag \cap Vpn2Bits) \ m = V \ m
             /\ GBit \in e.tag \/ e.tag \cap AsidBits = asid
  <2>1. e.mask \subseteq m /\ e.mask \subseteq Vpn2Bits
    BY <1>1
  <2>2. CASE AsidTag(va, asid) \ e.mask = e.tag \ e.mask
    BY <2>1, <2>2, Bits DEF AsidTag
  <2>3. CASE GlobalTag(va) \ e.mask = e.tag \ e.mask
    BY <2>1, <2>3, Bits DEF GlobalTag
  <2> QED BY <2>2, <2>3 DEF Covers, TagMatch, Key
<1> QED BY <1>2 DEF Overlap

(* The table is searched for everything that serves the address: Lookup    *)
(* finds the entry that does, and nothing if none does.                    *)
LEMMA LookupComplete ==
  ASSUME NEW f, Searchable(f), NEW va \in SUBSET VaBits, NEW asid \in SUBSET AsidBits
  PROVE  Lookup(f, va, asid) = {s \in Slots : Covers(f[s], va, asid)}
<1> DEFINE wa == AsidTag(va, asid)
           wg == GlobalTag(va)
           hits == {s \in Slots : Covers(f[s], va, asid)}
<1>1. wa \in SUBSET (0 .. 63) /\ wg \in SUBSET (0 .. 63) /\ GBit \in wg
  BY SearchWords, Bits DEF GlobalTag
<1>2. ASSUME NEW s \in hits, NEW r \in hits PROVE s = r
  <2>1. f[s].mask \in PageMask /\ f[r].mask \in PageMask
    BY DEF Searchable, IsTable
  <2>2. Overlap(f[s], f[r])
    BY <2>1, CoversOverlap
  <2> QED BY <2>2 DEF Searchable, Disjoint
<1>3. /\ FoundPrivate(f, wa) \subseteq Matches(f, wa)
      /\ Matches(f, wa) # {} => FoundPrivate(f, wa) # {}
  <2>1. ASSUME NEW s \in Matches(f, wa), NEW p \in Slots \ Matches(f, wa)
        PROVE  (Down(wa, f[p]) => s < p) /\ (~Down(wa, f[p]) => p < s)
    BY <1>1, AsidProbe DEF Matches
  <2> DEFINE down == {p \in Slots : Down(wa, f[p])}
  <2>2. \A s \in Matches(f, wa), p \in Slots \ Matches(f, wa) :
          (p \in down => s < p) /\ (p \notin down => p < s)
    BY <2>1
  <2>3. Matches(f, wa) \in SUBSET Slots /\ FoundPrivate(f, wa) = Found(Matches(f, wa), down)
    BY DEF Matches, FoundPrivate
  <2> HIDE DEF down
  <2> QED BY <2>2, <2>3, FoundComplete
<1>4. /\ FoundGlobal(f, wg) \subseteq Matches(f, wg)
      /\ Matches(f, wg) # {} => FoundGlobal(f, wg) # {}
  <2>1. ASSUME NEW s \in Matches(f, wg), NEW p \in Slots \ Matches(f, wg)
        PROVE  (DownGlobal(wg, f[p]) => s < p) /\ (~DownGlobal(wg, f[p]) => p < s)
    BY <1>1, GlobalProbe DEF Matches
  <2> DEFINE down == {p \in Slots : DownGlobal(wg, f[p])}
  <2>2. \A s \in Matches(f, wg), p \in Slots \ Matches(f, wg) :
          (p \in down => s < p) /\ (p \notin down => p < s)
    BY <2>1
  <2>3. Matches(f, wg) \in SUBSET Slots /\ FoundGlobal(f, wg) = Found(Matches(f, wg), down)
    BY DEF Matches, FoundGlobal
  <2> HIDE DEF down
  <2> QED BY <2>2, <2>3, FoundComplete
<1>5. hits = Matches(f, wa) \cup Matches(f, wg)
  BY DEF Matches, Covers
<1>6. Lookup(f, va, asid) =
        IF FoundPrivate(f, wa) # {} THEN FoundPrivate(f, wa) ELSE FoundGlobal(f, wg)
  BY DEF Lookup
<1> HIDE DEF hits, wa, wg
<1>7. Lookup(f, va, asid) = hits
  BY <1>2, <1>3, <1>4, <1>5, <1>6
<1> QED BY <1>7 DEF hits
=============================================================================
