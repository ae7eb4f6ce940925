------------------------------- MODULE MCMmu -------------------------------
(* Small instances of Mmu for model checking.  The program that runs over  *)
(* the TLB is one of three, chosen at the start, each with its own inputs; *)
(* the search has an instance of its own, with three entries.              *)
EXTENDS Mmu

VARIABLE program

(* Bit positions as in sc1_defs.h, with one ASID bit, two VPN2 bits and    *)
(* one region bit.                                                         *)
MCAsid == {0}
MCG == 8
MCPage == 12
MCVpn2 == {13, 14, 15}
MCXkphys == {15}
MCInitVpn2 == [s \in Slots |-> IF s = 0 THEN {} ELSE IF s = 1 THEN {13} ELSE {14}]

Lo(pfn, fl) == [pfn |-> pfn, fl |-> fl]

(* spaces: one page of one pair, clean and dirty, private and global, used *)
(*   from two address spaces.                                              *)
(* sizes: two page sizes over one pair of the larger one, in one space.    *)
(* wired: two pages, with one entry wired or none.                         *)
(* search: two page sizes in two spaces, so that a private page can lie    *)
(*   within a global one.                                                  *)
Inputs ==
  [spaces |->
     [modes |-> AllModes, vas |-> {{}}, entHis |-> {{}, {0}},
      entLo0s |-> {Lo({13}, {"V"}), Lo({14}, {"V", "D", "G"})},
      entLo1s |-> {Lo({}, {"G"})},
      masks |-> {{}}, indexes |-> {0, 2}, wireds |-> {0}],
   sizes |->
     [modes |-> {"read"}, vas |-> {{12}, {12, 13}}, entHis |-> {{}, {13}},
      entLo0s |-> {Lo({14}, {"V", "D"})},
      entLo1s |-> {Lo({14, 15}, {"V", "G"})},
      masks |-> {{}, {13}}, indexes |-> {}, wireds |-> {0}],
   wired |->
     [modes |-> {"write"}, vas |-> {{}}, entHis |-> {{}, {13}},
      entLo0s |-> {Lo({13}, {"V"})},
      entLo1s |-> {Lo({}, {})},
      masks |-> {{}}, indexes |-> {0, 1}, wireds |-> {0, 1}],
   search |->
     [modes |-> {"read"}, vas |-> {{12}, {12, 13}}, entHis |-> {{}, {13}, {0, 13}},
      entLo0s |-> {Lo({14}, {"V", "D"})},
      entLo1s |-> {Lo({14, 15}, {"V", "G"})},
      masks |-> {{}, {13}}, indexes |-> {}, wireds |-> {0}]]

AnyOf(Field(_)) == UNION {Field(Inputs[p]) : p \in DOMAIN Inputs}

SomeModes == AnyOf(LAMBDA i : i.modes)
SomeVas == AnyOf(LAMBDA i : i.vas)
SomeEntHis == AnyOf(LAMBDA i : i.entHis)
SomeEntLo0s == AnyOf(LAMBDA i : i.entLo0s)
SomeEntLo1s == AnyOf(LAMBDA i : i.entLo1s)
SomeMasks == AnyOf(LAMBDA i : i.masks)
SomeIndexes == AnyOf(LAMBDA i : i.indexes)
SomeWireds == AnyOf(LAMBDA i : i.wireds)

(* The steps of Next, with the inputs of the program.                      *)
MCNext ==
  /\ UNCHANGED program
  /\ LET i == Inputs[program] IN
     \/ \E mode \in i.modes, va \in i.vas :
          XlateMini(mode, va) \/ XlateTlb(mode, va) \/ XlateFault(mode, va)
     \/ \E mode \in i.modes : AddressError(mode)
     \/ \E w \in i.entHis : Mtc0EntHi(w)
     \/ \E x \in i.entLo0s : Mtc0EntLo0(x)
     \/ \E x \in i.entLo1s : Mtc0EntLo1(x)
     \/ \E m \in i.masks : Mtc0Mask(m)
     \/ \E n \in i.indexes : Mtc0Index(n)
     \/ \E w \in i.wireds : Mtc0Wired(w)
     \/ Tlbp \/ Tlbr \/ TlbrBad \/ Tlbwi \/ Tlbwr
     \/ \E powerUp \in BOOLEAN : Reset(powerUp)

MCInit == program \in DOMAIN Inputs \ {"search"} /\ Init
MCSpec == MCInit /\ [][MCNext]_<<vars, program>>

SearchSpec == program = "search" /\ Init /\ [][MCNext]_<<vars, program>>

(* No action reads traps: states that differ only there are one state.     *)
AllButTraps == <<tlb, mtlbs, regs, asidMoved, program>>
=============================================================================
