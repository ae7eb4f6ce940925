---------------------------- MODULE MCTlbSearch ----------------------------
(* All sound tables of four entries over four page pairs, two ASIDs and    *)
(* two page sizes.                                                         *)
EXTENDS TlbSearch

MCAsid == {0}
MCG == 8
MCPage == 12
MCVpn2 == {13, 14}
MCXkphys == {}
MCEntries ==
  {[tag |-> v \cup g, mask |-> m] :
     v \in SUBSET Vpn2Bits, g \in {{}, {0}, {8}}, m \in {{}, {13}}}
MCVas == SUBSET Vpn2Bits
=============================================================================
