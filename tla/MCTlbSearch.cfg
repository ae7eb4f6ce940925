CONSTANTS
  TLB_LNT = 4
  AsidBits <- MCAsid
  GBit <- MCG
  PageBit <- MCPage
  Vpn2Bits <- MCVpn2
  XkphysBits <- MCXkphys
  Entries <- MCEntries
  Vas <- MCVas
SPECIFICATION FairSpec
INVARIANTS Correct LoopIsLookup
PROPERTIES Returns
