CONSTANTS
  TLB_LNT = 2
  AsidBits <- MCAsid
  GBit <- MCG
  PageBit <- MCPage
  Vpn2Bits <- MCVpn2
  XkphysBits <- MCXkphys
  InitVpn2 <- MCInitVpn2
  MappedVas <- SomeVas
  Modes <- SomeModes
  EntHis <- SomeEntHis
  EntLo0s <- SomeEntLo0s
  EntLo1s <- SomeEntLo1s
  Masks <- SomeMasks
  Indexes <- SomeIndexes
  Wireds <- SomeWireds
SPECIFICATION MCSpec
VIEW AllButTraps
INVARIANTS TableInv UniqueMatch MiniTlbsBacked XlateAgrees StoresNeedDirty
PROPERTIES WiredKept
