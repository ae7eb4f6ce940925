CONSTANTS
  NumCores = 4
  Enabled = {0, 1, 3}
  Accesses <- MCAccesses
  DiskBlocks <- MCBlocks
  Counter <- MCCounter
  KernelWord <- MCKernel
  Guests = {1}
  Increments = 2
  MaxExceptions = 1
SPECIFICATION FairProgramSpec
INVARIANTS LockIffIntact NoSpuriousLoss ReadIsCurrent
PROPERTIES Implements AllFinish
