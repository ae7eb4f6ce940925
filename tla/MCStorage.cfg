CONSTANTS
  ByteBits = 3
  MemSize = 24
  NumDisk = 2
  BufSize = 8
  NumReserved = 0
  Cores = {0, 1}
  RomBase = 32
  RomSize = 8
  DiskBase = 64
  Frame <- MCFrame
  Dirty <- MCDirty
  Wide = {0}
  LockVa <- MCLockVa
  BufferPa <- MCBufferPa
  RegisterVa = 64
  Requests <- MCAllRequests
  Patterns <- MCPatterns
  Vas <- MCVas
  Addresses <- MCAddresses
  Counts <- MCCounts
  CommandSets <- MCCommandSets
SPECIFICATION Spec
PROPERTIES ImplementsByteStore TransfersExact ImplementsBlockDevice
CHECK_DEADLOCK FALSE
