SPECIFICATION FairSpec
CONSTANTS
  Addr <- MCAddr
  Text <- MCText
  Handlers <- MCHandlers
  ErrHandlers <- MCErrHandlers
  Mapped = {1}
  Programs <- MCPrograms
  Vectors <- MCVectors
  Reset <- MCReset
  Start = 0
INVARIANTS DelayConsistent SyscallFresh
PROPERTIES Implements Progress
