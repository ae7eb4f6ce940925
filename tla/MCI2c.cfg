CONSTANTS
  NumUnit = 2
  Size = 4
  ProtLim = 3
  PageSize = 2
  Bytes <- MCBytes
  Commands <- AnyCommands
  Operations <- MCOperations
  None = None
SPECIFICATION MCSpec
VIEW Seen
INVARIANTS OneTransfer ByteToSelected StoresInside NeverRefused
PROPERTIES ProtectedKept ImplementsEeprom
