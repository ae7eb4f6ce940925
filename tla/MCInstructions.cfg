CONSTANTS
 SExp = 3
 SFrac = 2
 DExp = 4
 DFrac = 7
 ExpLim <- MCExpLim
 Table <- MCRows
SPECIFICATION Spec
INVARIANTS Extended NamesDecode LinesTrue
PROPERTY DepositRestores
PROPERTY ImplementsIntMachine
PROPERTY ImplementsFpMachine
