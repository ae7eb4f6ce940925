CONSTANTS
 SExp = 3
 SFrac = 2
 DExp = 4
 DFrac = 7
 ExpLim <- MCExpLim
 Table <- MCRows
SPECIFICATION HistorySpec
INVARIANT FirstShown
