SPECIFICATION QuorumSpec
CONSTANTS
  Owners = {o1, o2}
  Terms <- MCTerms
  Amounts <- MCAmounts
  Windows <- MCWindows
  MaxPending = 1
  ProposalTtl = 1
  MaxId = 2
  MaxNegative = 1
  MaxLedger = 2
INVARIANTS WindowHolds
PROPERTIES SettledByDistinctOwners
CONSTRAINT MCInTurns
SYMMETRY Symmetry
