SPECIFICATION Spec
CONSTANTS
  p1 = p1
  p2 = p2
  b1 = b1
  b2 = b2
  Products = {p1, p2}
  Branches = {b1, b2}
  Requests = {r1, r2, r3}
  Opening <- MCOpening
  Inputs <- MCTwoProducts
  Corrections = {c1}
  CorrectionQty <- MCCorrections
  Transactional = TRUE
INVARIANTS
  TotalsAgree
  MovementsExplainStock
  ConflictHasWinner
PROPERTIES
  LedgerSpec
SYMMETRY RequestSymmetry
