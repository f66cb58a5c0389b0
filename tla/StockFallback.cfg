SPECIFICATION Spec
CONSTANTS
  p1 = p1
  p2 = p2
  b1 = b1
  b2 = b2
  Products = {p1}
  Branches = {b1, b2}
  Requests = {r1, r2}
  Opening <- MCOpening
  Inputs <- MCInputs
  Corrections = {c1}
  CorrectionQty <- MCCorrections
  Transactional = FALSE
INVARIANTS
  SequentialIsExact
PROPERTIES
  UndisturbedRepairs
SYMMETRY RequestSymmetry
