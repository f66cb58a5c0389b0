SPECIFICATION Spec
CONSTANTS
  p1 = p1
  p2 = p2
  b1 = b1
  b2 = b2
  NoBranch = NoBranch
  Products = {p1, p2}
  Branches = {b1, b2}
  Buyers = {s1, s2, s3}
  Removals = {d1, d2}
  Faults = {"stock", "answer", "save"}
  Opening <- MCOpening
  Carts <- MCCarts
  Requesters <- MCRequesters
INVARIANTS
  TypeOK
  NeverOversold
  BalancedUnlessContested
SYMMETRY Symmetries
