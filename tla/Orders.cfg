SPECIFICATION Spec
CONSTANTS
  Calls = {c1, c2, c3}
  Placements <- SomePlacements
  Faults = {"partner", "store"}
INVARIANTS
  NothingForNothing
  OncePerOrder
  ApprovedIsServed
PROPERTIES
  PaidUntilToldOtherwise
  ShippingGoesForward
SYMMETRY Symmetries
CHECK_DEADLOCK FALSE
