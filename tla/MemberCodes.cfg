SPECIFICATION Spec
CONSTANTS
  Starts = {r1, r2}
  StaffCalls = {a1}
  ShopCalls = {k1}
  Legacy <- MCLegacy
  Base = 2
INVARIANTS
  CodeIsFree
  OldestFirst
  AdminExists
PROPERTIES
  CodeIsKept
SYMMETRY Symmetries
CHECK_DEADLOCK FALSE
