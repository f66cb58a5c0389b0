SPECIFICATION EmailSpec
CONSTANTS
  Addresses = {x, y}
  Resends = {r1}
  Changes = {g1, g2}
  Opens = {o1, o2}
  Others = {s1}
  Faults = {"mail"}
INVARIANTS
  VerifiedIsProven
  LastLinkWorks
PROPERTIES
  StaysVerified
SYMMETRY Symmetries
CHECK_DEADLOCK FALSE
