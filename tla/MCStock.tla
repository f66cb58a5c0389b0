------------------------------ MODULE MCStock -------------------------------
(* Values of the constants of Stock for TLC. *)
EXTENDS Stock, TLC

CONSTANTS p1, p2, b1, b2

\* Branch b1 opens with two units of each product and b2 with none: sales and
\* returns contend for p1 in b1, two sales of 2 cannot both succeed, a manual
\* adjustment works on the row of b2, which may not exist yet, and the transfer
\* of p2 must not be disturbed by any of them.
MCOpening == [p \in Products |-> [b \in Branches |-> IF b = b1 THEN 2 ELSE 0]]
Call(p, b, t, q) == [product |-> p, branch |-> b, type |-> t, quantity |-> q]
MCInputs ==
  { Call(p1, b1, "SALE", 1), Call(p1, b1, "SALE", 2), Call(p1, b1, "RETURN", 1),
    Call(p1, b2, "MANUAL_ADJUSTMENT", 1), Call(p1, b2, "MANUAL_ADJUSTMENT", -1) }
MCTwoProducts ==
  { Call(p1, b1, "SALE", 2), Call(p1, b1, "RETURN", 1),
    Call(p1, b2, "MANUAL_ADJUSTMENT", 1), Call(p1, b2, "MANUAL_ADJUSTMENT", -1),
    Call(p2, b1, "TRANSFER_OUT", 2) }

MCCorrections == {-1, 2}
RequestSymmetry == Permutations(Requests)
=============================================================================
