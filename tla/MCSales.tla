------------------------------ MODULE MCSales -------------------------------
(* Values of the constants of Sales for TLC. *)
EXTENDS Sales, TLC

CONSTANTS p1, p2, b1, b2

\* Two units of p1 and one of p2 in branch b1, one of p1 in branch b2: any
\* two of the carts contend for the last units.
MCOpening ==
  [p \in Products |-> [b \in Branches |->
     IF p = p1 THEN IF b = b1 THEN 2 ELSE 1 ELSE IF b = b1 THEN 1 ELSE 0]]
L(p, q) == [product |-> p, quantity |-> q]
MCCarts == { <<L(p1, 2)>>, <<L(p1, 1), L(p2, 1)>>, <<L(p2, 1), L(p1, 1)>> }
MCRequesters == { [admin |-> TRUE, branch |-> b1],
                  [admin |-> FALSE, branch |-> b1],
                  [admin |-> FALSE, branch |-> NoBranch] }
Symmetries == Permutations(Buyers) \cup Permutations(Removals)
=============================================================================
