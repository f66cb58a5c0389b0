------------------------------ MODULE MCOrders ------------------------------
(* Placements and symmetry of Orders for TLC. *)
EXTENDS Orders, TLC

\* An order paid by checkout, one that its client calls approved, and one that names
\* the payment of another order.
SomePlacements ==
  {[status |-> "pending",  payment |-> "none"],
   [status |-> "approved", payment |-> "none"],
   [status |-> "other",    payment |-> "approved"]}

\* What is true of some calls is true of others.
Symmetries == Permutations(Calls)
=============================================================================
