---------------------------- MODULE MCCreditNotes ---------------------------
(* Values of the constants of CreditNotes for TLC: one sale that AFIP has     *)
(* authorised, whose total of 4 cents has parts that round at a half, and one *)
(* that it has not, with a shipping cost.                                     *)
EXTENDS CreditNotes, TLC

CONSTANTS s1, s2

MCNeto == [s \in Sales |-> IF s = s1 THEN 3 ELSE 2]
MCIva == [s \in Sales |-> 1]
MCShipping == [s \in Sales |-> IF s = s1 THEN 0 ELSE 1]
MCLines == [s \in Sales |-> IF s = s1 THEN 2 ELSE 1]

MCRequests ==
  {[sale |-> s, mode |-> "TOTAL", stock |-> TRUE, total |-> 2] : s \in Sales}
    \cup {[sale |-> s1, mode |-> "PARTIAL", stock |-> FALSE, total |-> 2]}

CallSymmetry == Permutations(Calls)
=============================================================================
