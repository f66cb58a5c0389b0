----------------------------- MODULE MCSessions -----------------------------
(* Values of the constants of Sessions for TLC. *)
EXTENDS Sessions, TLC

CONSTANTS t1, t2, t3, b1, b2

\* Two tabs of one browser and one of another.
MCBrowserOf == [t \in Tabs |-> IF t = t3 THEN b2 ELSE b1]
RequestSymmetry == Permutations(Requests)
=============================================================================
