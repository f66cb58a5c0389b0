-------------------------------- MODULE Sums --------------------------------
(***************************************************************************)
(* Finite sums, written as a recursive FUNCTION so that they can be used   *)
(* in proofs as well as in model checking.  SumOn(f, S) is what the        *)
(* services compute with rows.reduce((acc, row) => acc + row.x, 0).        *)
(***************************************************************************)
EXTENDS Integers

\* An arbitrary but fixed element of a nonempty set.
Pick(S) == CHOOSE x \in S : TRUE

\* The sum of f[x] for every x in the finite set S.
SumOn(f, S) ==
  LET sum[T \in SUBSET S] == IF T = {} THEN 0
                             ELSE f[Pick(T)] + sum[T \ {Pick(T)}]
  IN  sum[S]
=============================================================================
