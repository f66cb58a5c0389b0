------------------------------- MODULE MCCarts -------------------------------
(* Values of the constants of Carts for TLC. *)
EXTENDS Carts, TLC

CONSTANTS a, b

Asks(kind, p, q, by) ==
  [kind |-> kind, product |-> p, quantity |-> q, list |-> << >>, by |-> by]

MCRequests ==
  {Asks("get", Gone, 0, by) : by \in {"session", "both"}}
  \cup {Asks("add", p, 1, "id") : p \in Products}
  \cup {Asks("add", a, 1, "session"), Asks("add", b, 1, "both")}
  \cup {Asks("update", a, 2, "id"), Asks("remove", a, 0, "id"),
        Asks("remove", b, 0, "id"), Asks("clear", Gone, 0, "id"),
        Asks("checkout", Gone, 0, "id")}
  \cup {[Asks("sync", Gone, 0, "user") EXCEPT !.list = <<a, b>>]}

\* Three calls of any kind, or four of those that write to one cart.
Look == Asks("get", Gone, 0, "id")
FourCalls == {Asks("add", p, 1, "id") : p \in Products}
             \cup {Asks(kind, Gone, 0, "id") : kind \in {"clear", "checkout"}}
MCJobs == {jobs \in [Calls -> MCRequests \cup {Look}] : \E c \in Calls : jobs[c] = Look}
          \cup [Calls -> FourCalls]

MCEarlier == {<< >>, <<a>>, <<a, b>>}

Symmetries == Permutations(Calls)
=============================================================================
