---------------------------- MODULE StockLedger -----------------------------
(***************************************************************************)
(* What adjustStock promises its callers: a ledger of stock rows in which  *)
(* every request takes effect in one indivisible step, or not at all.      *)
(***************************************************************************)
EXTENDS Integers, Sequences

CONSTANTS Products, Branches, Opening, Requests

VARIABLES
  units,    \* units[p][b]: the stock of product p in branch b
  log,      \* log[p][b]: the movements of that row, oldest first
  args,     \* args[r]: product, branch, movement type and quantity of r
  outcome   \* outcome[r]: "open" until the request is answered

vars == <<units, log, args, outcome>>

Absolute(q) == IF q < 0 THEN 0 - q ELSE q
Change(in)  == IF in.type \in {"SALE", "TRANSFER_OUT"}
               THEN 0 - Absolute(in.quantity) ELSE in.quantity

Init ==
  /\ units = Opening
  /\ log = [p \in Products |-> [b \in Branches |-> << >>]]
  /\ outcome = [r \in Requests |-> "open"]

\* The row would go below zero.
Short(in) == units[in.product][in.branch] + Change(in) < 0

\* The whole effect at once: the row moves, and the movement that explains it
\* is appended.
MutEffect(in) ==
  LET old == units[in.product][in.branch]
      new == old + Change(in)
      m   == [type |-> in.type, quantity |-> Absolute(in.quantity),
              previousStock |-> old, currentStock |-> new]
  IN  /\ units' = [units EXCEPT ![in.product][in.branch] = new]
      /\ log' = [log EXCEPT ![in.product][in.branch] = Append(@, m)]
Effect(in) ==
  LET old == units[in.product][in.branch]
      new == old + Change(in)
      m   == [type |-> in.type, quantity |-> Absolute(in.quantity),
              previousStock |-> old, currentStock |-> new]
  IN  /\ new >= 0
      /\ units' = [units EXCEPT ![in.product][in.branch] = new]
      /\ log' = [log EXCEPT ![in.product][in.branch] = Append(@, m)]

\* A request takes effect; its answer can be lost on the way back ("broken").
Apply(r) ==
  /\ outcome[r] = "open"
  /\ Effect(args[r])
  /\ outcome' \in {[outcome EXCEPT ![r] = o] : o \in {"done", "broken"}}
  /\ UNCHANGED args

\* Refused because of the stock at that very moment.
Reject(r) ==
  /\ outcome[r] = "open"
  /\ Short(args[r])
  /\ outcome' = [outcome EXCEPT ![r] = "insufficient"]
  /\ UNCHANGED <<units, log, args>>

\* Refused, or broken off, for any other reason: without a trace.
Abandon(r) ==
  /\ outcome[r] = "open"
  /\ outcome' \in {[outcome EXCEPT ![r] = o] : o \in {"conflict", "broken"}}
  /\ UNCHANGED <<units, log, args>>

Next == \E r \in Requests : Apply(r) \/ Reject(r) \/ Abandon(r)

Spec == Init /\ [][Next]_vars
=============================================================================
