------------------------------- MODULE Sales --------------------------------
(***************************************************************************)
(* Sales and the stock they take (modules/sales/services/salesService.ts): *)
(* createSale takes the stock of its lines one after the other, and then   *)
(* saves the sale; deleteSale gives the stock back line by line, and then  *)
(* deletes the sale.  Every line is one call of adjustStock, which on a    *)
(* replica set is one step of StockLedger (StockImplementsLedger), in a    *)
(* transaction of its own: the transaction that createSale opens covers    *)
(* only the Sale document.                                                 *)
(***************************************************************************)
EXTENDS Sums, Sequences, FiniteSets

CONSTANTS
  Products, Branches, Opening,
  Buyers,      \* calls of createSale, each of which may create one sale
  Carts,       \* what they ask for: sequences of lines
  Requesters,  \* who makes them: administrator or not, and their own branch
  Removals,    \* calls of deleteSale
  Faults,      \* what may go wrong, out of Fault
  NoBranch     \* no branch was assigned, asked for or found

Line == [product : Products, quantity : Nat \ {0}]

\* stock:  adjustStock fails for a reason other than the stock
\* answer: a call takes effect but its caller sees an error
\* save:   the sale is not valid, or its write, commit or removal fails
Fault == {"stock", "answer", "save"}

ASSUME SalesAssumption ==
  /\ IsFiniteSet(Products) /\ IsFiniteSet(Branches) /\ IsFiniteSet(Buyers)
  /\ NoBranch \notin Branches
  /\ Opening \in [Products -> [Branches -> Nat]]
  /\ Carts \subseteq Seq(Line)
  /\ Requesters \subseteq [admin : BOOLEAN, branch : Branches \cup {NoBranch}]
  /\ Faults \subseteq Fault

VARIABLES
  units,     \* units[p][b]: the stock of product p in branch b
  log,       \* log[p][b]: the StockMovement documents, in insertion order
  cart,      \* cart[s]: the lines of call s, and of the sale it creates
  place,     \* place[s]: the branch of the sale
  pc,        \* pc[s]: what call s does next, or how it ended
  taken,     \* taken[s]: the lines whose stock call s knows it has taken
  saved,     \* the Sale documents, named by the call that created them
  victim,    \* victim[d]: the sale that call d deletes
  rpc,       \* rpc[d]: what call d does next, or how it ended
  returned   \* returned[d]: the lines that d knows it has given back

stock    == <<units, log>>
buying   == <<cart, place, pc, taken>>
removing == <<victim, rpc, returned>>
vars     == <<stock, buying, saved, removing>>

Ledger == INSTANCE StockLedger WITH
            Requests <- Buyers, args <- cart, outcome <- pc

\* The branch of a sale: an administrator may choose any, and everybody else
\* sells in the branch assigned to them.
SaleBranch(who, asked) ==
  IF who.admin THEN IF asked # NoBranch THEN asked ELSE who.branch
  ELSE IF asked \in {NoBranch, who.branch} THEN who.branch ELSE NoBranch

\* What one line of sale s asks of the stock.
Call(s, i, type) ==
  [product |-> cart[s][i].product, branch |-> place[s], type |-> type,
   quantity |-> cart[s][i].quantity]
-----------------------------------------------------------------------------
Init ==
  /\ units = Opening
  /\ log = [p \in Products |-> [b \in Branches |-> << >>]]
  /\ cart \in [Buyers -> Carts]
  /\ place = [s \in Buyers |-> NoBranch]
  /\ pc = [s \in Buyers |-> "new"]
  /\ taken = [s \in Buyers |-> 0]
  /\ saved = {}
  /\ victim \in [Removals -> Buyers]
  /\ rpc = [d \in Removals |-> "new"]
  /\ returned = [d \in Removals |-> 0]

(* createSale *)

\* The seller is found and the branch is decided, or the call is refused.
Begin(s) ==
  /\ pc[s] = "new"
  /\ \E who \in Requesters, asked \in Branches \cup {NoBranch} :
       /\ place' = [place EXCEPT ![s] = SaleBranch(who, asked)]
       /\ pc' = [pc EXCEPT ![s] = IF place'[s] = NoBranch THEN "refused"
                                  ELSE "take"]
  /\ UNCHANGED <<stock, cart, taken, saved, removing>>

\* The next line: adjustStock with type SALE.  When it throws, createSale
\* throws, and the lines before it stay taken.
Take(s) ==
  LET in == Call(s, taken[s] + 1, "SALE")
  IN  /\ pc[s] = "take"
      /\ taken[s] < Len(cart[s])
      /\ \/ /\ Ledger!Effect(in)
            /\ taken' = [taken EXCEPT ![s] = @ + 1]
            /\ UNCHANGED pc
         \/ /\ "answer" \in Faults
            /\ Ledger!Effect(in)
            /\ taken' = [taken EXCEPT ![s] = @ + 1]
            /\ pc' = [pc EXCEPT ![s] = "failed"]
         \/ /\ Ledger!Short(in) \/ "stock" \in Faults
            /\ pc' = [pc EXCEPT ![s] = "failed"]
            /\ UNCHANGED <<stock, taken>>
  /\ UNCHANGED <<cart, place, saved, removing>>

\* Every line is taken: newSale.save and the commit.  A commit that succeeds
\* may still be answered with an error.
MutSave(s) ==
  /\ pc[s] = "take"
  /\ saved' = saved \cup {s}
  /\ pc' = [pc EXCEPT ![s] = "sold"]
  /\ UNCHANGED <<stock, cart, place, taken, removing>>
Save(s) ==
  /\ pc[s] = "take"
  /\ taken[s] = Len(cart[s])
  /\ \/ saved' = saved \cup {s} /\ pc' = [pc EXCEPT ![s] = "sold"]
     \/ /\ "answer" \in Faults
        /\ saved' = saved \cup {s}
        /\ pc' = [pc EXCEPT ![s] = "failed"]
     \/ /\ "save" \in Faults
        /\ pc' = [pc EXCEPT ![s] = "failed"]
        /\ UNCHANGED saved
  /\ UNCHANGED <<stock, cart, place, taken, removing>>

(* deleteSale *)

\* Sale.findById.
FindSale(d) ==
  /\ rpc[d] = "new"
  /\ rpc' = [rpc EXCEPT ![d] = IF victim[d] \in saved THEN "return"
                               ELSE "notfound"]
  /\ UNCHANGED <<stock, buying, saved, victim, returned>>

\* The next line: adjustStock with type RETURN.
MutReturnLine(d) ==
  LET in == Call(victim[d], 1, "RETURN")
  IN  /\ rpc[d] = "return"
      /\ returned[d] < Len(cart[victim[d]])
      /\ Ledger!Effect(in)
      /\ returned' = [returned EXCEPT ![d] = @ + 1]
  /\ UNCHANGED <<buying, saved, victim, rpc>>
ReturnLine(d) ==
  LET in == Call(victim[d], returned[d] + 1, "RETURN")
  IN  /\ rpc[d] = "return"
      /\ returned[d] < Len(cart[victim[d]])
      /\ \/ /\ Ledger!Effect(in)
            /\ returned' = [returned EXCEPT ![d] = @ + 1]
            /\ UNCHANGED rpc
         \/ /\ "answer" \in Faults
            /\ Ledger!Effect(in)
            /\ rpc' = [rpc EXCEPT ![d] = "failed"]
            /\ UNCHANGED returned
         \/ /\ "stock" \in Faults
            /\ rpc' = [rpc EXCEPT ![d] = "failed"]
            /\ UNCHANGED <<stock, returned>>
  /\ UNCHANGED <<buying, saved, victim>>

\* Sale.findByIdAndDelete.
Delete(d) ==
  /\ rpc[d] = "return"
  /\ returned[d] = Len(cart[victim[d]])
  /\ \/ saved' = saved \ {victim[d]} /\ rpc' = [rpc EXCEPT ![d] = "removed"]
     \/ /\ "answer" \in Faults
        /\ saved' = saved \ {victim[d]}
        /\ rpc' = [rpc EXCEPT ![d] = "failed"]
     \/ /\ "save" \in Faults
        /\ rpc' = [rpc EXCEPT ![d] = "failed"]
        /\ UNCHANGED saved
  /\ UNCHANGED <<stock, buying, victim, returned>>

CreateSale(s) == Begin(s) \/ Take(s) \/ Save(s)
DeleteSale(d) == FindSale(d) \/ ReturnLine(d) \/ Delete(d)

\* Nothing is left to do.
Idle ==
  /\ \A s \in Buyers : pc[s] \in {"sold", "refused", "failed"}
  /\ \A d \in Removals : rpc[d] \in {"removed", "notfound", "failed"}
  /\ UNCHANGED vars

Next == \/ \E s \in Buyers : CreateSale(s)
        \/ \E d \in Removals : DeleteSale(d)
        \/ Idle

Spec == Init /\ [][Next]_vars
-----------------------------------------------------------------------------
(* Properties *)

\* Type correctness.
TypeOK ==
  /\ units \in [Products -> [Branches -> Nat]]
  /\ cart \in [Buyers -> Carts]
  /\ place \in [Buyers -> Branches \cup {NoBranch}]
  /\ pc \in [Buyers -> {"new", "take", "sold", "refused", "failed"}]
  /\ DOMAIN taken = Buyers /\ \A s \in Buyers : taken[s] \in 0..Len(cart[s])
  /\ \A s \in saved : s \in Buyers /\ place[s] \in Branches
  /\ victim \in [Removals -> Buyers]
  /\ rpc \in [Removals -> {"new", "return", "removed", "notfound", "failed"}]
  /\ DOMAIN returned = Removals
  /\ \A d \in Removals : returned[d] \in 0..Len(cart[victim[d]])

\* The units of p in the lines of a cart, and in a set of sales of branch b.
UnitsIn(lines, p) ==
  [i \in DOMAIN lines |-> IF lines[i].product = p THEN lines[i].quantity ELSE 0]
InCart(lines, p) == SumOn(UnitsIn(lines, p), DOMAIN lines)
Sold(S, p, b) ==
  SumOn([s \in S |-> IF place[s] = b THEN InCart(cart[s], p) ELSE 0], S)

\* Removals of s that found it; s is contested when there are two of them, and
\* half returned when one of them failed.
Finders(s) == {d \in Removals : victim[d] = s /\ rpc[d] \notin {"new", "notfound"}}
Contested == \E s \in Buyers : \E d, e \in Finders(s) : d # e
Broken == \E d \in Removals : rpc[d] = "failed"
Standing == {s \in saved : Finders(s) = {}}

\* Nothing is sold twice: the sales that stand never add up to more than the
\* shop had, whatever failed and in whatever order the lines were taken, as
\* long as no sale is being deleted twice.
NeverOversold ==
  ~ Contested /\ ~ Broken =>
    \A p \in Products, b \in Branches : Sold(Standing, p, b) <= Opening[p][b]

\* What the sales that failed had taken when they failed, and keep.
FirstLines(s) == SubSeq(cart[s], 1, taken[s])
Kept(p, b) ==
  SumOn([s \in Buyers |->
           IF pc[s] = "failed" /\ s \notin saved /\ Finders(s) = {} /\ place[s] = b
           THEN InCart(FirstLines(s), p) ELSE 0], Buyers)
Balanced ==
  \A p \in Products, b \in Branches :
    units[p][b] + Sold(saved, p, b) + Kept(p, b) = Opening[p][b]
Quiet == /\ \A s \in Buyers : pc[s] # "take"
         /\ \A d \in Removals : rpc[d] # "return"

\* Once nothing is under way, shelf, sales and what failed sales keep add up to
\* the opening stock to the unit, as long as no sale was deleted twice or in
\* part: a createSale that throws loses the lines before, and no others.
BalancedUnlessContested == Quiet /\ ~ Contested /\ ~ Broken => Balanced
-----------------------------------------------------------------------------
(* Why the properties hold: the parts of an inductive invariant *)

\* What a call of createSale has done when it gets where it is.
BuyerOK(s) ==
  /\ pc[s] \in {"new", "refused"} => taken[s] = 0
  /\ pc[s] \in {"take", "sold"} \/ taken[s] # 0 => place[s] \in Branches
  /\ s \in saved \/ pc[s] = "sold" =>
       pc[s] \in {"sold", "failed"} /\ taken[s] = Len(cart[s])
  /\ pc[s] = "sold" /\ s \notin saved => Finders(s) # {}

\* The same of deleteSale: only a sale that was made is deleted, and all of its
\* stock is given back first.
RemovalOK(d) ==
  LET s == victim[d]
  IN  /\ rpc[d] \in {"new", "notfound"} => returned[d] = 0
      /\ rpc[d] \in {"return", "removed", "failed"} =>
           /\ pc[s] \in {"sold", "failed"} /\ taken[s] = Len(cart[s])
           /\ place[s] \in Branches
      /\ rpc[d] = "removed" => s \notin saved /\ returned[d] = Len(cart[s])

\* The lines of s whose stock is not on the shelf: taken, and not given back.
Away(s) ==
  {i \in DOMAIN cart[s] : i <= taken[s] /\ \A d \in Finders(s) : returned[d] < i}
Held(p, b) ==
  [s \in Buyers |-> IF place[s] = b THEN SumOn(UnitsIn(cart[s], p), Away(s)) ELSE 0]

\* Shelf and lines add up to the opening stock at any moment.
Books ==
  ~ Contested /\ ~ Broken =>
    \A p \in Products, b \in Branches :
      units[p][b] + SumOn(Held(p, b), Buyers) = Opening[p][b]

SalesInv ==
  /\ TypeOK
  /\ \A s \in Buyers : BuyerOK(s)
  /\ \A d \in Removals : RemovalOK(d)
  /\ Books
=============================================================================
