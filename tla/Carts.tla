-------------------------------- MODULE Carts --------------------------------
(***************************************************************************)
(* The carts of one customer of the shop and the orders made from them:    *)
(* modules/ecommerce/services/cartService.ts and checkoutCart of           *)
(* checkoutService.ts.                                                     *)
(*                                                                         *)
(* A Cart document has no version (models/Cart.ts: versionKey false) and   *)
(* nothing makes it unique.  Every call reads the document, changes its    *)
(* copy and saves; save writes what was changed and nothing else: a        *)
(* quantity by the position of its row ($set items.0.quantity), a new row  *)
(* with $push, and the rows as a whole when some were taken out.  A        *)
(* quantity written to a position that is gone leaves a row without        *)
(* product.                                                                *)
(*                                                                         *)
(* Every price is 1, so that a subtotal counts units.  What createSale     *)
(* does is in Sales; here an order is made or refused.                     *)
(***************************************************************************)
EXTENDS Sums, Sequences, FiniteSets

CONSTANTS
  Products,
  Gone,     \* the product of a row that has none
  Calls,    \* the calls of the customer's pages; each is made once
  Jobs,     \* what they may be asked to do, call by call
  Earlier,  \* what earlier calls may have put into the cart: sequences of
            \* different products
  Faults    \* what may go wrong, out of {"store"}: a write to MongoDB fails

\* A call adds, updates, removes, clears, syncs or checks out.  It names its
\* cart, or is served the cart of its user or of its session; "get" only
\* asks for that cart.
Request ==
  {r \in [kind : {"get", "add", "update", "remove", "clear", "sync", "checkout"},
          product : Products \cup {Gone}, quantity : Nat, list : Seq(Products),
          by : {"id", "user", "session", "both"}] :
     r.kind \in {"add", "update", "remove"} => r.product \in Products}

ASSUME CartsAssumption ==
  /\ Gone \notin Products
  /\ IsFiniteSet(Calls)
  /\ Jobs \subseteq [Calls -> Request]
  /\ Earlier \subseteq {s \in Seq(Products) :
                          \A i, j \in DOMAIN s : s[i] = s[j] => i = j}
  /\ Faults \subseteq {"store"}

VARIABLES
  carts,    \* the Cart documents, in the order of their creation
  ordered,  \* ordered[p]: how many units of p were ordered
  pc,       \* pc[c]: what call c does next, or how it ended
  job,      \* job[c]: what call c is asked to do; a sync adds what is left
  copy,     \* copy[c]: the document that call c holds
  \* history
  basket,   \* basket[n][p]: what cart n holds if its calls count one by one
  asked,    \* asked[p]: how many units of p were ever asked for
  crossed   \* the kinds of calls that held a document at once, in pairs; and
            \* what else went wrong

vars == <<carts, ordered, pc, job, copy, basket, asked, crossed>>

Ended == {"done", "rejected", "failed"}
NoCopy == [cart |-> 0, items |-> << >>, subtotal |-> 0]

\* What rows come to, altogether and of one product.
Quantity(items) == [i \in DOMAIN items |-> items[i].quantity]
QuantityOf(items, p) ==
  [i \in DOMAIN items |-> IF items[i].product = p THEN items[i].quantity ELSE 0]
Units(items) == SumOn(Quantity(items), DOMAIN items)
InCart(items, p) == SumOn(QuantityOf(items, p), DOMAIN items)

\* items.filter: the rows of other products, in their order.
Nth(S, k) == CHOOSE i \in S : Cardinality({j \in S : j < i}) = k - 1
Without(items, p) ==
  LET others == {i \in DOMAIN items : items[i].product # p}
  IN  [k \in 1..Cardinality(others) |-> items[Nth(others, k)]]

Broken(items) == \E i \in DOMAIN items : items[i].product = Gone
Rows(list) == [i \in DOMAIN list |-> [product |-> list[i], quantity |-> 1]]

\* items.find: the first row of the product, 0 when there is none.
Find(items, p) ==
  LET rows == {i \in DOMAIN items : items[i].product = p}
  IN  IF rows = {} THEN 0 ELSE CHOOSE i \in rows : \A j \in rows : i <= j

\* $set items.i.quantity, on rows that may be others than those it was
\* computed from.
SetQuantity(items, i, q) ==
  [j \in 1..(IF i > Len(items) THEN i ELSE Len(items)) |->
     [product  |-> IF j \in DOMAIN items THEN items[j].product ELSE Gone,
      quantity |-> IF j = i THEN q
                   ELSE IF j \in DOMAIN items THEN items[j].quantity ELSE 0]]

\* save writes a subtotal that is not the one it read.
Saved(c, subtotal) ==
  IF subtotal = copy[c].subtotal THEN carts[copy[c].cart].subtotal ELSE subtotal
Written(n, items, subtotal) ==
  [carts EXCEPT ![n].items = items, ![n].subtotal = subtotal]

Goto(c, label) == pc' = [pc EXCEPT ![c] = label]
End(c, label)  == Goto(c, label) /\ copy' = [copy EXCEPT ![c] = NoCopy]
Cross(pairs)   == crossed' = crossed \cup pairs
-----------------------------------------------------------------------------
\* No cart yet, or the cart of the session with what earlier calls added.
Init ==
  /\ carts \in {<< >>} \cup
       {<<[user |-> FALSE, session |-> TRUE, items |-> Rows(list),
           subtotal |-> Len(list)]>> : list \in Earlier}
  /\ ordered = [p \in Products |-> 0]
  /\ pc = [c \in Calls |-> "new"]
  /\ job \in Jobs
  /\ copy = [c \in Calls |-> NoCopy]
  /\ basket = [n \in DOMAIN carts |->
                 [p \in Products |-> InCart(carts[n].items, p)]]
  /\ asked = [p \in Products |->
                IF carts = << >> THEN 0 ELSE InCart(carts[1].items, p)]
  /\ crossed = {}

\* What a call does to the document it holds; a sync empties it and adds.
Effect(c) == IF job[c].kind # "sync" THEN job[c].kind
             ELSE IF pc[c] \in {"add", "again"} THEN "add" ELSE "clear"
Holding(c) == pc[c] \in {"attach", "add", "change", "sell", "empty"}

\* Call c holds cart n from now on, and goes on.
Hold(c, n, label) ==
  /\ Goto(c, label)
  /\ copy' = [copy EXCEPT ![c] = [cart |-> n, items |-> carts[n].items,
                                  subtotal |-> carts[n].subtotal]]
  /\ Cross({{Effect(c), Effect(d)} :
              d \in {e \in Calls \ {c} : Holding(e) /\ copy[e].cart = n}})

\* What call c does with the rows it has read.  Nobody can add to, change or
\* order from a cart with a broken row: looking for the product throws, or
\* the row fails its validation.
Purpose(c, items) ==
  CASE job[c].kind = "get" -> "done"
    [] job[c].kind \in {"clear", "sync"} -> "empty"
    [] job[c].kind = "add" -> IF Broken(items) THEN "rejected" ELSE "add"
    [] job[c].kind = "checkout" ->
         IF Broken(items) \/ items = << >> THEN "rejected" ELSE "sell"
    [] job[c].kind \in {"update", "remove"} ->
         IF Broken(items) \/ Find(items, job[c].product) = 0 THEN "rejected"
         ELSE "change"
Take(c, n, label) ==
  IF label \in Ended THEN End(c, label) /\ UNCHANGED crossed
  ELSE Hold(c, n, label)

(* getOrCreateCart *)

\* Cart.findOne({ user }).
FindByUser(c) ==
  LET found == {n \in DOMAIN carts : carts[n].user}
  IN  /\ pc[c] = "new"
      /\ job[c].by \in {"user", "both"}
      /\ \/ \E n \in found : Take(c, n, Purpose(c, carts[n].items))
         \/ /\ found = {}
            /\ Goto(c, IF job[c].by = "both" THEN "session" ELSE "create")
            /\ UNCHANGED <<copy, crossed>>
      /\ UNCHANGED <<carts, ordered, job, basket, asked>>

\* Cart.findOne({ sessionId }).
FindBySession(c) ==
  LET found == {n \in DOMAIN carts : carts[n].session}
  IN  /\ \/ pc[c] = "new" /\ job[c].by = "session"
         \/ pc[c] = "session"
      /\ \/ \E n \in found :
              Take(c, n, IF job[c].by = "both" /\ ~ carts[n].user THEN "attach"
                         ELSE Purpose(c, carts[n].items))
         \/ /\ found = {}
            /\ Goto(c, "create")
            /\ UNCHANGED <<copy, crossed>>
      /\ UNCHANGED <<carts, ordered, job, basket, asked>>

\* cart.user = userId; cart.save().  The rows are not read again.
Attach(c) ==
  LET n == copy[c].cart
  IN  /\ pc[c] = "attach"
      /\ \/ /\ ~ Broken(copy[c].items)
            /\ carts' = [carts EXCEPT ![n].user = TRUE]
            /\ IF Purpose(c, copy[c].items) \in Ended
               THEN End(c, Purpose(c, copy[c].items))
               ELSE Goto(c, Purpose(c, copy[c].items)) /\ UNCHANGED copy
            /\ UNCHANGED crossed
         \/ /\ Broken(copy[c].items)
            /\ End(c, "rejected")
            /\ UNCHANGED <<carts, crossed>>
         \/ /\ "store" \in Faults
            /\ End(c, "failed")
            /\ UNCHANGED <<carts, crossed>>
      /\ UNCHANGED <<ordered, job, basket, asked>>

\* Cart.create.
Create(c) ==
  LET n == Len(carts) + 1
  IN  /\ pc[c] = "create"
      /\ \/ /\ carts' = Append(carts, [user |-> job[c].by # "session",
                                       session |-> job[c].by # "user",
                                       items |-> << >>, subtotal |-> 0])
            /\ basket' = Append(basket, [p \in Products |-> 0])
            /\ IF job[c].kind = "get" THEN End(c, "done")
               ELSE /\ Goto(c, Purpose(c, << >>))
                    /\ copy' = [copy EXCEPT ![c].cart = n]
         \/ /\ "store" \in Faults
            /\ End(c, "failed")
            /\ UNCHANGED <<carts, basket>>
      /\ UNCHANGED <<ordered, job, asked, crossed>>

(* addCartItem, updateCartItem, removeCartItem, clearCart,               *)
(* syncCartFromClientItems and checkoutCart                              *)

\* Cart.findById.
FindById(c) ==
  /\ \/ /\ pc[c] = "new" /\ job[c].by = "id"
        /\ \E n \in DOMAIN carts : Take(c, n, Purpose(c, carts[n].items))
     \/ /\ pc[c] = "again"
        /\ LET n == copy[c].cart
           IN  Take(c, n, IF Broken(carts[n].items) THEN "rejected" ELSE "add")
  /\ UNCHANGED <<carts, ordered, job, basket, asked>>

\* A product that is not in the catalogue is refused; a sync ends half way.
Refuse(c) ==
  /\ pc[c] = "again" \/ (pc[c] = "new" /\ job[c].kind = "add")
  /\ End(c, "rejected")
  /\ UNCHANGED <<carts, ordered, job, basket, asked, crossed>>

\* A save that does not reach MongoDB.
SaveFails(c) ==
  /\ pc[c] \in {"add", "change", "empty"}
  /\ "store" \in Faults
  /\ End(c, "failed")
  /\ Cross(IF pc[c] = "empty" /\ job[c].kind = "checkout" THEN {{"store"}} ELSE {})
  /\ UNCHANGED <<carts, ordered, job, basket, asked>>

\* One more of the product: its row, by its position, or a row of its own.
MutAddedRows(c, p, q) ==
  LET rows == carts[copy[c].cart].items
      i == Find(copy[c].items, p)
  IN  IF i = 0 THEN Append(rows, [product |-> p, quantity |-> q])
      ELSE SetQuantity(rows, i + 1, copy[c].items[i].quantity + q)
AddedRows(c, p, q) ==
  LET rows == carts[copy[c].cart].items
      i == Find(copy[c].items, p)
  IN  IF i = 0 THEN Append(rows, [product |-> p, quantity |-> q])
      ELSE SetQuantity(rows, i, copy[c].items[i].quantity + q)
Add(c) ==
  LET n == copy[c].cart
      p == IF job[c].kind = "sync" THEN Head(job[c].list) ELSE job[c].product
      q == IF job[c].kind = "sync" THEN 1 ELSE job[c].quantity
  IN  /\ pc[c] = "add"
      /\ carts' = Written(n, AddedRows(c, p, q), Saved(c, Units(copy[c].items) + q))
      /\ basket' = [basket EXCEPT ![n][p] = @ + q]
      /\ asked' = [asked EXCEPT ![p] = @ + q]
      /\ IF job[c].kind = "sync" /\ Len(job[c].list) > 1
         THEN /\ Goto(c, "again")
              /\ job' = [job EXCEPT ![c].list = Tail(@)]
              /\ UNCHANGED copy
         ELSE End(c, "done") /\ UNCHANGED job
      /\ UNCHANGED <<ordered, crossed>>

\* Another quantity, or the rows without the product.
Update(c) ==
  LET n == copy[c].cart
      p == job[c].product
      q == job[c].quantity
      i == Find(copy[c].items, p)
      old == copy[c].items[i].quantity
  IN  /\ carts' = Written(n, IF q = old THEN carts[n].items
                             ELSE SetQuantity(carts[n].items, i, q),
                          Saved(c, Units(copy[c].items) - old + q))
      /\ basket' = [basket EXCEPT ![n][p] = q]
      /\ asked' = [asked EXCEPT ![p] = IF q > old THEN @ + q - old ELSE @]
MutRest(c) == copy[c].subtotal - InCart(copy[c].items, job[c].product)
Rest(c) == Units(Without(copy[c].items, job[c].product))
Remove(c) ==
  LET n == copy[c].cart
      p == job[c].product
  IN  /\ carts' = Written(n, Without(copy[c].items, p), Saved(c, Rest(c)))
      /\ basket' = [basket EXCEPT ![n][p] = 0]
      /\ UNCHANGED asked
Change(c) ==
  /\ pc[c] = "change"
  /\ (job[c].kind = "update" /\ Update(c)) \/ (job[c].kind = "remove" /\ Remove(c))
  /\ End(c, "done")
  /\ UNCHANGED <<ordered, job, crossed>>

\* checkoutDirect: the order is made of the rows that were read, or refused.
MutSell(c) ==
  /\ pc[c] = "sell"
  /\ \/ /\ ordered' = [p \in Products |-> ordered[p] + InCart(copy[c].items, p)]
        /\ End(c, "done")
     \/ End(c, "rejected") /\ UNCHANGED ordered
  /\ UNCHANGED <<carts, job, basket, asked, crossed>>
Sell(c) ==
  /\ pc[c] = "sell"
  /\ \/ /\ ordered' = [p \in Products |-> ordered[p] + InCart(copy[c].items, p)]
        /\ Goto(c, "empty")
        /\ UNCHANGED copy
     \/ End(c, "rejected") /\ UNCHANGED ordered
  /\ UNCHANGED <<carts, job, basket, asked, crossed>>

\* cart.items = []; cart.subtotal = 0; cart.save().
MutEmptied(c) ==
  Written(copy[c].cart, IF copy[c].items = << >> THEN carts[copy[c].cart].items
                        ELSE << >>, carts[copy[c].cart].subtotal)
Emptied(c) ==
  Written(copy[c].cart, IF copy[c].items = << >> THEN carts[copy[c].cart].items
                        ELSE << >>, Saved(c, 0))
Empty(c) ==
  /\ pc[c] = "empty"
  /\ carts' = Emptied(c)
  /\ basket' = [basket EXCEPT ![copy[c].cart] = [p \in Products |-> 0]]
  /\ IF job[c].kind = "sync" /\ job[c].list # << >>
     THEN Goto(c, "again") /\ UNCHANGED copy
     ELSE End(c, "done")
  /\ UNCHANGED <<ordered, job, asked, crossed>>

Call(c) ==
  \/ FindByUser(c) \/ FindBySession(c) \/ Attach(c) \/ Create(c)
  \/ FindById(c) \/ Refuse(c) \/ SaveFails(c)
  \/ Add(c) \/ Change(c) \/ Sell(c) \/ Empty(c)

Next == \E c \in Calls : Call(c)

Spec == Init /\ [][Next]_vars
-----------------------------------------------------------------------------
(* Properties *)

Labels == Ended \cup {"new", "session", "create", "attach", "add", "again", "change",
                       "sell", "empty"}
Row == [product : Products \cup {Gone}, quantity : Nat]

\* Type correctness.
TypeOK ==
  /\ carts \in Seq([user : BOOLEAN, session : BOOLEAN, items : Seq(Row),
                    subtotal : Nat])
  /\ ordered \in [Products -> Nat]
  /\ pc \in [Calls -> Labels]
  /\ job \in [Calls -> Request]
  /\ copy \in [Calls -> [cart : Nat, items : Seq(Row), subtotal : Nat]]
  /\ basket \in [DOMAIN carts -> [Products -> Nat]]
  /\ asked \in [Products -> Nat]

\* However many carts a customer's first calls have made where there should be
\* one, a cart that only one call at a time has held holds what its calls made
\* of it, in one row a product, and its subtotal is what its rows come to.
SequentialIsExact ==
  crossed = {} =>
    \A n \in DOMAIN carts :
      /\ carts[n].subtotal = Units(carts[n].items)
      /\ \A p \in Products :
           /\ InCart(carts[n].items, p) = basket[n][p]
           /\ Cardinality({i \in DOMAIN carts[n].items :
                             carts[n].items[i].product = p}) <= 1

\* A quantity is written by position to a cart that is emptied, or loses a row,
\* at the same time.
Emptying == {"remove", "clear", "checkout"}
Misplaced ==
  \E pair \in crossed : pair \cap {"add", "update"} # {} /\ pair \cap Emptying # {}

\* Only then a row loses its product, and the cart is of no use until it is
\* cleared.
BrokenByEmptying == (\E n \in DOMAIN carts : Broken(carts[n].items)) => Misplaced

\* Nobody buys more of a product than was put into the cart, unless a checkout
\* was repeated before the first had emptied the cart, or after that failed;
\* or a removal put the rows back that had been sold; or a quantity was
\* written to the row of another product.
Excused ==
  \/ {"checkout"} \in crossed
  \/ {"store"} \in crossed
  \/ {"checkout", "remove"} \in crossed
  \/ Misplaced
OrderedOnce == (\E p \in Products : ordered[p] > asked[p]) => Excused
-----------------------------------------------------------------------------
(* Why the properties hold: the parts of an inductive invariant *)

\* What a call is at, and what it holds then.
CallOK(c) ==
  LET kind  == job[c].kind
      items == copy[c].items
  IN  /\ pc[c] \in {"new", "session", "create"} => copy[c] = NoCopy
      /\ Holding(c) \/ pc[c] = "again" => copy[c].cart \in DOMAIN carts
      /\ pc[c] \in {"add", "again"} =>
           kind = "add" \/ (kind = "sync" /\ job[c].list # << >>)
      /\ pc[c] = "again" => kind = "sync"
      /\ pc[c] = "change" =>
           kind \in {"update", "remove"} /\ Find(items, job[c].product) # 0
      /\ pc[c] = "sell" => kind = "checkout"
      /\ pc[c] = "empty" => kind \in {"clear", "sync", "checkout"}
      /\ pc[c] \in {"sell", "empty"} /\ kind = "checkout" => items # << >>
      /\ pc[c] \in {"add", "change", "sell"} => ~ Broken(items)

\* Calls that hold one cart have been noted.
Holders(n) == {c \in Calls : Holding(c) /\ copy[c].cart = n}
PairsNoted ==
  \A n \in DOMAIN carts : \A c, d \in Holders(n) :
    c # d => {Effect(c), Effect(d)} \in crossed

\* Unless a quantity was misplaced, no row is without product, and the rows that
\* somebody is about to write by position are where they were.
Writers(n) == {c \in Holders(n) : Effect(c) \in {"add", "update"}}
RowsInPlace ==
  ~ Misplaced =>
    \A n \in DOMAIN carts :
      /\ ~ Broken(carts[n].items)
      /\ \A c \in Writers(n) : \A i \in DOMAIN copy[c].items :
           /\ i \in DOMAIN carts[n].items
           /\ carts[n].items[i].product = copy[c].items[i].product

\* A cart that one call at a time has held is exact, and so is the copy.
Exact(n) ==
  LET items == carts[n].items
  IN  /\ carts[n].subtotal = Units(items)
      /\ \A p \in Products : InCart(items, p) = basket[n][p]
      /\ \A i, j \in DOMAIN items : items[i].product = items[j].product => i = j
AloneIsExact ==
  crossed = {} =>
    \A n \in DOMAIN carts :
      /\ Exact(n)
      /\ \A c \in Holders(n) : /\ copy[c].items = carts[n].items
                               /\ copy[c].subtotal = carts[n].subtotal

\* The most a cart may hold of a product when those that hold it have written:
\* row by row while quantities are written by position, as a whole while
\* copies are put back or sold; and nothing any more while it is being
\* emptied after it was sold.
Most(S) == CHOOSE m \in S : \A x \in S : x <= m
Peak(n, i) ==
  Most({carts[n].items[i].quantity} \cup
       {copy[c].items[i].quantity :
          c \in {d \in Writers(n) : i \in DOMAIN copy[d].items}})
Peaks(n, p) ==
  [i \in DOMAIN carts[n].items |->
     IF carts[n].items[i].product = p THEN Peak(n, i) ELSE 0]
Keepers(n) ==
  {c \in Holders(n) : job[c].kind \in {"remove", "checkout"} /\ pc[c] # "empty"}
Sold(n) == \E c \in Holders(n) : job[c].kind = "checkout" /\ pc[c] = "empty"
Reach(n, p) ==
  IF Writers(n) # {} THEN SumOn(Peaks(n, p), DOMAIN carts[n].items)
  ELSE Most({IF Sold(n) THEN 0 ELSE InCart(carts[n].items, p)} \cup
            {InCart(copy[c].items, p) : c \in Keepers(n)})

\* What was ordered and what the carts may hold was asked for.
Reaches(p) == [n \in DOMAIN carts |-> Reach(n, p)]
OrdersCovered ==
  ~ Excused =>
    \A p \in Products : ordered[p] + SumOn(Reaches(p), DOMAIN carts) <= asked[p]

CartsInv ==
  /\ TypeOK
  /\ \A c \in Calls : CallOK(c)
  /\ PairsNoted /\ RowsInPlace /\ AloneIsExact /\ OrdersCovered
=============================================================================
