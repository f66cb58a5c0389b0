------------------------------- MODULE Stock --------------------------------
(***************************************************************************)
(* Stock per branch (modules/stock): the rows of the BranchStock           *)
(* collection, the total that the Product document caches, and the         *)
(* StockMovement log.                                                      *)
(*                                                                         *)
(* adjustStock is a chain of awaited database calls.  Each call is one     *)
(* action of the request that makes it, so calls of concurrent requests    *)
(* interleave.  The same code runs in two ways: inside a MongoDB           *)
(* transaction when the server is a replica set member, and without one    *)
(* (the fallback of runAdjustment(false)) on a standalone server.          *)
(* Transactional says which server the deployment has.                     *)
(***************************************************************************)
EXTENDS Sums, Sequences, FiniteSets

CONSTANTS
  Products,       \* the product documents
  Branches,       \* the branches that can hold a row
  Opening,        \* Opening[p][b]: the units stored before the run begins
  Requests,       \* calls of adjustStock, each made once
  Inputs,         \* the arguments those calls may carry
  Corrections,    \* writes of Product.stock alone, each made once
  CorrectionQty,  \* the amounts those writes add or set
  Transactional   \* TRUE on a replica set, FALSE on a standalone server

MovementType == {"SALE", "RETURN", "TRANSFER_IN", "TRANSFER_OUT",
                 "MANUAL_ADJUSTMENT"}

Input == [product : Products, branch : Branches,
          type : MovementType, quantity : Int]

ASSUME StockAssumption ==
  /\ IsFiniteSet(Branches)
  /\ Opening \in [Products -> [Branches -> Nat]]
  /\ Inputs \subseteq Input
  /\ \A in \in Inputs : in.quantity # 0   \* a zero adjustment writes no row
  /\ CorrectionQty \subseteq Int
  /\ Transactional \in BOOLEAN

VARIABLES
  present,   \* present[p]: the branches that have a BranchStock row for p
  units,     \* units[p][b]: BranchStock.stock (0 where there is no row)
  total,     \* total[p]: Product.stock
  log,       \* log[p][b]: the StockMovement documents, in insertion order
  pc,        \* pc[r]: the database call request r makes next, or its outcome
  req,       \* req[r]: the arguments of r
  view,      \* view[r]: the rows of r's product that its transaction sees
  prev,      \* prev[r]: previousStock
  found,     \* found[r]: findOne returned a row
  sum,       \* sum[r]: totalStock
  stale,     \* stale[r]: what others have written since r's first read
  applied    \* the corrections already made

documents == <<present, units, total, log>>
locals    == <<req, view, prev, found, sum>>
vars      == <<documents, pc, locals, stale, applied>>

Running  == {"save", "sum", "total", "log"}
Ended    == {"done", "insufficient", "conflict", "broken"}
Whole    == "product"
Movement == [type : MovementType, quantity : Int,
             previousStock : Int, currentStock : Int]

\* The signed change a movement asks for: a sale or a transfer out always
\* subtracts, every other type takes the quantity with the sign it came with.
Absolute(q) == IF q < 0 THEN 0 - q ELSE q
MutFinalQuantity(in) == in.quantity
FinalQuantity(in) == IF in.type \in {"SALE", "TRANSFER_OUT"}
                     THEN 0 - Absolute(in.quantity)
                     ELSE in.quantity

NextStock(r) == prev[r] + FinalQuantity(req[r])

\* The check of FindRow: the row cannot give what the request takes.
Insufficient(r) ==
  units[req[r].product][req[r].branch] + FinalQuantity(req[r]) < 0

\* The movement the request logs.
MutMovementOf(r) ==
  [type |-> req[r].type, quantity |-> Absolute(req[r].quantity),
   previousStock |-> prev[r], currentStock |-> prev[r] + req[r].quantity]
MovementOf(r) ==
  [type |-> req[r].type, quantity |-> Absolute(req[r].quantity),
   previousStock |-> prev[r], currentStock |-> NextStock(r)]

\* The rows of its product that a request reads for the total: those of its
\* transaction, own write included, or whatever is stored at that moment.
MutRowsStale(r) == view[r]
RowsSeen(r) == IF Transactional THEN view[r] ELSE units[req[r].product]

BranchTotal(row) == SumOn(row, Branches)
-----------------------------------------------------------------------------
Init ==
  /\ present \in [Products -> SUBSET Branches]
  /\ \A p \in Products, b \in Branches : Opening[p][b] > 0 => b \in present[p]
  /\ units = Opening
  /\ total = [p \in Products |-> BranchTotal(Opening[p])]
  /\ log = [p \in Products |-> [b \in Branches |-> << >>]]
  /\ pc = [r \in Requests |-> "new"]
  /\ req \in [Requests -> Inputs]
  /\ view = [r \in Requests |-> [b \in Branches |-> 0]]
  /\ prev = [r \in Requests |-> 0]
  /\ found = [r \in Requests |-> FALSE]
  /\ sum = [r \in Requests |-> 0]
  /\ stale = [r \in Requests |-> {}]
  /\ applied = {}

\* Every other request at work on product p has not seen the writes to what.
Touch(r, p, what) ==
  stale' = [s \in Requests |->
             IF s # r /\ pc[s] \in Running /\ req[s].product = p
             THEN stale[s] \cup what ELSE stale[s]]

\* Documents written by an open transaction, not committed yet.
HoldsRow(s, p, b) ==
  /\ pc[s] \in {"sum", "total", "log"}
  /\ req[s].product = p
  /\ req[s].branch = b
MutHoldsProduct(s, p) == pc[s] \in {"log", "conflict"} /\ req[s].product = p
HoldsProduct(s, p) == pc[s] = "log" /\ req[s].product = p

\* A transaction may not write a document that another one has written and
\* not committed, or that was written after its own snapshot: WriteConflict.
RowConflict(r) ==
  \/ req[r].branch \in stale[r]
  \/ \E s \in Requests \ {r} : HoldsRow(s, req[r].product, req[r].branch)
MutProductConflict(r) ==
  \E s \in Requests \ {r} : HoldsProduct(s, req[r].product)
ProductConflict(r) ==
  \/ Whole \in stale[r]
  \/ \E s \in Requests \ {r} : HoldsProduct(s, req[r].product)

\* BranchStock.findOne, the computation of the next stock and its check.
FindRow(r) ==
  LET p == req[r].product
      b == req[r].branch
  IN  /\ pc[r] = "new"
      /\ view' = [view EXCEPT ![r] = units[p]]
      /\ prev' = [prev EXCEPT ![r] = units[p][b]]
      /\ found' = [found EXCEPT ![r] = b \in present[p]]
      /\ pc' = [pc EXCEPT ![r] =
                  IF Insufficient(r) THEN "insufficient" ELSE "save"]
      /\ UNCHANGED <<documents, req, sum, stale, applied>>

\* branchStock.save: an update to an absolute value, or the insert of a new
\* row, which the unique index on (product, branch) refuses if there is one.
SaveRow(r) ==
  LET p == req[r].product
      b == req[r].branch
  IN  /\ pc[r] = "save"
      /\ IF Transactional
         THEN /\ ~ RowConflict(r)
              /\ view' = [view EXCEPT ![r][b] = NextStock(r)]
              /\ UNCHANGED <<present, units, stale>>
         ELSE /\ found[r] \/ b \notin present[p]
              /\ units' = [units EXCEPT ![p][b] = NextStock(r)]
              /\ present' = [present EXCEPT ![p] = @ \cup {b}]
              /\ Touch(r, p, {b})
              /\ UNCHANGED view
      /\ pc' = [pc EXCEPT ![r] = "sum"]
      /\ UNCHANGED <<total, log, req, prev, found, sum, applied>>

\* BranchStock.find of every row of the product, and the reduce over them.
SumRows(r) ==
  /\ pc[r] = "sum"
  /\ sum' = [sum EXCEPT ![r] = BranchTotal(RowsSeen(r))]
  /\ pc' = [pc EXCEPT ![r] = "total"]
  /\ UNCHANGED <<documents, req, view, prev, found, stale, applied>>

\* Product.findByIdAndUpdate(productId, { stock: totalStock }).
UpdateProduct(r) ==
  LET p == req[r].product
  IN  /\ pc[r] = "total"
      /\ IF Transactional
         THEN /\ ~ ProductConflict(r)
              /\ UNCHANGED <<total, stale>>
         ELSE /\ total' = [total EXCEPT ![p] = sum[r]]
              /\ Touch(r, p, {Whole})
      /\ pc' = [pc EXCEPT ![r] = "log"]
      /\ UNCHANGED <<present, units, log, locals, applied>>

\* movement.save, and the commit when there is a transaction.  The answer may
\* be lost after the server has applied it: the caller then sees an error.
LogMovement(r) ==
  LET p == req[r].product
      b == req[r].branch
  IN  /\ pc[r] = "log"
      /\ log' = [log EXCEPT ![p][b] = Append(@, MovementOf(r))]
      /\ IF Transactional
         THEN /\ units' = [units EXCEPT ![p][b] = view[r][b]]
              /\ present' = [present EXCEPT ![p] = @ \cup {b}]
              /\ total' = [total EXCEPT ![p] = sum[r]]
              /\ Touch(r, p, {b, Whole})
         ELSE UNCHANGED <<present, units, total, stale>>
      /\ \E outcome \in {"done", "broken"} : pc' = [pc EXCEPT ![r] = outcome]
      /\ UNCHANGED <<locals, applied>>

\* A write the server refuses: WriteConflict inside a transaction (which is
\* then aborted), a duplicate key outside one.
Refuse(r) ==
  /\ \/ pc[r] = "save" /\ Transactional /\ RowConflict(r)
     \/ pc[r] = "total" /\ Transactional /\ ProductConflict(r)
     \/ /\ pc[r] = "save" /\ ~ Transactional
        /\ ~ found[r] /\ req[r].branch \in present[req[r].product]
  /\ pc' = [pc EXCEPT ![r] = "conflict"]
  /\ UNCHANGED <<documents, locals, stale, applied>>

\* The connection fails, or the process dies, between two calls.  An open
\* transaction leaves nothing; without one the calls already made stay.
Break(r) ==
  /\ pc[r] \in Running
  /\ pc' = [pc EXCEPT ![r] = "broken"]
  /\ UNCHANGED <<documents, locals, stale, applied>>

(* The writers of Product.stock alone, with no row and no movement *)

\* A plain write waits while a transaction holds the document.
WriteAlone(c, p, value) ==
  /\ c \in Corrections \ applied
  /\ Transactional => \A s \in Requests : ~ HoldsProduct(s, p)
  /\ total' = [total EXCEPT ![p] = value]
  /\ stale' = [s \in Requests |->
                 IF pc[s] \in Running /\ req[s].product = p
                 THEN stale[s] \cup {Whole} ELSE stale[s]]
  /\ applied' = applied \cup {c}
  /\ UNCHANGED <<present, units, log, pc, locals>>

\* inventoryService.updateStock: $inc by what an admin adds or removes.
UpdateStock(c) ==
  \E p \in Products, q \in CorrectionQty : WriteAlone(c, p, total[p] + q)

\* A credit note without AFIP: $inc by what it gives back, item by item.
CreditStock(c) ==
  \E p \in Products, q \in CorrectionQty : q > 0 /\ WriteAlone(c, p, total[p] + q)

\* inventoryService.updateProduct: whatever stock the edited product names.
EditProduct(c) ==
  \E p \in Products, q \in CorrectionQty : WriteAlone(c, p, q)

Correct(c) == UpdateStock(c) \/ CreditStock(c) \/ EditProduct(c)

AdjustStock(r) ==
  \/ FindRow(r) \/ SaveRow(r) \/ SumRows(r) \/ UpdateProduct(r)
  \/ LogMovement(r) \/ Refuse(r)

\* Nothing is left to do: the server idles.
Idle ==
  /\ \A r \in Requests : pc[r] \in Ended
  /\ applied = Corrections
  /\ UNCHANGED vars

Next ==
  \/ \E r \in Requests : AdjustStock(r) \/ Break(r)
  \/ \E c \in Corrections : Correct(c)
  \/ Idle

Spec == Init /\ [][Next]_vars
-----------------------------------------------------------------------------
(* Properties *)

\* Type correctness of the documents and of the state of every request; the
\* stock of a branch is never negative, and only a row that exists has stock.
TypeOK ==
  /\ present \in [Products -> SUBSET Branches]
  /\ units \in [Products -> [Branches -> Nat]]
  /\ \A p \in Products, b \in Branches : units[p][b] > 0 => b \in present[p]
  /\ total \in [Products -> Int]
  /\ log \in [Products -> [Branches -> Seq(Movement)]]
  /\ pc \in [Requests -> {"new"} \cup Running \cup Ended]
  /\ req \in [Requests -> Inputs]
  /\ view \in [Requests -> [Branches -> Nat]]
  /\ prev \in [Requests -> Nat]
  /\ found \in [Requests -> BOOLEAN]
  /\ sum \in [Requests -> Int]
  /\ stale \in [Requests -> SUBSET (Branches \cup {Whole})]
  /\ applied \subseteq Corrections

\* The Product document caches the sum of its rows exactly, at every moment
\* ("Recalcular y sincronizar stock global desde la suma por sucursal"), as long
\* as nobody writes the total alone: updateStock, a credit note without AFIP and
\* an edited product do, and leave it apart from the rows until an adjustStock.
TotalsAgree ==
  applied = {} => \A p \in Products : total[p] = BranchTotal(units[p])

\* One movement starts where the one before it ended, the first one at the
\* opening stock, and the row stands where the last one left it: the log
\* explains the stock to the unit.
Chained(movements, opening) ==
  \A i \in 1..Len(movements) :
    movements[i].previousStock = IF i = 1 THEN opening
                                 ELSE movements[i - 1].currentStock
LastStock(movements, opening) ==
  IF movements = << >> THEN opening
  ELSE movements[Len(movements)].currentStock
Explained(p, b) ==
  /\ Chained(log[p][b], Opening[p][b])
  /\ units[p][b] = LastStock(log[p][b], Opening[p][b])
MovementsExplainStock == \A p \in Products, b \in Branches : Explained(p, b)

\* Transactions that write the same documents never all refuse one another:
\* of the requests that ended without a failure, one refused by a conflict
\* means that another one succeeded, unless the total was written alone.
ConflictHasWinner ==
  (/\ \A r \in Requests : pc[r] \in Ended \ {"broken"}
   /\ applied = {}
   /\ \E r \in Requests : pc[r] = "conflict")
     => \E r \in Requests : pc[r] = "done"

\* adjustStock recomputes the total instead of incrementing it, so a request
\* that nobody disturbed repairs whatever drift it found: when it succeeds,
\* the total of its product is the sum of the rows.
UndisturbedRepairs ==
  [][\A r \in Requests :
       (pc[r] = "log" /\ pc'[r] = "done" /\ stale[r] = {})
         => total'[req[r].product] = BranchTotal(units'[req[r].product])]_vars

\* Without transactions the code is still exact for requests that do not
\* overlap: if no request read what another was about to write, none broke off
\* and nobody wrote a total alone, the log explains the stock and the totals agree.
SequentialIsExact ==
  (/\ \A r \in Requests : pc[r] \in (Ended \ {"broken"}) \cup {"new"}
   /\ \A r \in Requests : stale[r] = {}
   /\ applied = {})
     => /\ MovementsExplainStock
        /\ \A p \in Products : total[p] = BranchTotal(units[p])

\* The inductive invariant.  Whoever passed the check of FindRow can pay:
CanPay == \A r \in Requests : pc[r] \in Running => NextStock(r) >= 0

\* What an open transaction knows of the committed documents: until it has
\* written the row, the row is unchanged unless marked stale, and once it has,
\* nobody else can change it; its view of the product is up to date unless
\* marked stale, and for good once it holds the product document.
SnapshotOK(r) ==
  LET p == req[r].product
      b == req[r].branch
  IN  /\ (pc[r] = "save" /\ b \notin stale[r]) => prev[r] = units[p][b]
      /\ (pc[r] = "save" /\ Whole \notin stale[r]) => view[r] = units[p]
      /\ pc[r] \in {"sum", "total", "log"} =>
           /\ prev[r] = units[p][b]
           /\ view[r][b] = NextStock(r)
      /\ (pc[r] \in {"sum", "total"} /\ Whole \notin stale[r]) =>
           view[r] = [units[p] EXCEPT ![b] = NextStock(r)]
      /\ pc[r] = "log" => view[r] = [units[p] EXCEPT ![b] = NextStock(r)]
      /\ pc[r] \in {"total", "log"} => sum[r] = BranchTotal(view[r])

\* No document is held by two transactions.
Exclusive ==
  \A r, s \in Requests : r # s =>
    \A p \in Products :
      /\ ~ (HoldsProduct(r, p) /\ HoldsProduct(s, p))
      /\ \A b \in Branches : ~ (HoldsRow(r, p, b) /\ HoldsRow(s, p, b))

SnapshotInv == Exclusive /\ \A r \in Requests : SnapshotOK(r)

StockInv == /\ TypeOK
            /\ CanPay
            /\ Transactional => /\ SnapshotInv
                                /\ TotalsAgree
                                /\ MovementsExplainStock

\* What a request whose product nobody else has written knows without a
\* transaction: the total it writes is the sum of the rows, and stays so.
UndisturbedInv ==
  ~ Transactional => \A r \in Requests : stale[r] = {} =>
    LET p == req[r].product
    IN  /\ pc[r] = "total" => sum[r] = BranchTotal(units[p])
        /\ pc[r] = "log" => total[p] = BranchTotal(units[p])

\* A request that found no row where there is one now has been told.
FoundOrTold ==
  \A r \in Requests :
    pc[r] = "save" /\ ~ found[r] /\ req[r].branch \in present[req[r].product]
      => req[r].branch \in stale[r]

\* As long as nothing fails, whoever is refused has been overtaken by a request
\* that cannot be refused any more, or that may be, but by another such one.
Undisturbed == applied = {} /\ \A r \in Requests : pc[r] # "broken"
Wins(r) ==
  pc[r] \in {"done", "log"} \/ (~ Transactional /\ pc[r] \in {"sum", "total"})
WinnerInv ==
  Undisturbed =>
    /\ (\E r \in Requests : stale[r] # {}) => \E s \in Requests : Wins(s)
    /\ (\E r \in Requests : pc[r] = "conflict") =>
         \E s \in Requests : Wins(s) \/ pc[s] \in {"sum", "total"}

\* While requests do not overlap, without transactions: one at most has written
\* a row of a product and not its movement, and only its row and, until it has
\* written the total, the total of its product are ahead of the rest.
Apart == Undisturbed /\ \A r \in Requests : stale[r] = {}
AheadRow(r, p, b) ==
  pc[r] \in {"sum", "total", "log"} /\ req[r].product = p /\ req[r].branch = b
AheadTotal(r, p) == pc[r] \in {"sum", "total"} /\ req[r].product = p
ApartOK(r) ==
  LET p == req[r].product
      b == req[r].branch
  IN  /\ pc[r] = "save" => prev[r] = units[p][b]
      /\ pc[r] \in {"sum", "total", "log"} =>
           /\ units[p][b] = NextStock(r)
           /\ prev[r] = LastStock(log[p][b], Opening[p][b])
           /\ \A s \in Requests \ {r} :
                pc[s] \in {"sum", "total", "log"} => req[s].product # p
RowsApart(p) ==
  \A b \in Branches :
    /\ Chained(log[p][b], Opening[p][b])
    /\ (\A r \in Requests : ~ AheadRow(r, p, b)) => Explained(p, b)
TotalApart(p) ==
  (\A r \in Requests : ~ AheadTotal(r, p)) => total[p] = BranchTotal(units[p])
SequentialInv ==
  ~ Transactional /\ Apart =>
    /\ \A r \in Requests : ApartOK(r)
    /\ \A p \in Products : RowsApart(p) /\ TotalApart(p)

OutcomeInv == UndisturbedInv /\ FoundOrTold /\ WinnerInv /\ SequentialInv

\* The abstract ledger this module implements when transactions are available.
Ledger == INSTANCE StockLedger WITH
            args <- req,
            outcome <- [r \in Requests |-> IF pc[r] \in Ended THEN pc[r]
                                           ELSE "open"]
LedgerSpec == Ledger!Spec
=============================================================================
