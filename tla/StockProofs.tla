---------------------------- MODULE StockProofs -----------------------------
(***************************************************************************)
(* Proofs about Stock, for every set of products, branches, requests and   *)
(* arguments.  StockInv is inductive; the theorems are read off it.        *)
(***************************************************************************)
EXTENDS Stock, SumTheorems, SequenceTheorems

\* The signed change of an admissible call is an integer.
LEMMA FinalQuantityType ==
  ASSUME NEW in \in Inputs
  PROVE  FinalQuantity(in) \in Int
<1>1. in \in Input
  BY StockAssumption
<1> QED BY <1>1 DEF Input, FinalQuantity, Absolute

\* The next stock a request computed is an integer.
LEMMA NextStockType ==
  ASSUME TypeOK, NEW r \in Requests
  PROVE  NextStock(r) \in Int
<1>1. req[r] \in Inputs /\ prev[r] \in Nat
  BY DEF TypeOK
<1> QED BY <1>1, FinalQuantityType DEF NextStock

\* The arguments of a request are well typed.
LEMMA ReqType ==
  ASSUME TypeOK, NEW r \in Requests
  PROVE  /\ req[r].product \in Products
         /\ req[r].branch \in Branches
         /\ req[r].type \in MovementType
         /\ Absolute(req[r].quantity) \in Int
<1>1. req[r] \in Inputs
  BY DEF TypeOK
<1>2. req[r] \in Input
  BY <1>1, StockAssumption
<1> QED BY <1>2 DEF Input, Absolute

\* The total of rows of integers is an integer.
LEMMA TotalType ==
  ASSUME NEW row \in [Branches -> Int]
  PROVE  BranchTotal(row) \in Int
BY SumIsInt, StockAssumption DEF BranchTotal

\* A movement that starts where the log ends prolongs the chain.
LEMMA AppendChains ==
  ASSUME NEW L \in Seq(Movement), NEW m \in Movement, NEW opening,
         Chained(L, opening), m.previousStock = LastStock(L, opening)
  PROVE  /\ Chained(Append(L, m), opening)
         /\ LastStock(Append(L, m), opening) = m.currentStock
<1> DEFINE K == Append(L, m)
<1>1. /\ Len(K) = Len(L) + 1 /\ K # << >> /\ Len(L) \in Nat
      /\ \A i \in 1..Len(L) : K[i] = L[i]
      /\ K[Len(L) + 1] = m
  OBVIOUS
<1>2. L = << >> <=> Len(L) = 0
  OBVIOUS
<1> HIDE DEF K
<1>3. ASSUME NEW i \in 1..Len(K)
      PROVE  K[i].previousStock = IF i = 1 THEN opening
                                  ELSE K[i - 1].currentStock
  <2>1. CASE i \in 1..Len(L)
    <3>1. i # 1 => i - 1 \in 1..Len(L)
      BY <1>1, <2>1
    <3> QED BY <1>1, <2>1, <3>1 DEF Chained
  <2>2. CASE i = Len(L) + 1
    BY <1>1, <1>2, <2>2 DEF LastStock
  <2> QED BY <1>1, <2>1, <2>2
<1>4. LastStock(K, opening) = m.currentStock
  BY <1>1 DEF LastStock
<1> QED BY <1>3, <1>4 DEF Chained, K

\* The movement of a request is one.
LEMMA MovementIsOne ==
  ASSUME TypeOK, NEW r \in Requests
  PROVE  MovementOf(r) \in Movement
<1>1. prev[r] \in Int
  BY DEF TypeOK
<1>2. NextStock(r) \in Int /\ req[r].type \in MovementType
      /\ Absolute(req[r].quantity) \in Int
  BY ReqType, NextStockType
<1> QED BY <1>1, <1>2 DEF Movement, MovementOf

\* Touch keeps the type of stale.
LEMMA TouchType ==
  ASSUME TypeOK, NEW r \in Requests, NEW p, NEW what \in SUBSET (Branches \cup {Whole}),
         Touch(r, p, what)
  PROVE  stale' \in [Requests -> SUBSET (Branches \cup {Whole})]
BY DEF Touch, TypeOK
-----------------------------------------------------------------------------
(* Type correctness *)

TypeInv == TypeOK /\ CanPay

\* The opening stock.
LEMMA InitTypeInv == Init => TypeInv
<1> SUFFICES ASSUME Init PROVE TypeInv
  OBVIOUS
<1>1. \A p \in Products : BranchTotal(Opening[p]) \in Int
  <2> SUFFICES ASSUME NEW p \in Products PROVE BranchTotal(Opening[p]) \in Int
    OBVIOUS
  <2>1. Opening[p] \in [Branches -> Int]
    BY StockAssumption
  <2> QED BY <2>1, TotalType
<1>2. total \in [Products -> Int]
  BY <1>1 DEF Init
<1>3. log \in [Products -> [Branches -> Seq(Movement)]]
  <2>1. << >> \in Seq(Movement)
    OBVIOUS
  <2> QED BY <2>1 DEF Init
<1>4. units \in [Products -> [Branches -> Nat]]
  BY StockAssumption DEF Init
<1>5. TypeOK
  BY <1>2, <1>3, <1>4 DEF Init, TypeOK
<1>6. CanPay
  BY DEF Init, CanPay, Running
<1> QED BY <1>5, <1>6 DEF TypeInv

\* A row is read, and the check passed or refused.
LEMMA FindRowType ==
  ASSUME TypeInv, NEW r \in Requests, FindRow(r)
  PROVE  TypeInv'
<1> DEFINE p == req[r].product
           b == req[r].branch
<1> USE DEF TypeInv
<1>1. p \in Products /\ b \in Branches /\ FinalQuantity(req[r]) \in Int
  BY ReqType, FinalQuantityType DEF TypeOK
<1>2. units[p] \in [Branches -> Nat] /\ units[p][b] \in Nat
  BY <1>1 DEF TypeOK
<1>3. TypeOK'
  BY <1>1, <1>2 DEF FindRow, Insufficient, TypeOK, documents, Running, Ended
<1>4. CanPay'
  <2> SUFFICES ASSUME NEW s \in Requests, pc'[s] \in Running
               PROVE  NextStock(s)' >= 0
    BY DEF CanPay
  <2>1. CASE s = r
    BY <2>1, <1>1, <1>2 DEF FindRow, Insufficient, TypeOK, Running, NextStock
  <2>2. CASE s # r
    BY <2>2 DEF FindRow, TypeOK, CanPay, Running, NextStock
  <2> QED BY <2>1, <2>2
<1> QED BY <1>3, <1>4

\* Steps that move pc[r] and leave the request's numbers alone keep CanPay.
LEMMA SameNumbersCanPay ==
  ASSUME TypeInv, NEW r \in Requests, NEW c, pc[r] \in Running,
         pc' = [pc EXCEPT ![r] = c], UNCHANGED <<req, prev>>
  PROVE  CanPay'
BY DEF TypeInv, TypeOK, CanPay, NextStock

\* The row gets the quantity that was computed from what could pay.
LEMMA SaveRowType ==
  ASSUME TypeInv, NEW r \in Requests, SaveRow(r)
  PROVE  TypeInv'
<1> DEFINE p == req[r].product
           b == req[r].branch
           n == NextStock(r)
<1> USE DEF TypeInv
<1>1. p \in Products /\ b \in Branches
  BY ReqType
<1>2. n \in Nat
  BY NextStockType DEF SaveRow, CanPay, Running
<1>3. CanPay'
  BY SameNumbersCanPay DEF SaveRow, Running
<1> HIDE DEF n
<1>4. CASE Transactional
  <2>1. view' = [view EXCEPT ![r][b] = n] /\ UNCHANGED <<present, units, stale>>
    BY <1>4 DEF SaveRow, n
  <2>2. view' \in [Requests -> [Branches -> Nat]]
    BY <2>1, <1>1, <1>2 DEF TypeOK
  <2> QED BY <2>1, <2>2, <1>3 DEF SaveRow, TypeOK, Running
<1>5. CASE ~ Transactional
  <2>1. /\ units' = [units EXCEPT ![p][b] = n]
        /\ present' = [present EXCEPT ![p] = @ \cup {b}]
        /\ Touch(r, p, {b}) /\ UNCHANGED view
    BY <1>5 DEF SaveRow, n
  <2>2. stale' \in [Requests -> SUBSET (Branches \cup {Whole})]
    BY <2>1, <1>1, TouchType
  <2>3. units' \in [Products -> [Branches -> Nat]]
    BY <2>1, <1>1, <1>2 DEF TypeOK
  <2>4. present' \in [Products -> SUBSET Branches]
    BY <2>1, <1>1 DEF TypeOK
  <2>5. \A x \in Products, y \in Branches : units'[x][y] > 0 => y \in present'[x]
    BY <2>1, <1>1 DEF TypeOK
  <2> QED BY <2>1, <2>2, <2>3, <2>4, <2>5, <1>3 DEF SaveRow, TypeOK, Running
<1> QED BY <1>4, <1>5, StockAssumption

\* The rows are added up.
LEMMA SumRowsType ==
  ASSUME TypeInv, NEW r \in Requests, SumRows(r)
  PROVE  TypeInv'
<1> USE DEF TypeInv
<1> DEFINE rows == RowsSeen(r)
<1>1. rows \in [Branches -> Int]
  BY ReqType DEF RowsSeen, TypeOK
<1>2. BranchTotal(rows) \in Int
  BY <1>1, TotalType
<1>3. CanPay'
  BY SameNumbersCanPay DEF SumRows, Running
<1>4. sum' \in [Requests -> Int]
  BY <1>2 DEF SumRows, TypeOK
<1> QED BY <1>3, <1>4 DEF SumRows, TypeOK, documents, Running

\* The total is written.
LEMMA UpdateProductType ==
  ASSUME TypeInv, NEW r \in Requests, UpdateProduct(r)
  PROVE  TypeInv'
<1> USE DEF TypeInv
<1> DEFINE p == req[r].product
<1>1. p \in Products /\ sum[r] \in Int
  BY ReqType DEF TypeOK
<1>2. CanPay'
  BY SameNumbersCanPay DEF UpdateProduct, Running, locals
<1>3. total' \in [Products -> Int]
  BY <1>1 DEF UpdateProduct, TypeOK
<1>4. stale' \in [Requests -> SUBSET (Branches \cup {Whole})]
  BY TouchType DEF UpdateProduct, TypeOK
<1> QED BY <1>2, <1>3, <1>4 DEF UpdateProduct, TypeOK, Running, locals

\* The movement is written, and in a transaction all the rest.
LEMMA LogMovementType ==
  ASSUME TypeInv, NEW r \in Requests, LogMovement(r)
  PROVE  TypeInv'
<1> USE DEF TypeInv
<1> DEFINE p == req[r].product
           b == req[r].branch
           m == MovementOf(r)
<1>1. p \in Products /\ b \in Branches
  BY ReqType
<1>2. m \in Movement
  BY MovementIsOne
<1>3. log' = [log EXCEPT ![p][b] = Append(@, m)]
  BY DEF LogMovement
<1> HIDE DEF m
<1>4. log' \in [Products -> [Branches -> Seq(Movement)]]
  <2>1. Append(log[p][b], m) \in Seq(Movement)
    BY <1>1, <1>2 DEF TypeOK
  <2> QED BY <1>1, <1>3, <2>1 DEF TypeOK
<1>5. CanPay'
  <2>1. PICK c \in {"done", "broken"} : pc' = [pc EXCEPT ![r] = c]
    BY DEF LogMovement
  <2>2. pc[r] \in Running /\ UNCHANGED <<req, prev>>
    BY DEF LogMovement, Running, locals
  <2> QED BY <2>1, <2>2, SameNumbersCanPay
<1>6. pc' \in [Requests -> {"new"} \cup Running \cup Ended]
  BY DEF LogMovement, TypeOK, Ended
<1>7. CASE Transactional
  <2>1. /\ units' = [units EXCEPT ![p][b] = view[r][b]]
        /\ present' = [present EXCEPT ![p] = @ \cup {b}]
        /\ total' = [total EXCEPT ![p] = sum[r]]
        /\ Touch(r, p, {b, Whole})
    BY <1>7 DEF LogMovement
  <2>2. stale' \in [Requests -> SUBSET (Branches \cup {Whole})]
    BY <2>1, <1>1, TouchType
  <2>3. units' \in [Products -> [Branches -> Nat]]
    BY <2>1, <1>1 DEF TypeOK
  <2>4. present' \in [Products -> SUBSET Branches] /\ total' \in [Products -> Int]
    BY <2>1, <1>1 DEF TypeOK
  <2>5. \A x \in Products, y \in Branches : units'[x][y] > 0 => y \in present'[x]
    BY <2>1, <1>1 DEF TypeOK
  <2> QED BY <1>4, <1>5, <1>6, <2>2, <2>3, <2>4, <2>5 DEF LogMovement, TypeOK,
             locals
<1>8. CASE ~ Transactional
  BY <1>4, <1>5, <1>6, <1>8 DEF LogMovement, TypeOK, locals
<1> QED BY <1>7, <1>8

\* The call ends with an error.
LEMMA RefuseType ==
  ASSUME TypeInv, NEW r \in Requests, Refuse(r) \/ Break(r)
  PROVE  TypeInv'
<1> USE DEF TypeInv
<1>1. CanPay'
  BY SameNumbersCanPay DEF Refuse, Break, Running, locals
<1> QED BY <1>1 DEF Refuse, Break, TypeOK, documents, locals, Ended

\* Each of the three writers of the total alone is a WriteAlone.
LEMMA CorrectIsAlone ==
  ASSUME TypeInv, NEW c \in Corrections, Correct(c)
  PROVE  \E p \in Products, value \in Int : WriteAlone(c, p, value)
BY StockAssumption DEF Correct, UpdateStock, CreditStock, EditProduct, TypeInv, TypeOK

\* What none of them touches.
LEMMA CorrectFrame ==
  ASSUME TypeInv, NEW c \in Corrections, Correct(c)
  PROVE  /\ UNCHANGED <<present, units, log, pc, req, view, prev, found, sum>>
         /\ applied' = applied \cup {c}
         /\ \A s \in Requests : stale[s] \subseteq stale'[s]
BY CorrectIsAlone DEF WriteAlone, locals

\* The total is changed alone.
LEMMA CorrectType ==
  ASSUME TypeInv, NEW c \in Corrections, Correct(c)
  PROVE  TypeInv'
<1> USE DEF TypeInv
<1>0. PICK p \in Products, value \in Int : WriteAlone(c, p, value)
  BY CorrectIsAlone
<1>1. total' \in [Products -> Int]
  BY <1>0 DEF WriteAlone, TypeOK
<1>2. stale' \in [Requests -> SUBSET (Branches \cup {Whole})]
  BY <1>0 DEF WriteAlone, TypeOK
<1>3. CanPay'
  BY <1>0 DEF WriteAlone, CanPay, NextStock, locals
<1> QED BY <1>0, <1>1, <1>2, <1>3 DEF WriteAlone, TypeOK, locals

\* Every step keeps the types and CanPay.
LEMMA NextTypeInv == TypeInv /\ [Next]_vars => TypeInv'
<1> SUFFICES ASSUME TypeInv, [Next]_vars PROVE TypeInv'
  OBVIOUS
<1>1. ASSUME NEW r \in Requests, AdjustStock(r) \/ Break(r) PROVE TypeInv'
  BY <1>1, FindRowType, SaveRowType, SumRowsType, UpdateProductType,
     LogMovementType, RefuseType DEF AdjustStock
<1>2. ASSUME NEW c \in Corrections, Correct(c) PROVE TypeInv'
  BY <1>2, CorrectType
<1>3. ASSUME UNCHANGED vars PROVE TypeInv'
  BY <1>3 DEF vars, documents, locals, TypeInv, TypeOK, CanPay, NextStock
<1> QED BY <1>1, <1>2, <1>3 DEF Next, Idle

\* Type correctness, with the promise that no stock row is ever negative, in
\* both deployments and whoever writes the totals alone.
THEOREM StockTypeOK == Spec => []TypeOK
<1>1. TypeInv => TypeOK
  BY DEF TypeInv
<1> QED BY <1>1, InitTypeInv, NextTypeInv, PTL DEF Spec
-----------------------------------------------------------------------------
(***************************************************************************)
(* What transactions buy: on a replica set the totals, the movement log    *)
(* and the rows agree at every moment, and adjustStock implements the      *)
(* atomic ledger of StockLedger.                                           *)
(***************************************************************************)
HasRow == {"sum", "total", "log"}

\* The state of the requests other than r is not touched.
OthersSame(r) ==
  \A s \in Requests \ {r} :
    /\ pc'[s] = pc[s] /\ view'[s] = view[s] /\ prev'[s] = prev[s]
    /\ sum'[s] = sum[s] /\ stale'[s] = stale[s]

\* A step of r that commits nothing does not concern the other requests.
LEMMA OthersKeepSnapshot ==
  ASSUME SnapshotInv, NEW r \in Requests, UNCHANGED <<units, req>>, OthersSame(r),
         NEW s \in Requests \ {r}
  PROVE  SnapshotOK(s)'
<1>1. SnapshotOK(s)
  BY DEF SnapshotInv
<1>2. /\ pc'[s] = pc[s] /\ view'[s] = view[s] /\ prev'[s] = prev[s]
      /\ sum'[s] = sum[s] /\ stale'[s] = stale[s]
  BY DEF OthersSame
<1> QED BY <1>1, <1>2 DEF SnapshotOK, NextStock

\* Nobody gains a document when r does not.
LEMMA KeepsExclusive ==
  ASSUME Exclusive, NEW r \in Requests, UNCHANGED req, NEW c,
         pc' = [pc EXCEPT ![r] = c], pc \in [Requests -> {"new"} \cup Running \cup Ended],
         c \in HasRow => pc[r] \in HasRow,
         c = "log" => pc[r] = "log"
  PROVE  Exclusive'
<1> SUFFICES ASSUME NEW x \in Requests, NEW y \in Requests, x # y,
                    NEW p \in Products
             PROVE  /\ ~ (HoldsProduct(x, p) /\ HoldsProduct(y, p))'
                    /\ \A b \in Branches : ~ (HoldsRow(x, p, b) /\ HoldsRow(y, p, b))'
  BY DEF Exclusive
<1>1. \A s \in Requests : pc'[s] \in HasRow => pc[s] \in HasRow
  OBVIOUS
<1>2. \A s \in Requests : pc'[s] = "log" => pc[s] = "log"
  OBVIOUS
<1>3. /\ ~ (HoldsProduct(x, p) /\ HoldsProduct(y, p))
      /\ \A b \in Branches : ~ (HoldsRow(x, p, b) /\ HoldsRow(y, p, b))
  BY DEF Exclusive
<1> QED BY <1>1, <1>2, <1>3 DEF HoldsRow, HoldsProduct, HasRow

\* Steps that leave the documents alone keep what is said about them.
LEMMA DocumentsSame ==
  ASSUME TotalsAgree, MovementsExplainStock, UNCHANGED <<units, total, log, applied>>
  PROVE  TotalsAgree' /\ MovementsExplainStock'
BY DEF TotalsAgree, MovementsExplainStock, Explained

TxInv == SnapshotInv /\ TotalsAgree /\ MovementsExplainStock

\* No transaction is open.
LEMMA InitTxInv == Init => TxInv
<1> SUFFICES ASSUME Init PROVE TxInv
  OBVIOUS
<1>1. SnapshotInv
  BY DEF Init, SnapshotInv, SnapshotOK, Exclusive, HoldsRow, HoldsProduct
<1>2. TotalsAgree
  BY DEF Init, TotalsAgree
<1>3. MovementsExplainStock
  BY DEF Init, MovementsExplainStock, Explained, Chained, LastStock
<1> QED BY <1>1, <1>2, <1>3 DEF TxInv

\* A transaction takes its snapshot.
LEMMA FindRowTx ==
  ASSUME TypeInv, TxInv, NEW r \in Requests, FindRow(r)
  PROVE  TxInv'
<1> USE DEF TxInv
<1>1. OthersSame(r) /\ UNCHANGED <<units, total, log, applied, req>>
  BY DEF FindRow, OthersSame, documents, TypeInv, TypeOK
<1>2. PICK c \in {"insufficient", "save"} : pc' = [pc EXCEPT ![r] = c]
  BY DEF FindRow
<1>3. Exclusive'
  BY <1>1, <1>2, KeepsExclusive DEF SnapshotInv, TypeInv, TypeOK, HasRow
<1>4. SnapshotOK(r)'
  BY <1>1, <1>2 DEF FindRow, SnapshotOK, TypeInv, TypeOK
<1> QED BY <1>1, <1>3, <1>4, OthersKeepSnapshot, DocumentsSame DEF SnapshotInv

\* It holds the row from now on, which nobody has changed since.
LEMMA SaveRowTx ==
  ASSUME TypeInv, TxInv, Transactional, NEW r \in Requests, SaveRow(r)
  PROVE  TxInv'
<1> DEFINE p == req[r].product
           b == req[r].branch
           n == NextStock(r)
<1> USE DEF TxInv
<1>1. /\ pc[r] = "save" /\ ~ RowConflict(r)
      /\ view' = [view EXCEPT ![r][b] = n]
      /\ pc' = [pc EXCEPT ![r] = "sum"]
      /\ UNCHANGED <<present, units, total, log, req, prev, found, sum, stale, applied>>
  BY DEF SaveRow
<1>2. OthersSame(r)
  BY <1>1 DEF OthersSame, TypeInv, TypeOK
<1>3. Exclusive'
  <2> SUFFICES ASSUME NEW x \in Requests, NEW y \in Requests, x # y,
                      NEW q \in Products
               PROVE  /\ ~ (HoldsProduct(x, q) /\ HoldsProduct(y, q))'
                      /\ \A d \in Branches : ~ (HoldsRow(x, q, d) /\ HoldsRow(y, q, d))'
    BY DEF Exclusive
  <2>1. /\ ~ (HoldsProduct(x, q) /\ HoldsProduct(y, q))
        /\ \A d \in Branches : ~ (HoldsRow(x, q, d) /\ HoldsRow(y, q, d))
    BY DEF SnapshotInv, Exclusive
  <2>2. \A s \in Requests \ {r} : ~ HoldsRow(s, p, b)
    BY <1>1 DEF RowConflict
  <2>3. \A s \in Requests \ {r}, d \in Branches : HoldsRow(s, q, d)' <=> HoldsRow(s, q, d)
    BY <1>1, <1>2 DEF OthersSame, HoldsRow
  <2>4. \A d \in Branches : HoldsRow(r, q, d)' => q = p /\ d = b
    BY <1>1 DEF HoldsRow
  <2>5. \A d \in Branches : ~ (HoldsRow(x, q, d) /\ HoldsRow(y, q, d))'
    BY <2>1, <2>2, <2>3, <2>4
  <2>6. \A s \in Requests : HoldsProduct(s, q)' => HoldsProduct(s, q)
    BY <1>1, <1>2 DEF OthersSame, HoldsProduct, TypeInv, TypeOK
  <2> QED BY <2>1, <2>5, <2>6
<1>4. SnapshotOK(r)'
  <2>1. SnapshotOK(r)
    BY DEF SnapshotInv
  <2>2. pc'[r] = "sum" /\ p' = p /\ b' = b /\ NextStock(r)' = n
    BY <1>1 DEF TypeInv, TypeOK, NextStock
  <2>3. p \in Products /\ b \in Branches
    BY ReqType DEF TypeInv
  <2>4. view'[r] = [view[r] EXCEPT ![b] = n] /\ view'[r][b] = n
    BY <1>1, <2>3 DEF TypeInv, TypeOK
  <2>5. b \notin stale[r]
    BY <1>1 DEF RowConflict
  <2>6. prev'[r] = units'[p][b]
    BY <1>1, <2>1, <2>5 DEF SnapshotOK
  <2>7. Whole \notin stale'[r] => view'[r] = [units'[p] EXCEPT ![b] = n]
    BY <1>1, <2>1, <2>4 DEF SnapshotOK
  <2> HIDE DEF n
  <2> QED BY <2>2, <2>4, <2>6, <2>7 DEF SnapshotOK
<1> QED BY <1>1, <1>2, <1>3, <1>4, OthersKeepSnapshot, DocumentsSame
           DEF SnapshotInv

\* It adds up the rows it sees.
LEMMA SumRowsTx ==
  ASSUME TypeInv, TxInv, Transactional, NEW r \in Requests, SumRows(r)
  PROVE  TxInv'
<1> USE DEF TxInv
<1>1. /\ pc[r] = "sum" /\ sum' = [sum EXCEPT ![r] = BranchTotal(view[r])]
      /\ pc' = [pc EXCEPT ![r] = "total"]
      /\ UNCHANGED <<units, total, log, req, view, prev, found, stale, applied>>
  BY DEF SumRows, RowsSeen, documents
<1>2. OthersSame(r)
  BY <1>1 DEF OthersSame, TypeInv, TypeOK
<1>3. Exclusive'
  BY <1>1, KeepsExclusive DEF SnapshotInv, TypeInv, TypeOK, HasRow
<1>4. SnapshotOK(r)'
  <2>1. SnapshotOK(r)
    BY DEF SnapshotInv
  <2>2. pc'[r] = "total" /\ sum'[r] = BranchTotal(view'[r])
        /\ NextStock(r)' = NextStock(r)
    BY <1>1 DEF TypeInv, TypeOK, NextStock
  <2> QED BY <1>1, <2>1, <2>2 DEF SnapshotOK
<1> QED BY <1>1, <1>2, <1>3, <1>4, OthersKeepSnapshot, DocumentsSame
           DEF SnapshotInv

\* It holds the product from now on, and its view is current.
LEMMA UpdateProductTx ==
  ASSUME TypeInv, TxInv, Transactional, NEW r \in Requests, UpdateProduct(r)
  PROVE  TxInv'
<1> DEFINE p == req[r].product
<1> USE DEF TxInv
<1>1. /\ pc[r] = "total" /\ ~ ProductConflict(r)
      /\ pc' = [pc EXCEPT ![r] = "log"]
      /\ UNCHANGED <<units, total, log, req, view, prev, sum, stale, applied>>
  BY DEF UpdateProduct, locals
<1>2. OthersSame(r)
  BY <1>1 DEF OthersSame, TypeInv, TypeOK
<1>3. Exclusive'
  <2> SUFFICES ASSUME NEW x \in Requests, NEW y \in Requests, x # y,
                      NEW q \in Products
               PROVE  /\ ~ (HoldsProduct(x, q) /\ HoldsProduct(y, q))'
                      /\ \A d \in Branches : ~ (HoldsRow(x, q, d) /\ HoldsRow(y, q, d))'
    BY DEF Exclusive
  <2>1. /\ ~ (HoldsProduct(x, q) /\ HoldsProduct(y, q))
        /\ \A d \in Branches : ~ (HoldsRow(x, q, d) /\ HoldsRow(y, q, d))
    BY DEF SnapshotInv, Exclusive
  <2>2. \A s \in Requests \ {r} : ~ HoldsProduct(s, p)
    BY <1>1 DEF ProductConflict
  <2>3. \A s \in Requests \ {r} : HoldsProduct(s, q)' <=> HoldsProduct(s, q)
    BY <1>1, <1>2 DEF OthersSame, HoldsProduct
  <2>4. HoldsProduct(r, q)' => q = p
    BY <1>1 DEF HoldsProduct
  <2>5. ~ (HoldsProduct(x, q) /\ HoldsProduct(y, q))'
    BY <2>1, <2>2, <2>3, <2>4
  <2>6. \A s \in Requests, d \in Branches : HoldsRow(s, q, d)' => HoldsRow(s, q, d)
    BY <1>1, <1>2 DEF OthersSame, HoldsRow, TypeInv, TypeOK
  <2> QED BY <2>1, <2>5, <2>6
<1>4. SnapshotOK(r)'
  <2>1. SnapshotOK(r)
    BY DEF SnapshotInv
  <2>2. pc'[r] = "log" /\ NextStock(r)' = NextStock(r) /\ Whole \notin stale[r]
    BY <1>1 DEF TypeInv, TypeOK, NextStock, ProductConflict
  <2> QED BY <1>1, <2>1, <2>2 DEF SnapshotOK
<1> QED BY <1>1, <1>2, <1>3, <1>4, OthersKeepSnapshot, DocumentsSame
           DEF SnapshotInv

\* What the commit of r does to the documents, in the terms of its snapshot.
LEMMA CommitEffect ==
  ASSUME TypeInv, TxInv, Transactional, NEW r \in Requests, LogMovement(r)
  PROVE  LET p == req[r].product
             b == req[r].branch
         IN  /\ p \in Products /\ b \in Branches
             /\ units' = [units EXCEPT ![p][b] = NextStock(r)]
             /\ units'[p] = [units[p] EXCEPT ![b] = NextStock(r)]
             /\ \A q \in Products \ {p} : units'[q] = units[q]
             /\ prev[r] = units[p][b]
             /\ total' = [total EXCEPT ![p] = BranchTotal(units'[p])]
<1> DEFINE p == req[r].product
           b == req[r].branch
<1>1. SnapshotOK(r) /\ pc[r] = "log"
  BY DEF TxInv, SnapshotInv, LogMovement
<1>2. p \in Products /\ b \in Branches
  BY ReqType DEF TypeInv
<1>3. /\ prev[r] = units[p][b] /\ view[r][b] = NextStock(r)
      /\ view[r] = [units[p] EXCEPT ![b] = NextStock(r)]
      /\ sum[r] = BranchTotal(view[r])
  BY <1>1 DEF SnapshotOK
<1>4. /\ units' = [units EXCEPT ![p][b] = view[r][b]]
      /\ total' = [total EXCEPT ![p] = sum[r]]
  BY DEF LogMovement
<1>5. units'[p] = [units[p] EXCEPT ![b] = NextStock(r)]
  BY <1>2, <1>3, <1>4 DEF TypeInv, TypeOK
<1>6. \A q \in Products \ {p} : units'[q] = units[q]
  BY <1>4 DEF TypeInv, TypeOK
<1>7. units' = [units EXCEPT ![p][b] = NextStock(r)]
  BY <1>3, <1>4
<1>8. total' = [total EXCEPT ![p] = BranchTotal(units'[p])]
  BY <1>3, <1>4, <1>5
<1> QED BY <1>2, <1>3, <1>5, <1>6, <1>7, <1>8

\* It commits: the rows, the total and the movement agree.
LEMMA LogMovementTx ==
  ASSUME TypeInv, TxInv, Transactional, NEW r \in Requests, LogMovement(r)
  PROVE  TxInv'
<1> DEFINE p == req[r].product
           b == req[r].branch
           n == NextStock(r)
           m == MovementOf(r)
<1>1. /\ p \in Products /\ b \in Branches
      /\ units'[p] = [units[p] EXCEPT ![b] = n]
      /\ \A q \in Products \ {p} : units'[q] = units[q]
      /\ prev[r] = units[p][b]
      /\ total' = [total EXCEPT ![p] = BranchTotal(units'[p])]
  BY CommitEffect
<1>2. PICK c \in {"done", "broken"} : pc' = [pc EXCEPT ![r] = c]
  BY DEF LogMovement
<1>3. /\ pc[r] = "log" /\ Touch(r, p, {b, Whole})
      /\ log' = [log EXCEPT ![p][b] = Append(@, m)]
      /\ UNCHANGED <<req, view, prev, found, sum, applied>>
  BY DEF LogMovement, locals
<1>4. Exclusive'
  BY <1>2, <1>3, KeepsExclusive DEF TxInv, SnapshotInv, TypeInv, TypeOK, HasRow
<1> HIDE DEF n, m
<1>5. ASSUME NEW s \in Requests PROVE SnapshotOK(s)'
  <2>1. CASE s = r
    <3>1. pc'[s] \in {"done", "broken"}
      BY <2>1, <1>2 DEF TypeInv, TypeOK
    <3> QED BY <3>1 DEF SnapshotOK
  <2>2. CASE s # r
    <3> DEFINE q == req[s].product
               d == req[s].branch
    <3>1. /\ pc'[s] = pc[s] /\ q \in Products /\ d \in Branches
          /\ NextStock(s)' = NextStock(s)
      BY <2>2, <1>2, <1>3, ReqType DEF TypeInv, TypeOK, NextStock
    <3>2. SnapshotOK(s)
      BY DEF TxInv, SnapshotInv
    <3>3. CASE q # p
      <4>1. stale'[s] = stale[s] /\ units'[q] = units[q]
        BY <1>1, <1>3, <3>1, <3>3 DEF Touch
      <4> QED BY <1>3, <3>1, <3>2, <4>1 DEF SnapshotOK
    <3>4. CASE q = p /\ pc[s] \notin Running
      BY <3>1, <3>4 DEF SnapshotOK, Running
    <3>5. CASE q = p /\ pc[s] \in Running
      <4>1. b \in stale'[s] /\ Whole \in stale'[s]
        BY <1>3, <2>2, <3>5 DEF Touch
      <4>2. ~ (HoldsProduct(s, p) /\ HoldsProduct(r, p))
            /\ ~ (HoldsRow(s, p, b) /\ HoldsRow(r, p, b))
        BY <1>1, <2>2 DEF TxInv, SnapshotInv, Exclusive
      <4>3. pc[s] # "log"
        BY <4>2, <1>3, <3>5 DEF HoldsProduct
      <4>4. pc[s] \in {"sum", "total", "log"} => d # b
        BY <4>2, <1>3, <3>5 DEF HoldsRow
      <4>5. d # b => units'[q][d] = units[q][d]
        BY <1>1, <3>1, <3>5 DEF TypeInv, TypeOK
      <4>6. d \notin stale'[s] => d # b /\ d \notin stale[s]
        BY <1>3, <4>1, <2>2 DEF Touch
      <4> HIDE DEF q, d
      <4>7. /\ prev'[s] = prev[s] /\ view'[s] = view[s] /\ sum'[s] = sum[s]
            /\ req'[s] = req[s]
        BY <1>3
      <4> QED
        BY <3>1, <3>2, <4>1, <4>3, <4>4, <4>5, <4>6, <4>7 DEF SnapshotOK, q, d
    <3> QED BY <3>3, <3>4, <3>5
  <2> QED BY <2>1, <2>2
<1>6. TotalsAgree'
  <2> SUFFICES ASSUME applied = {}, NEW q \in Products
               PROVE  total'[q] = BranchTotal(units'[q])
    BY <1>3 DEF TotalsAgree
  <2>1. CASE q = p
    BY <1>1, <2>1 DEF TypeInv, TypeOK
  <2>2. CASE q # p
    BY <1>1, <2>2 DEF TxInv, TotalsAgree, TypeInv, TypeOK
  <2> QED BY <2>1, <2>2
<1>7. MovementsExplainStock'
  <2> SUFFICES ASSUME NEW q \in Products, NEW d \in Branches
               PROVE  Explained(q, d)'
    BY DEF MovementsExplainStock
  <2>1. Explained(q, d)
    BY DEF TxInv, MovementsExplainStock
  <2>2. CASE q = p /\ d = b
    <3>1. log[q][d] \in Seq(Movement) /\ m \in Movement
      BY <2>2, MovementIsOne DEF TypeInv, TypeOK, m
    <3>2. log'[q][d] = Append(log[q][d], m)
      BY <1>3, <2>2 DEF TypeInv, TypeOK
    <3>3. units'[q][d] = n /\ m.previousStock = units[q][d] /\ m.currentStock = n
      BY <1>1, <2>2 DEF TypeInv, TypeOK, MovementOf, m, n
    <3> QED BY <2>1, <3>1, <3>2, <3>3, AppendChains DEF Explained
  <2>3. CASE ~ (q = p /\ d = b)
    <3>1. log'[q][d] = log[q][d]
      BY <1>1, <1>3, <2>3 DEF TypeInv, TypeOK
    <3>2. units'[q][d] = units[q][d]
      <4>1. CASE q = p
        BY <1>1, <2>3, <4>1 DEF TypeInv, TypeOK
      <4>2. CASE q # p
        BY <1>1, <4>2
      <4> QED BY <4>1, <4>2
    <3> QED BY <2>1, <3>1, <3>2 DEF Explained
  <2> QED BY <2>2, <2>3
<1> QED BY <1>4, <1>5, <1>6, <1>7 DEF TxInv, SnapshotInv

\* It is rolled back.
LEMMA RefuseTx ==
  ASSUME TypeInv, TxInv, NEW r \in Requests, Refuse(r) \/ Break(r)
  PROVE  TxInv'
<1> USE DEF TxInv
<1>1. PICK c \in {"conflict", "broken"} : pc' = [pc EXCEPT ![r] = c]
  BY DEF Refuse, Break
<1>2. UNCHANGED <<units, total, log, req, view, prev, sum, stale, applied>>
  BY DEF Refuse, Break, documents, locals
<1>3. OthersSame(r)
  BY <1>1, <1>2 DEF OthersSame, TypeInv, TypeOK
<1>4. Exclusive'
  BY <1>1, <1>2, KeepsExclusive DEF SnapshotInv, TypeInv, TypeOK, HasRow
<1>5. SnapshotOK(r)'
  <2>1. pc'[r] \in {"conflict", "broken"}
    BY <1>1 DEF TypeInv, TypeOK
  <2> QED BY <2>1 DEF SnapshotOK
<1> QED BY <1>2, <1>3, <1>4, <1>5, OthersKeepSnapshot, DocumentsSame
           DEF SnapshotInv

\* A total written alone is that of a product that no transaction holds.
LEMMA CorrectTx ==
  ASSUME TypeInv, TxInv, Transactional, NEW c \in Corrections, Correct(c)
  PROVE  TxInv'
<1> USE DEF TxInv
<1>1. \A s \in Requests : stale[s] \subseteq stale'[s]
  BY CorrectFrame
<1>2. applied' # {} /\ UNCHANGED <<present, units, log, pc, req, view, prev, sum>>
  BY CorrectFrame
<1>3. Exclusive'
  BY <1>2 DEF SnapshotInv, Exclusive, HoldsRow, HoldsProduct
<1>4. ASSUME NEW s \in Requests PROVE SnapshotOK(s)'
  <2>1. SnapshotOK(s)
    BY DEF SnapshotInv
  <2>2. \A x : x \in stale[s] => x \in stale'[s]
    BY <1>1
  <2> QED BY <1>2, <2>1, <2>2 DEF SnapshotOK, NextStock
<1>5. TotalsAgree'
  BY <1>2 DEF TotalsAgree
<1>6. MovementsExplainStock'
  BY <1>2 DEF MovementsExplainStock, Explained
<1> QED BY <1>3, <1>4, <1>5, <1>6 DEF SnapshotInv
-----------------------------------------------------------------------------
(***************************************************************************)
(* What holds without transactions as well, or between requests: whoever   *)
(* is not disturbed repairs the total, a refusal has a winner, and         *)
(* requests that do not overlap leave log, rows and totals exact.          *)
(***************************************************************************)

\* Arguments never change, what a request has missed is never forgotten, and a
\* correction or a failure is for ever.
LEMMA HistoryGrows ==
  ASSUME TypeInv, [Next]_vars
  PROVE  /\ req' = req
         /\ \A s \in Requests : stale[s] \subseteq stale'[s]
         /\ Undisturbed' => Undisturbed
<1>1. req' = req
  BY DEF Next, AdjustStock, FindRow, SaveRow, SumRows, UpdateProduct,
     LogMovement,
     Refuse, Break, Correct, UpdateStock, CreditStock, EditProduct,
     WriteAlone, Idle, vars, locals
<1>2. ASSUME NEW s \in Requests PROVE stale[s] \subseteq stale'[s]
  <2>1. \/ stale' = stale
        \/ \E r \in Requests : \E p, what : Touch(r, p, what)
        \/ \E c \in Corrections : Correct(c)
    BY DEF Next, AdjustStock, FindRow, SaveRow, SumRows, UpdateProduct,
       LogMovement, Refuse, Break, Idle, vars
  <2>2. ASSUME NEW r \in Requests, NEW p, NEW what, Touch(r, p, what)
        PROVE  stale[s] \subseteq stale'[s]
    BY <2>2 DEF Touch
  <2>3. ASSUME NEW c \in Corrections, Correct(c)
        PROVE  stale[s] \subseteq stale'[s]
    BY <2>3, CorrectFrame
  <2> QED BY <2>1, <2>2, <2>3
<1>3. ASSUME NEW s \in Requests, pc[s] = "broken" PROVE pc'[s] = "broken"
  BY <1>3 DEF TypeInv, TypeOK, Next, AdjustStock, FindRow, SaveRow, SumRows,
     UpdateProduct, LogMovement, Refuse, Break, Correct, UpdateStock, CreditStock, EditProduct,
     WriteAlone, Idle, vars, Running,
     locals
<1>4. applied' = {} => applied = {}
  BY DEF Next, AdjustStock, FindRow, SaveRow, SumRows, UpdateProduct,
     LogMovement,
     Refuse, Break, Correct, UpdateStock, CreditStock, EditProduct,
     WriteAlone, Idle, vars
<1> QED BY <1>1, <1>2, <1>3, <1>4 DEF Undisturbed

\* A write of r tells every other request at work on its product.
LEMMA Told ==
  ASSUME TypeInv, NEW r \in Requests, NEW p, NEW what, Touch(r, p, what),
         NEW x \in what, NEW s \in Requests \ {r}, stale'[s] = {}
  PROVE  pc[s] \in Running => req[s].product # p
BY DEF Touch

\* Nobody undisturbed has its total overtaken.
LEMMA UndisturbedStep ==
  ASSUME TypeInv, UndisturbedInv, [Next]_vars
  PROVE  UndisturbedInv'
<1> DEFINE OK(s) == LET p == req[s].product
                    IN  /\ pc[s] = "total" => sum[s] = BranchTotal(units[p])
                        /\ pc[s] = "log" => total[p] = BranchTotal(units[p])
<1> SUFFICES ASSUME ~ Transactional, NEW s \in Requests, stale'[s] = {}
             PROVE  OK(s)'
  BY DEF UndisturbedInv
<1>1. OK(s) /\ req' = req /\ stale[s] = {}
  BY HistoryGrows DEF UndisturbedInv
<1>2. /\ pc \in [Requests -> {"new"} \cup Running \cup Ended]
      /\ req[s].product \in Products
      /\ sum \in [Requests -> Int] /\ total \in [Products -> Int]
      /\ units \in [Products -> [Branches -> Nat]]
  BY ReqType DEF TypeInv, TypeOK
<1>3. ASSUME NEW r \in Requests, FindRow(r) \/ Refuse(r) \/ Break(r) PROVE OK(s)'
  BY <1>1, <1>2, <1>3 DEF FindRow, Refuse, Break, documents, locals
<1>4. ASSUME NEW r \in Requests, SaveRow(r) PROVE OK(s)'
  <2>1. /\ units' = [units EXCEPT ![req[r].product][req[r].branch] = NextStock(r)]
        /\ Touch(r, req[r].product, {req[r].branch})
        /\ pc' = [pc EXCEPT ![r] = "sum"] /\ UNCHANGED <<total, sum>>
    BY <1>4 DEF SaveRow
  <2>2. CASE s = r
    BY <1>2, <2>1, <2>2
  <2>3. CASE s # r /\ pc[s] \notin Running
    BY <1>2, <2>1, <2>3 DEF Running
  <2>4. CASE s # r /\ pc[s] \in Running
    <3>1. req[s].product # req[r].product
      BY <2>1, <2>4, Told
    <3>2. units'[req[s].product] = units[req[s].product]
      BY <1>2, <2>1, <3>1
    <3> QED BY <1>1, <1>2, <2>1, <2>4, <3>2
  <2> QED BY <2>2, <2>3, <2>4
<1>5. ASSUME NEW r \in Requests, SumRows(r) PROVE OK(s)'
  BY <1>1, <1>2, <1>5 DEF SumRows, documents, RowsSeen
<1>6. ASSUME NEW r \in Requests, UpdateProduct(r) PROVE OK(s)'
  <2>1. /\ pc[r] = "total" /\ total' = [total EXCEPT ![req[r].product] = sum[r]]
        /\ Touch(r, req[r].product, {Whole})
        /\ pc' = [pc EXCEPT ![r] = "log"] /\ UNCHANGED <<units, sum>>
    BY <1>6 DEF UpdateProduct, locals
  <2>2. CASE s = r
    BY <1>1, <1>2, <2>1, <2>2
  <2>3. CASE s # r /\ pc[s] \notin Running
    BY <1>2, <2>1, <2>3 DEF Running
  <2>4. CASE s # r /\ pc[s] \in Running
    <3>1. req[s].product # req[r].product
      BY <2>1, <2>4, Told
    <3>2. total'[req[s].product] = total[req[s].product]
      BY <1>2, <2>1, <3>1
    <3> QED BY <1>1, <1>2, <2>1, <2>4, <3>2
  <2> QED BY <2>2, <2>3, <2>4
<1>7. ASSUME NEW r \in Requests, LogMovement(r) PROVE OK(s)'
  <2>1. UNCHANGED <<units, total, sum>> /\ pc[r] = "log"
    BY <1>7 DEF LogMovement, locals
  <2>2. PICK c \in {"done", "broken"} : pc' = [pc EXCEPT ![r] = c]
    BY <1>7 DEF LogMovement
  <2> QED BY <1>1, <1>2, <2>1, <2>2
<1>8. ASSUME NEW c \in Corrections, Correct(c) PROVE OK(s)'
  <2>1. PICK p \in Products, value \in Int : WriteAlone(c, p, value)
    BY <1>8, CorrectIsAlone
  <2>2. /\ UNCHANGED <<units, pc, sum>>
        /\ total' = [total EXCEPT ![p] = value]
    BY <2>1 DEF WriteAlone, locals
  <2>3. pc[s] \in Running => req[s].product # p
    BY <2>1 DEF WriteAlone
  <2> QED BY <1>1, <1>2, <2>2, <2>3 DEF Running
<1>9. CASE UNCHANGED vars
  BY <1>1, <1>9 DEF vars, documents, locals
<1> HIDE DEF OK
<1> QED BY <1>3, <1>4, <1>5, <1>6, <1>7, <1>8, <1>9 DEF Next, AdjustStock, Idle

\* Whoever has found no row is told when one appears.
LEMMA FoundStep ==
  ASSUME TypeInv, FoundOrTold, [Next]_vars
  PROVE  FoundOrTold'
<1> DEFINE P(s) == req[s].product
           B(s) == req[s].branch
<1> SUFFICES ASSUME NEW s \in Requests, pc'[s] = "save", ~ found'[s],
                    B(s) \in present'[P(s)]
             PROVE  B(s) \in stale'[s]
  BY HistoryGrows DEF FoundOrTold
<1>1. /\ pc \in [Requests -> {"new"} \cup Running \cup Ended]
      /\ P(s) \in Products /\ found \in [Requests -> BOOLEAN]
      /\ present \in [Products -> SUBSET Branches]
  BY ReqType DEF TypeInv, TypeOK
<1>2. CASE pc[s] # "save"
  <2>1. FindRow(s)
    BY <1>1, <1>2 DEF Next, AdjustStock, FindRow, SaveRow, SumRows,
       UpdateProduct,
       LogMovement, Refuse, Break, Correct, UpdateStock, CreditStock, EditProduct,
     WriteAlone, Idle, vars
  <2> QED BY <1>1, <2>1 DEF FindRow, documents
<1>3. CASE pc[s] = "save"
  <2>1. found'[s] = found[s]
    BY <1>1, <1>3 DEF Next, AdjustStock, FindRow, SaveRow, SumRows,
       UpdateProduct,
       LogMovement, Refuse, Break, Correct, UpdateStock, CreditStock, EditProduct,
     WriteAlone, Idle, vars, locals
  <2>2. stale[s] \subseteq stale'[s]
    BY HistoryGrows
  <2>3. CASE B(s) \in present[P(s)]
    BY <1>3, <2>1, <2>2, <2>3 DEF FoundOrTold
  <2>4. CASE B(s) \notin present[P(s)]
    <3>1. PICK r \in Requests : SaveRow(r) \/ LogMovement(r)
      BY <2>4 DEF Next, AdjustStock, FindRow, SumRows, UpdateProduct, Refuse,
         Break,
         Correct, UpdateStock, CreditStock, EditProduct,
     WriteAlone, Idle, vars, documents
    <3>2. /\ \E what : B(r) \in what /\ Touch(r, P(r), what)
          /\ present' = [present EXCEPT ![P(r)] = @ \cup {B(r)}]
      BY <2>4, <3>1 DEF SaveRow, LogMovement
    <3>3. P(r) = P(s) /\ B(r) = B(s)
      BY <1>1, <2>4, <3>2
    <3>4. s # r
      BY <1>1, <3>1 DEF SaveRow, LogMovement
    <3> QED BY <1>3, <3>2, <3>3, <3>4 DEF Touch, Running
  <2> QED BY <2>3, <2>4
<1> QED BY <1>2, <1>3
-----------------------------------------------------------------------------
(* A refusal has a winner *)

\* Whoever refuses r is, or follows, another request that is further on.
LEMMA RefusedByAnother ==
  ASSUME TypeInv, FoundOrTold, WinnerInv, Undisturbed,
         NEW r \in Requests, Refuse(r)
  PROVE  \E s \in Requests \ {r} :
           Wins(s) \/ (pc[r] = "save" /\ pc[s] \in {"sum", "total"})
<1>1. ~ Wins(r)
  BY DEF Refuse, Wins
<1>2. stale[r] # {} => \E s \in Requests \ {r} : Wins(s)
  BY <1>1 DEF WinnerInv
<1>3. CASE pc[r] = "save" /\ Transactional /\ RowConflict(r)
  BY <1>2, <1>3 DEF RowConflict, HoldsRow, Wins
<1>4. CASE pc[r] = "total" /\ Transactional /\ ProductConflict(r)
  BY <1>2, <1>4 DEF ProductConflict, HoldsProduct, Wins
<1>5. CASE ~ found[r] /\ req[r].branch \in present[req[r].product] /\ pc[r] = "save"
  BY <1>2, <1>5 DEF FoundOrTold
<1> QED BY <1>3, <1>4, <1>5 DEF Refuse

\* As long as nothing fails, a winner goes on to its end.
LEMMA WinnerWins ==
  ASSUME TypeInv, [Next]_vars, Undisturbed', NEW s \in Requests
  PROVE  /\ Wins(s) => Wins(s)'
         /\ pc[s] \in {"sum", "total"} =>
              Wins(s)' \/ pc'[s] \in {"sum", "total"} \/ (Refuse(s) /\ pc[s] = "total")
<1>1. pc'[s] # "broken" /\ pc \in [Requests -> {"new"} \cup Running \cup Ended]
  BY DEF Undisturbed, TypeInv, TypeOK
<1>2. ASSUME NEW r \in Requests, AdjustStock(r) \/ Break(r), s # r
      PROVE  pc'[s] = pc[s]
  BY <1>1, <1>2 DEF AdjustStock, FindRow, SaveRow, SumRows, UpdateProduct,
     LogMovement, Refuse, Break
<1>3. CASE pc'[s] = pc[s]
  BY <1>3 DEF Wins
<1>4. CASE AdjustStock(s) \/ Break(s)
  BY <1>1, <1>4 DEF AdjustStock, FindRow, SaveRow, SumRows, UpdateProduct,
     LogMovement, Refuse, Break, Wins
<1>5. CASE UNCHANGED vars \/ \E c \in Corrections : Correct(c)
  BY <1>3, <1>5, CorrectFrame DEF vars
<1> QED BY <1>2, <1>3, <1>4, <1>5 DEF Next, Idle

\* Every step keeps the winner.
LEMMA WinnerStep ==
  ASSUME TypeInv, FoundOrTold, WinnerInv, [Next]_vars
  PROVE  WinnerInv'
<1> SUFFICES ASSUME Undisturbed'
             PROVE  /\ (\E r \in Requests : stale'[r] # {}) =>
                         \E s \in Requests : Wins(s)'
                    /\ (\E r \in Requests : pc'[r] = "conflict") =>
                         \E s \in Requests : Wins(s)' \/ pc'[s] \in {"sum", "total"}
  BY DEF WinnerInv
<1>1. Undisturbed
  BY HistoryGrows
<1>2. \A s \in Requests : Wins(s) => Wins(s)'
  BY WinnerWins
<1>3. ASSUME NEW r \in Requests, stale'[r] # {}
      PROVE  \E s \in Requests : Wins(s)'
  <2>1. CASE stale[r] # {}
    BY <1>1, <1>2, <2>1 DEF WinnerInv
  <2>2. CASE stale[r] = {}
    <3>1. PICK s \in Requests :
            \/ ~ Transactional /\ (SaveRow(s) \/ UpdateProduct(s))
            \/ LogMovement(s)
      BY <1>3, <2>2 DEF Next, AdjustStock, FindRow, SaveRow, SumRows,
         UpdateProduct, LogMovement, Refuse, Break, Correct, UpdateStock, CreditStock, EditProduct,
     WriteAlone, Undisturbed, Idle,
         vars
    <3>2. pc'[s] # "broken"
      BY DEF Undisturbed
    <3>3. pc'[s] = "done" \/ (~ Transactional /\ pc'[s] \in {"sum", "log"})
      BY <3>1, <3>2 DEF SaveRow, UpdateProduct, LogMovement, TypeInv, TypeOK
    <3> QED BY <3>3 DEF Wins
  <2> QED BY <2>1, <2>2
<1>4. ASSUME NEW r \in Requests, pc'[r] = "conflict"
      PROVE  \E s \in Requests : Wins(s)' \/ pc'[s] \in {"sum", "total"}
  <2>1. ASSUME NEW x \in Requests, Refuse(x)
        PROVE  \E s \in Requests : Wins(s)' \/ pc'[s] \in {"sum", "total"}
    <3>1. PICK s \in Requests \ {x} :
            Wins(s) \/ (pc[x] = "save" /\ pc[s] \in {"sum", "total"})
      BY <1>1, <2>1, RefusedByAnother
    <3>2. pc'[s] = pc[s]
      BY <2>1 DEF Refuse, TypeInv, TypeOK
    <3> QED BY <1>2, <3>1, <3>2
  <2>2. CASE pc[r] = "conflict"
    <3>1. PICK s \in Requests : Wins(s) \/ pc[s] \in {"sum", "total"}
      BY <1>1, <2>2 DEF WinnerInv
    <3> QED BY <1>2, <2>1, <3>1, WinnerWins
  <2>3. CASE pc[r] # "conflict"
    <3>1. Refuse(r)
      BY <1>4, <2>3 DEF TypeInv, TypeOK, Next, AdjustStock, FindRow, SaveRow,
         SumRows,
         UpdateProduct, LogMovement, Refuse, Break, Correct, UpdateStock, CreditStock, EditProduct,
     WriteAlone, Idle, vars
    <3> QED BY <2>1, <3>1
  <2> QED BY <2>2, <2>3
<1> QED BY <1>3, <1>4
-----------------------------------------------------------------------------
(* Requests that do not overlap *)

\* A step of r that writes no document, in which it neither gets ahead of the
\* rest nor falls back.
LEMMA QuietStep ==
  ASSUME \A s \in Requests : ApartOK(s),
         \A q \in Products : RowsApart(q) /\ TotalApart(q),
         NEW r \in Requests, UNCHANGED <<units, total, log, req>>,
         \A s \in Requests \ {r} : pc'[s] = pc[s] /\ prev'[s] = prev[s],
         pc'[r] \in HasRow <=> pc[r] \in HasRow,
         pc'[r] \in {"sum", "total"} <=> pc[r] \in {"sum", "total"},
         pc'[r] \in HasRow => prev'[r] = prev[r],
         pc'[r] = "save" => prev'[r] = units[req[r].product][req[r].branch]
  PROVE  /\ \A s \in Requests : ApartOK(s)'
         /\ \A q \in Products : RowsApart(q)' /\ TotalApart(q)'
<1>1. \A s \in Requests : pc'[s] \in HasRow <=> pc[s] \in HasRow
  OBVIOUS
<1>2. ASSUME NEW s \in Requests PROVE ApartOK(s)'
  <2>1. pc'[s] \in HasRow => NextStock(s)' = NextStock(s) /\ prev'[s] = prev[s]
    BY DEF NextStock
  <2> QED BY <1>1, <2>1 DEF ApartOK, HasRow
<1>3. ASSUME NEW q \in Products PROVE RowsApart(q)' /\ TotalApart(q)'
  <2>1. \A s \in Requests, d \in Branches : AheadRow(s, q, d)' <=> AheadRow(s, q, d)
    BY <1>1 DEF AheadRow, HasRow
  <2>2. \A s \in Requests : AheadTotal(s, q)' <=> AheadTotal(s, q)
    BY DEF AheadTotal
  <2>3. \A d \in Branches : Explained(q, d)' <=> Explained(q, d)
    BY DEF Explained
  <2> QED BY <2>1, <2>2, <2>3 DEF RowsApart, TotalApart
<1> QED BY <1>2, <1>3

\* It writes its row, which nobody else at work on the product has read.
LEMMA SaveApart ==
  ASSUME TypeInv, \A s \in Requests : ApartOK(s),
         \A q \in Products : RowsApart(q) /\ TotalApart(q),
         ~ Transactional, NEW r \in Requests, SaveRow(r),
         \A s \in Requests : stale'[s] = {}
  PROVE  /\ \A s \in Requests : ApartOK(s)'
         /\ \A q \in Products : RowsApart(q)' /\ TotalApart(q)'
<1> DEFINE p == req[r].product
           b == req[r].branch
           n == NextStock(r)
<1>1. /\ pc[r] = "save" /\ pc' = [pc EXCEPT ![r] = "sum"]
      /\ units' = [units EXCEPT ![p][b] = n]
      /\ Touch(r, p, {b}) /\ UNCHANGED <<total, log, req, prev>>
  BY DEF SaveRow
<1>2. /\ pc \in [Requests -> {"new"} \cup Running \cup Ended]
      /\ p \in Products /\ b \in Branches
      /\ units \in [Products -> [Branches -> Nat]]
      /\ \A s \in Requests : req[s].product \in Products /\ req[s].branch \in Branches
  BY ReqType DEF TypeInv, TypeOK
<1>3. \A s \in Requests \ {r} :
        pc'[s] = pc[s] /\ (pc[s] \in Running => req[s].product # p)
  BY <1>1, <1>2, Told
<1>4. \A s \in Requests, d \in Branches : ~ AheadRow(s, p, d)
  BY <1>1, <1>3 DEF AheadRow, Running
<1>5. prev[r] = units[p][b] /\ units[p][b] = LastStock(log[p][b], Opening[p][b])
  BY <1>1, <1>2, <1>4 DEF ApartOK, RowsApart, Explained
<1>6. \A s \in Requests : NextStock(s)' = NextStock(s)
  BY <1>1 DEF NextStock
<1> HIDE DEF n
<1>7. ASSUME NEW s \in Requests PROVE ApartOK(s)'
  <2>1. CASE s = r
    <3>1. pc'[r] = "sum" /\ units'[p][b] = n
      BY <1>1, <1>2
    <3>2. \A z \in Requests \ {r} :
            pc'[z] \in {"sum", "total", "log"} => req[z].product # p
      BY <1>3 DEF Running
    <3> QED BY <1>1, <1>5, <1>6, <2>1, <3>1, <3>2 DEF ApartOK, n
  <2>2. CASE s # r
    <3>1. pc'[s] = pc[s] /\ ApartOK(s)
      BY <1>3, <2>2
    <3>2. pc[s] \in Running =>
            req[s].product # p /\ units'[req[s].product] = units[req[s].product]
      BY <1>1, <1>2, <1>3, <2>2
    <3>3. pc[s] \in Running => \A z \in Requests \ {s} :
            pc'[z] \in {"sum", "total", "log"} =>
              z = r \/ pc[z] \in {"sum", "total", "log"}
      BY <1>3
    <3> QED BY <1>1, <1>6, <3>1, <3>2, <3>3 DEF ApartOK, Running
  <2> QED BY <2>1, <2>2
<1>8. ASSUME NEW q \in Products PROVE RowsApart(q)' /\ TotalApart(q)'
  <2>1. pc'[r] = "sum"
    BY <1>1, <1>2
  <2>2. CASE q = p
    <3>1. AheadTotal(r, p)' /\ AheadRow(r, p, b)'
      BY <1>1, <2>1 DEF AheadTotal, AheadRow
    <3>2. \A d \in Branches \ {b} : units'[p][d] = units[p][d]
      BY <1>1, <1>2
    <3>3. \A d \in Branches : Explained(p, d)
      BY <1>2, <1>4 DEF RowsApart
    <3>4. \A d \in Branches \ {b} : Explained(p, d)'
      BY <1>1, <3>2, <3>3 DEF Explained
    <3> QED BY <1>1, <1>2, <2>2, <3>1, <3>3, <3>4 DEF RowsApart, TotalApart,
               Explained
  <2>3. CASE q # p
    <3>1. units'[q] = units[q]
      BY <1>1, <1>2, <2>3
    <3>2. \A s \in Requests, d \in Branches : AheadRow(s, q, d)' <=> AheadRow(s, q, d)
      BY <1>1, <1>3, <2>1, <2>3 DEF AheadRow
    <3>3. \A s \in Requests : AheadTotal(s, q)' <=> AheadTotal(s, q)
      BY <1>1, <1>3, <2>1, <2>3 DEF AheadTotal
    <3>4. \A d \in Branches : Explained(q, d)' <=> Explained(q, d)
      BY <1>1, <3>1 DEF Explained
    <3> QED BY <1>1, <3>1, <3>2, <3>3, <3>4 DEF RowsApart, TotalApart
  <2> QED BY <2>2, <2>3
<1> QED BY <1>7, <1>8

\* It writes the total, which is right again.
LEMMA TotalIsRight ==
  ASSUME TypeInv, \A s \in Requests : ApartOK(s),
         \A q \in Products : RowsApart(q) /\ TotalApart(q),
         UndisturbedInv, ~ Transactional, NEW r \in Requests, UpdateProduct(r),
         stale[r] = {}
  PROVE  /\ \A s \in Requests : ApartOK(s)'
         /\ \A q \in Products : RowsApart(q)' /\ TotalApart(q)'
<1> DEFINE p == req[r].product
<1>1. /\ pc[r] = "total" /\ pc' = [pc EXCEPT ![r] = "log"]
      /\ total' = [total EXCEPT ![p] = sum[r]]
      /\ UNCHANGED <<units, log, req, prev>>
  BY DEF UpdateProduct, locals
<1>2. /\ pc \in [Requests -> {"new"} \cup Running \cup Ended]
      /\ p \in Products /\ total \in [Products -> Int]
  BY ReqType DEF TypeInv, TypeOK
<1>3. pc'[r] = "log" /\ \A s \in Requests \ {r} : pc'[s] = pc[s]
  BY <1>1, <1>2
<1>4. sum[r] = BranchTotal(units[p])
  BY <1>1 DEF UndisturbedInv
<1>5. ASSUME NEW s \in Requests PROVE ApartOK(s)'
  <2>1. ApartOK(s) /\ NextStock(s)' = NextStock(s)
    BY <1>1 DEF NextStock
  <2>2. pc'[s] = "save" <=> pc[s] = "save"
    BY <1>1, <1>3
  <2>3. \A z \in Requests : pc'[z] \in {"sum", "total", "log"} <=>
                              pc[z] \in {"sum", "total", "log"}
    BY <1>1, <1>3
  <2> QED BY <1>1, <2>1, <2>2, <2>3 DEF ApartOK
<1>6. ASSUME NEW q \in Products PROVE RowsApart(q)'
  <2>1. \A s \in Requests, d \in Branches : AheadRow(s, q, d)' <=> AheadRow(s, q, d)
    BY <1>1, <1>3 DEF AheadRow
  <2> QED BY <1>1, <2>1 DEF RowsApart, Explained
<1>7. ASSUME NEW q \in Products PROVE TotalApart(q)'
  <2>1. CASE q = p
    BY <1>1, <1>2, <1>4, <2>1 DEF TotalApart
  <2>2. CASE q # p
    <3>1. \A s \in Requests : AheadTotal(s, q)' <=> AheadTotal(s, q)
      BY <1>1, <1>3, <2>2 DEF AheadTotal
    <3> QED BY <1>1, <1>2, <2>2, <3>1 DEF TotalApart
  <2> QED BY <2>1, <2>2
<1> QED BY <1>5, <1>6, <1>7

\* It writes the movement, which explains its row.
LEMMA LogApart ==
  ASSUME TypeInv, \A s \in Requests : ApartOK(s),
         \A q \in Products : RowsApart(q) /\ TotalApart(q),
         ~ Transactional, NEW r \in Requests, LogMovement(r)
  PROVE  /\ \A s \in Requests : ApartOK(s)'
         /\ \A q \in Products : RowsApart(q)' /\ TotalApart(q)'
<1> DEFINE p == req[r].product
           b == req[r].branch
           m == MovementOf(r)
<1>1. /\ pc[r] = "log" /\ log' = [log EXCEPT ![p][b] = Append(@, m)]
      /\ UNCHANGED <<units, total, req, prev>>
  BY DEF LogMovement, locals
<1>2. /\ pc \in [Requests -> {"new"} \cup Running \cup Ended]
      /\ p \in Products /\ b \in Branches
      /\ log \in [Products -> [Branches -> Seq(Movement)]]
      /\ \A s \in Requests : req[s].product \in Products /\ req[s].branch \in Branches
  BY ReqType DEF TypeInv, TypeOK
<1>3. pc'[r] \in {"done", "broken"} /\ \A s \in Requests \ {r} : pc'[s] = pc[s]
  BY <1>2 DEF LogMovement
<1>4. /\ units[p][b] = NextStock(r)
      /\ prev[r] = LastStock(log[p][b], Opening[p][b])
      /\ \A s \in Requests \ {r} :
           pc[s] \in {"sum", "total", "log"} => req[s].product # p
  BY <1>1 DEF ApartOK
<1>5. /\ m \in Movement /\ m.previousStock = prev[r]
      /\ m.currentStock = NextStock(r)
  BY MovementIsOne DEF MovementOf, TypeInv
<1> HIDE DEF m
<1>6. Explained(p, b)'
  <2>1. log'[p][b] = Append(log[p][b], m)
    BY <1>1, <1>2
  <2>2. Chained(log[p][b], Opening[p][b]) /\ log[p][b] \in Seq(Movement)
    BY <1>2 DEF RowsApart
  <2>3. /\ Chained(log'[p][b], Opening[p][b])
        /\ LastStock(log'[p][b], Opening[p][b]) = NextStock(r)
    BY <1>4, <1>5, <2>1, <2>2, AppendChains
  <2> QED BY <1>1, <1>4, <2>3 DEF Explained
<1>7. ASSUME NEW s \in Requests PROVE ApartOK(s)'
  <2>1. CASE s = r
    BY <1>3, <2>1 DEF ApartOK
  <2>2. CASE s # r
    <3>1. pc'[s] = pc[s] /\ ApartOK(s) /\ NextStock(s)' = NextStock(s)
      BY <1>1, <1>3, <2>2 DEF NextStock
    <3>2. pc[s] \in {"sum", "total", "log"} =>
            log'[req[s].product] = log[req[s].product]
      BY <1>1, <1>2, <1>4, <2>2
    <3>3. \A z \in Requests : pc'[z] \in {"sum", "total", "log"} =>
                                pc[z] \in {"sum", "total", "log"}
      BY <1>1, <1>3
    <3> QED BY <1>1, <3>1, <3>2, <3>3 DEF ApartOK
  <2> QED BY <2>1, <2>2
<1>8. ASSUME NEW q \in Products PROVE RowsApart(q)'
  <2> SUFFICES ASSUME NEW d \in Branches
               PROVE  /\ Chained(log'[q][d], Opening[q][d])
                      /\ (\A s \in Requests : ~ AheadRow(s, q, d)') => Explained(q, d)'
    BY DEF RowsApart
  <2>1. CASE q = p /\ d = b
    BY <1>1, <1>6, <2>1 DEF Explained
  <2>2. CASE ~ (q = p /\ d = b)
    <3>1. log'[q][d] = log[q][d]
      BY <1>1, <1>2, <2>2
    <3>2. \A s \in Requests : AheadRow(s, q, d) => AheadRow(s, q, d)'
      BY <1>1, <1>3, <2>2 DEF AheadRow
    <3> QED BY <1>1, <3>1, <3>2 DEF RowsApart, Explained
  <2> QED BY <2>1, <2>2
<1>9. ASSUME NEW q \in Products PROVE TotalApart(q)'
  <2>1. \A s \in Requests : AheadTotal(s, q) => AheadTotal(s, q)'
    BY <1>1, <1>3 DEF AheadTotal
  <2> QED BY <1>1, <2>1 DEF TotalApart
<1> QED BY <1>7, <1>8, <1>9

\* Every step keeps requests that do not overlap apart.
LEMMA SequentialStep ==
  ASSUME TypeInv, UndisturbedInv, SequentialInv, [Next]_vars
  PROVE  SequentialInv'
<1> DEFINE Goal == /\ \A s \in Requests : ApartOK(s)'
                   /\ \A q \in Products : RowsApart(q)' /\ TotalApart(q)'
<1> SUFFICES ASSUME ~ Transactional, Apart' PROVE Goal
  BY DEF SequentialInv
<1>1. /\ \A s \in Requests : stale[s] = {} /\ stale'[s] = {}
      /\ \A s \in Requests : ApartOK(s)
      /\ \A q \in Products : RowsApart(q) /\ TotalApart(q)
  BY HistoryGrows DEF SequentialInv, Apart
<1>2. ASSUME NEW r \in Requests, FindRow(r) \/ SumRows(r) \/ Refuse(r) PROVE Goal
  <2>1. /\ UNCHANGED <<units, total, log, req>>
        /\ \A s \in Requests \ {r} : pc'[s] = pc[s] /\ prev'[s] = prev[s]
    BY <1>2 DEF FindRow, SumRows, Refuse, documents, locals, TypeInv, TypeOK
  <2>2. /\ pc'[r] \in HasRow <=> pc[r] \in HasRow
        /\ pc'[r] \in {"sum", "total"} <=> pc[r] \in {"sum", "total"}
        /\ pc'[r] \in HasRow => prev'[r] = prev[r]
        /\ pc'[r] = "save" => prev'[r] = units[req[r].product][req[r].branch]
    BY <1>2 DEF FindRow, SumRows, Refuse, locals, HasRow, TypeInv, TypeOK
  <2> QED BY <1>1, <2>1, <2>2, QuietStep
<1>3. ASSUME NEW r \in Requests, SaveRow(r) PROVE Goal
  BY <1>1, <1>3, SaveApart
<1>4. ASSUME NEW r \in Requests, UpdateProduct(r) PROVE Goal
  BY <1>1, <1>4, TotalIsRight
<1>5. ASSUME NEW r \in Requests, LogMovement(r) PROVE Goal
  BY <1>1, <1>5, LogApart
<1>6. ASSUME NEW r \in Requests, Break(r) PROVE Goal
  BY <1>6 DEF Break, Apart, Undisturbed, TypeInv, TypeOK
<1>7. ASSUME NEW c \in Corrections, Correct(c) PROVE Goal
  BY <1>7, CorrectFrame DEF Apart, Undisturbed
<1>8. CASE UNCHANGED vars
  BY <1>1, <1>8 DEF vars, documents, locals, ApartOK, NextStock, RowsApart,
     TotalApart, AheadRow, AheadTotal, Explained
<1> HIDE DEF Goal
<1> QED BY <1>2, <1>3, <1>4, <1>5, <1>6, <1>7, <1>8 DEF Next, AdjustStock, Idle

\* Nobody has done anything yet.
LEMMA InitOutcome == Init => OutcomeInv
<1> SUFFICES ASSUME Init PROVE OutcomeInv
  OBVIOUS
<1>1. UndisturbedInv /\ FoundOrTold /\ WinnerInv
  BY DEF Init, UndisturbedInv, FoundOrTold, WinnerInv
<1>2. \A r \in Requests : ApartOK(r)
  BY DEF Init, ApartOK
<1>3. \A p \in Products : RowsApart(p) /\ TotalApart(p)
  BY DEF Init, RowsApart, TotalApart, Explained, Chained, LastStock
<1> QED BY <1>1, <1>2, <1>3 DEF OutcomeInv, SequentialInv
-----------------------------------------------------------------------------
(* The theorems *)

\* Every step keeps the invariant.
LEMMA NextTxInv == ASSUME Transactional PROVE TypeInv /\ TxInv /\ [Next]_vars => TxInv'
<1> SUFFICES ASSUME TypeInv, TxInv, [Next]_vars PROVE TxInv'
  OBVIOUS
<1>1. ASSUME NEW r \in Requests, AdjustStock(r) \/ Break(r) PROVE TxInv'
  BY <1>1, FindRowTx, SaveRowTx, SumRowsTx, UpdateProductTx, LogMovementTx,
     RefuseTx DEF AdjustStock
<1>2. ASSUME NEW c \in Corrections, Correct(c) PROVE TxInv'
  BY <1>2, CorrectTx
<1>3. ASSUME UNCHANGED vars PROVE TxInv'
  BY <1>3 DEF vars, documents, locals, TxInv, SnapshotInv, SnapshotOK,
     Exclusive,
              HoldsRow, HoldsProduct, NextStock, TotalsAgree,
              MovementsExplainStock, Explained
<1> QED BY <1>1, <1>2, <1>3 DEF Next, Idle

\* The inductive invariant holds at every moment, on either kind of server.
THEOREM StockInvariant == Spec => []StockInv
<1>1. CASE Transactional
  <2>1. TypeInv /\ TxInv => StockInv
    BY DEF TypeInv, TxInv, StockInv
  <2>2. Init => TypeInv /\ TxInv
    BY InitTypeInv, InitTxInv
  <2>3. TypeInv /\ TxInv /\ [Next]_vars => TypeInv' /\ TxInv'
    BY <1>1, NextTypeInv, NextTxInv
  <2> QED BY <2>1, <2>2, <2>3, PTL DEF Spec
<1>2. CASE ~ Transactional
  <2>1. TypeInv => StockInv
    BY <1>2 DEF TypeInv, StockInv
  <2> QED BY <2>1, InitTypeInv, NextTypeInv, PTL DEF Spec
<1> QED BY <1>1, <1>2

\* On a replica set Product.stock is the sum of the branch rows at every moment
\* of every interleaving of adjustStock calls, failures included, until the
\* first write of it alone: updateStock, an edited product, or a credit note
\* without AFIP.
THEOREM StockTotals == ASSUME Transactional PROVE Spec => []TotalsAgree
<1>1. StockInv => TotalsAgree
  BY DEF StockInv
<1> QED BY <1>1, StockInvariant, PTL

\* On a replica set the movement log explains every row to the unit.
THEOREM StockMovements == ASSUME Transactional PROVE Spec => []MovementsExplainStock
<1>1. StockInv => MovementsExplainStock
  BY DEF StockInv
<1> QED BY <1>1, StockInvariant, PTL

\* On a replica set adjustStock implements the atomic ledger: each call takes
\* effect in one step, at its commit, or has no effect.
THEOREM StockImplementsLedger == ASSUME Transactional PROVE Spec => LedgerSpec
<1> DEFINE out == [r \in Requests |-> IF pc[r] \in Ended THEN pc[r] ELSE "open"]
<1>1. Init => Ledger!Init
  BY DEF Init, Ledger!Init, Ended
<1>2. ASSUME StockInv, [Next]_vars PROVE [Ledger!Next]_(Ledger!vars)
  <2>a. TypeInv /\ TxInv /\ TypeOK
    BY <1>2 DEF StockInv, TypeInv, TxInv
  <2>1. ASSUME NEW r \in Requests, NEW c \in Ended, pc[r] \notin Ended,
               pc' = [pc EXCEPT ![r] = c]
        PROVE  out[r] = "open" /\ out' = [out EXCEPT ![r] = c]
    <3>1. pc'[r] = c /\ \A s \in Requests \ {r} : pc'[s] = pc[s]
      BY <2>a, <2>1 DEF TypeOK
    <3> QED BY <2>1, <3>1
  <2>2. ASSUME NEW r \in Requests, NEW c \in Running, pc[r] \notin Ended,
               pc' = [pc EXCEPT ![r] = c]
        PROVE  out' = out
    BY <2>a, <2>2 DEF TypeOK, Running, Ended
  <2> HIDE DEF out
  <2>3. ASSUME NEW r \in Requests, FindRow(r) PROVE [Ledger!Next]_(Ledger!vars)
    <3>1. UNCHANGED <<units, log, req>> /\ pc[r] \notin Ended
      BY <2>3 DEF FindRow, documents, Ended
    <3>2. CASE Insufficient(r)
      <4>1. pc' = [pc EXCEPT ![r] = "insufficient"] /\ "insufficient" \in Ended
        BY <2>3, <3>2 DEF FindRow, Ended
      <4>2. out[r] = "open" /\ out' = [out EXCEPT ![r] = "insufficient"]
        BY <2>1, <3>1, <4>1
      <4>3. Ledger!Reject(r)
        BY <3>1, <3>2, <4>2 DEF Ledger!Reject, Ledger!Short, Ledger!Change,
           Ledger!Absolute,
                                Insufficient, FinalQuantity, Absolute, out
      <4> QED BY <4>3 DEF Ledger!Next
    <3>3. CASE ~ Insufficient(r)
      <4>1. pc' = [pc EXCEPT ![r] = "save"] /\ "save" \in Running
        BY <2>3, <3>3 DEF FindRow, Running
      <4> QED BY <2>2, <3>1, <4>1 DEF Ledger!vars, out
    <3> QED BY <3>2, <3>3
  <2>4. ASSUME NEW r \in Requests, SaveRow(r) \/ SumRows(r) \/ UpdateProduct(r)
        PROVE  [Ledger!Next]_(Ledger!vars)
    <3>1. UNCHANGED <<units, log, req>>
      BY <2>4 DEF SaveRow, SumRows, UpdateProduct, documents, locals
    <3>2. PICK c \in Running : pc' = [pc EXCEPT ![r] = c] /\ pc[r] \notin Ended
      BY <2>4 DEF SaveRow, SumRows, UpdateProduct, Running, Ended
    <3> QED BY <2>2, <3>1, <3>2 DEF Ledger!vars, out
  <2>5. ASSUME NEW r \in Requests, LogMovement(r) PROVE [Ledger!Next]_(Ledger!vars)
    <3> DEFINE p == req[r].product
               b == req[r].branch
    <3>1. /\ units' = [units EXCEPT ![p][b] = NextStock(r)]
          /\ prev[r] = units[p][b]
      BY <2>a, <2>5, CommitEffect
    <3>2. PICK c \in {"done", "broken"} : pc' = [pc EXCEPT ![r] = c]
      BY <2>5 DEF LogMovement
    <3>3. out[r] = "open" /\ out' = [out EXCEPT ![r] = c]
      BY <2>1, <2>5, <3>2 DEF LogMovement, Ended
    <3>4. NextStock(r) = units[p][b] + Ledger!Change(req[r])
      BY <3>1 DEF NextStock, FinalQuantity, Absolute, Ledger!Change,
         Ledger!Absolute
    <3>5. NextStock(r) >= 0
      BY <2>a, <2>5 DEF LogMovement, TypeInv, CanPay, Running
    <3>6. log' = [log EXCEPT ![p][b] = Append(@,
                    [type |-> req[r].type, quantity |-> Ledger!Absolute(req[r].quantity),
                     previousStock |-> units[p][b], currentStock |-> NextStock(r)])]
      BY <2>5, <3>1 DEF LogMovement, MovementOf, Absolute, Ledger!Absolute
    <3>7. UNCHANGED req
      BY <2>5 DEF LogMovement, locals
    <3>8. Ledger!Apply(r)
      BY <3>1, <3>3, <3>4, <3>5, <3>6, <3>7 DEF Ledger!Apply, Ledger!Effect, out
    <3> QED BY <3>8 DEF Ledger!Next
  <2>6. ASSUME NEW r \in Requests, Refuse(r) \/ Break(r)
        PROVE  [Ledger!Next]_(Ledger!vars)
    <3>1. UNCHANGED <<units, log, req>> /\ pc[r] \notin Ended
      BY <2>6 DEF Refuse, Break, documents, locals, Running, Ended
    <3>2. PICK c \in {"conflict", "broken"} : pc' = [pc EXCEPT ![r] = c]
      BY <2>6 DEF Refuse, Break
    <3>3. out[r] = "open" /\ out' = [out EXCEPT ![r] = c]
      BY <2>1, <3>1, <3>2 DEF Ended
    <3>4. Ledger!Abandon(r)
      BY <3>1, <3>2, <3>3 DEF Ledger!Abandon, out
    <3> QED BY <3>4 DEF Ledger!Next
  <2>7. ASSUME NEW c \in Corrections, Correct(c)
        PROVE  [Ledger!Next]_(Ledger!vars)
    BY <1>2, <2>7, CorrectFrame DEF StockInv, TypeInv, Ledger!vars
  <2>8. ASSUME UNCHANGED vars PROVE [Ledger!Next]_(Ledger!vars)
    BY <2>8 DEF vars, documents, locals, Ledger!vars
  <2> QED BY <1>2, <2>3, <2>4, <2>5, <2>6, <2>7, <2>8 DEF Next, AdjustStock,
             Idle
<1> QED BY <1>1, <1>2, StockInvariant, PTL DEF Spec, LedgerSpec, Ledger!Spec

\* What is true of winners and of requests that do not overlap holds at every
\* moment, on either kind of server.
THEOREM StockOutcomes == Spec => []OutcomeInv
<1>1. TypeInv /\ OutcomeInv /\ [Next]_vars => OutcomeInv'
  BY UndisturbedStep, FoundStep, WinnerStep, SequentialStep DEF OutcomeInv
<1> QED BY InitTypeInv, NextTypeInv, InitOutcome, <1>1, PTL DEF Spec

\* Requests never all refuse one another: if nothing fails and one ends with a
\* conflict, another one has succeeded, so that retrying makes progress.
THEOREM StockConflictHasWinner == Spec => []ConflictHasWinner
<1>1. OutcomeInv => ConflictHasWinner
  BY DEF OutcomeInv, WinnerInv, ConflictHasWinner, Undisturbed, Wins, Ended
<1> QED BY <1>1, StockOutcomes, PTL

\* Without transactions the code is still exact for requests that do not
\* overlap, whatever their number, their order and the rows they meet.
THEOREM StockSequentialIsExact == Spec => []SequentialIsExact
<1>1. ASSUME StockInv, OutcomeInv PROVE SequentialIsExact
  <2> SUFFICES ASSUME \A r \in Requests : pc[r] \in (Ended \ {"broken"}) \cup {"new"},
                      \A r \in Requests : stale[r] = {}, applied = {}
               PROVE  /\ MovementsExplainStock
                      /\ \A p \in Products : total[p] = BranchTotal(units[p])
    BY DEF SequentialIsExact
  <2>1. CASE Transactional
    BY <1>1, <2>1 DEF StockInv, TotalsAgree
  <2>2. CASE ~ Transactional
    <3>1. \A r \in Requests : pc[r] \notin {"sum", "total", "log", "broken"}
      BY DEF Ended
    <3>2. \A p \in Products : RowsApart(p) /\ TotalApart(p)
      BY <1>1, <2>2, <3>1 DEF OutcomeInv, SequentialInv, Apart, Undisturbed
    <3> QED BY <3>1, <3>2 DEF RowsApart, TotalApart, AheadRow, AheadTotal,
            MovementsExplainStock
  <2> QED BY <2>1, <2>2
<1> QED BY <1>1, StockInvariant, StockOutcomes, PTL

\* A request that nobody disturbed leaves the total of its product equal to the
\* sum of the rows when it succeeds, whatever drift it found.
THEOREM StockUndisturbedRepairs == Spec => UndisturbedRepairs
<1> DEFINE Repairs ==
      \A r \in Requests :
        (pc[r] = "log" /\ pc'[r] = "done" /\ stale[r] = {})
          => total'[req[r].product] = BranchTotal(units'[req[r].product])
<1>1. ASSUME TypeInv, StockInv, OutcomeInv, [Next]_vars PROVE [Repairs]_vars
  <2> SUFFICES ASSUME NEW r \in Requests, pc[r] = "log", pc'[r] = "done",
                      stale[r] = {}
               PROVE  total'[req[r].product] = BranchTotal(units'[req[r].product])
    OBVIOUS
  <2>1. LogMovement(r)
    <3>1. \A s \in Requests : AdjustStock(s) \/ Break(s) => pc' = [pc EXCEPT ![s] = pc'[s]]
      BY <1>1 DEF AdjustStock, FindRow, SaveRow, SumRows, UpdateProduct, LogMovement,
         Refuse, Break, TypeInv, TypeOK
    <3>2. \A s \in Requests : AdjustStock(s) \/ Break(s) => s = r
      BY <1>1, <3>1 DEF TypeInv, TypeOK
    <3>3. ~ UNCHANGED pc
      OBVIOUS
    <3>4. AdjustStock(r) \/ Break(r)
      BY <1>1, <3>2, <3>3, CorrectFrame DEF Next, Idle, vars
    <3>5. pc[r] = "log" /\ pc'[r] = "done"
      OBVIOUS
    <3>6. ~ FindRow(r) /\ ~ SaveRow(r) /\ ~ SumRows(r) /\ ~ UpdateProduct(r)
      BY <3>5 DEF FindRow, SaveRow, SumRows, UpdateProduct
    <3>7. ~ Refuse(r) /\ ~ Break(r)
      BY <1>1, <3>5 DEF Refuse, Break, TypeInv, TypeOK
    <3> QED BY <3>4, <3>6, <3>7 DEF AdjustStock
  <2>2. CASE Transactional
    BY <1>1, <2>1, <2>2, CommitEffect DEF StockInv, TxInv, TypeInv, TypeOK
  <2>3. CASE ~ Transactional
    BY <1>1, <2>1, <2>3 DEF OutcomeInv, UndisturbedInv, LogMovement
  <2> QED BY <2>2, <2>3
<1>2. Spec => []TypeInv
  BY InitTypeInv, NextTypeInv, PTL DEF Spec
<1> QED BY <1>1, <1>2, StockInvariant, StockOutcomes, PTL
        DEF Spec, UndisturbedRepairs
=============================================================================
