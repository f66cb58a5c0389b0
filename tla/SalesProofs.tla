---------------------------- MODULE SalesProofs ----------------------------
(***************************************************************************)
(* That SalesInv is an invariant of Sales, for any shop, any carts and any *)
(* number of calls, and that nothing is sold twice and nothing is lost but *)
(* what failed sales keep.  The heart of it is Books: the stock on the     *)
(* shelf and the lines taken and not given back add up to the opening      *)
(* stock at any moment, since a line that moves moves both by its units.   *)
(***************************************************************************)
EXTENDS Sales, SumTheorems, SequenceTheorems, TLAPS

\* The lines of a cart.
LEMMA Lines ==
  ASSUME TypeOK, NEW s \in Buyers
  PROVE  /\ cart[s] \in Seq(Line)
         /\ Len(cart[s]) \in Nat /\ DOMAIN cart[s] = 1..Len(cart[s])
         /\ IsFiniteSet(DOMAIN cart[s])
         /\ \A i \in DOMAIN cart[s] : /\ cart[s][i].product \in Products
                                      /\ cart[s][i].quantity \in Nat \ {0}
<1>1. cart[s] \in Seq(Line)
  BY SalesAssumption DEF TypeOK
<1>2. Len(cart[s]) \in Nat /\ DOMAIN cart[s] = 1..Len(cart[s])
  BY <1>1, LenProperties
<1>3. IsFiniteSet(DOMAIN cart[s])
  BY <1>2, FS_Interval
<1>4. \A i \in DOMAIN cart[s] : cart[s][i] \in Line
  BY <1>1, ElementOfSeq, <1>2
<1> QED BY <1>1, <1>2, <1>3, <1>4 DEF Line

\* What some of the lines come to, of one product.
LEMMA LinesCount ==
  ASSUME TypeOK, NEW s \in Buyers, NEW p, NEW T \in SUBSET DOMAIN cart[s]
  PROVE  /\ IsFiniteSet(T)
         /\ \A i \in DOMAIN cart[s] : UnitsIn(cart[s], p)[i] \in Nat
         /\ SumOn(UnitsIn(cart[s], p), T) \in Nat
<1>1. IsFiniteSet(T)
  BY Lines, FS_Subset
<1>2. \A i \in DOMAIN cart[s] : UnitsIn(cart[s], p)[i] \in Nat
  BY Lines DEF UnitsIn
<1>3. SumOn(UnitsIn(cart[s], p), T) \in Int
  BY <1>1, <1>2, SumIsInt
<1>4. SumOn(UnitsIn(cart[s], p), {}) <= SumOn(UnitsIn(cart[s], p), T)
  BY <1>1, <1>2, SumWithin
<1> QED BY <1>1, <1>2, <1>3, <1>4, SumEmpty

\* What the sales hold, of one row of stock.
LEMMA HeldIsNat ==
  ASSUME TypeOK, NEW p, NEW b
  PROVE  /\ Held(p, b) \in [Buyers -> Nat]
         /\ SumOn(Held(p, b), Buyers) \in Nat
<1>1. ASSUME NEW s \in Buyers PROVE Held(p, b)[s] \in Nat
  <2>1. Away(s) \in SUBSET DOMAIN cart[s]
    BY DEF Away
  <2>2. SumOn(UnitsIn(cart[s], p), Away(s)) \in Nat
    BY <2>1, LinesCount
  <2> QED BY <2>2 DEF Held
<1>2. Held(p, b) \in [Buyers -> Nat]
  BY <1>1 DEF Held
<1>3. SumOn(Held(p, b), Buyers) \in Int
  BY <1>2, SalesAssumption, SumIsInt
<1>4. SumOn(Held(p, b), {}) <= SumOn(Held(p, b), Buyers)
  BY <1>2, SalesAssumption, SumWithin
<1> QED BY <1>2, <1>3, <1>4, SumEmpty

\* What one line does to the stock.
LEMMA LineMoves ==
  ASSUME TypeOK, NEW in, Ledger!Effect(in), in.product \in Products,
         in.branch \in Branches, in.quantity \in Nat, in.type \in {"SALE", "RETURN"}
  PROVE  /\ units' \in [Products -> [Branches -> Nat]]
         /\ \A p \in Products, b \in Branches :
              units'[p][b] =
                IF p = in.product /\ b = in.branch
                THEN IF in.type = "SALE" THEN units[p][b] - in.quantity
                     ELSE units[p][b] + in.quantity
                ELSE units[p][b]
<1> DEFINE new == units[in.product][in.branch] + Ledger!Change(in)
<1>1. /\ units \in [Products -> [Branches -> Nat]] /\ new >= 0
      /\ units' = [units EXCEPT ![in.product][in.branch] = new]
  BY DEF TypeOK, Ledger!Effect
<1>2. units[in.product][in.branch] \in Nat
  BY <1>1
<1>3. Ledger!Change(in) = IF in.type = "SALE" THEN 0 - in.quantity ELSE in.quantity
  BY DEF Ledger!Change, Ledger!Absolute
<1>4. new \in Nat
  BY <1>1, <1>2, <1>3
<1>5. new = IF in.type = "SALE" THEN units[in.product][in.branch] - in.quantity
            ELSE units[in.product][in.branch] + in.quantity
  BY <1>2, <1>3
<1> HIDE DEF new
<1> QED BY <1>1, <1>4, <1>5

\* Removals that found a sale are not forgotten: what is contested or broken
\* stays so.
LEMMA FoundStaysFound ==
  ASSUME TypeOK, [Next]_vars
  PROVE  /\ \A s \in Buyers : Finders(s) \subseteq Finders(s)'
         /\ Contested => Contested'
         /\ Broken => Broken'
<1>1. /\ victim' = victim
      /\ \A d \in Removals : rpc[d] = "failed" => rpc'[d] = "failed"
      /\ \A d \in Removals : rpc[d] \notin {"new", "notfound"} =>
                              rpc'[d] \notin {"new", "notfound"}
  <2>1. CASE UNCHANGED vars
    BY <2>1 DEF vars, removing
  <2>2. CASE \E s \in Buyers : CreateSale(s)
    BY <2>2 DEF CreateSale, Begin, Take, Save, removing
  <2>3. CASE \E d \in Removals : DeleteSale(d)
    BY <2>3 DEF DeleteSale, FindSale, ReturnLine, Delete, TypeOK
  <2>4. CASE Idle
    BY <2>4 DEF Idle, vars, removing
  <2> QED BY <2>1, <2>2, <2>3, <2>4 DEF Next
<1>2. \A s \in Buyers : Finders(s) \subseteq Finders(s)'
  BY <1>1 DEF Finders
<1>3. Contested => Contested'
  BY <1>2 DEF Contested
<1>4. Broken => Broken'
  BY <1>1 DEF Broken
<1> QED BY <1>2, <1>3, <1>4

\* Nothing moves on the shelf, and no line is taken or given back.
LEMMA BooksUntouched ==
  ASSUME SalesInv, [Next]_vars, units' = units,
         \A s \in Buyers, p \in Products, b \in Branches :
           Held(p, b)'[s] = Held(p, b)[s]
  PROVE  Books'
<1> SUFFICES ASSUME ~ Contested', ~ Broken', NEW p \in Products, NEW b \in Branches
             PROVE  units'[p][b] + SumOn(Held(p, b)', Buyers) = Opening[p][b]
  BY DEF Books
<1>1. units[p][b] + SumOn(Held(p, b), Buyers) = Opening[p][b]
  BY FoundStaysFound DEF SalesInv, Books
<1>2. Held(p, b)' = Held(p, b)
  BY DEF Held
<1> QED BY <1>1, <1>2

\* One line of sale s moves, of product q and in n units, from the shelf or back.
LEMMA BooksMove ==
  ASSUME SalesInv, TypeOK', [Next]_vars, NEW s \in Buyers, cart' = cart, place' = place,
         NEW i \in DOMAIN cart[s], place[s] \in Branches,
         NEW in, in = Call(s, i, in.type), in.type \in {"SALE", "RETURN"},
         Ledger!Effect(in),
         \A t \in Buyers \ {s} : Away(t)' = Away(t),
         ~ Contested' /\ ~ Broken' =>
           IF in.type = "SALE" THEN i \notin Away(s) /\ Away(s)' = Away(s) \cup {i}
           ELSE i \in Away(s) /\ Away(s)' = Away(s) \ {i}
  PROVE  Books'
<1> SUFFICES ASSUME ~ Contested', ~ Broken', NEW p \in Products, NEW b \in Branches
             PROVE  units'[p][b] + SumOn(Held(p, b)', Buyers) = Opening[p][b]
  BY DEF Books
<1>0. TypeOK
  BY DEF SalesInv
<1>1. units[p][b] + SumOn(Held(p, b), Buyers) = Opening[p][b]
  BY FoundStaysFound DEF SalesInv, Books
<1> DEFINE f == UnitsIn(cart[s], p)
           moved == IF place[s] = b THEN f[i] ELSE 0
<1>2. /\ in.product = cart[s][i].product /\ in.branch = place[s]
      /\ in.quantity = cart[s][i].quantity
      /\ in.product \in Products /\ in.quantity \in Nat
  BY <1>0, Lines DEF Call
<1>3. f[i] = (IF in.product = p THEN in.quantity ELSE 0) /\ moved \in Nat
  BY <1>2 DEF UnitsIn
<1>4. units[p][b] \in Nat
      /\ units'[p][b] = IF in.type = "SALE" THEN units[p][b] - moved
                        ELSE units[p][b] + moved
  <2>1. units[p][b] \in Nat
    BY <1>0 DEF TypeOK
  <2> QED BY <1>0, <1>2, <1>3, <2>1, LineMoves
<1>5. \A t \in Buyers \ {s} : Held(p, b)'[t] = Held(p, b)[t]
  BY DEF Held
<1>6. Held(p, b)[s] \in Nat /\ Held(p, b)'[s] \in Nat
      /\ Held(p, b)'[s] = IF in.type = "SALE" THEN Held(p, b)[s] + moved
                          ELSE Held(p, b)[s] - moved
  <2> DEFINE A == Away(s)
             B == Away(s)'
  <2>1. A \in SUBSET DOMAIN cart[s] /\ B \in SUBSET DOMAIN cart[s]
    BY DEF Away
  <2>2. /\ IsFiniteSet(A) /\ IsFiniteSet(B)
        /\ SumOn(f, A) \in Nat /\ SumOn(f, B) \in Nat
        /\ \A j \in DOMAIN cart[s] : f[j] \in Nat
    BY <1>0, <2>1, LinesCount
  <2> HIDE DEF A, B, f
  <2>5. \A j \in A \cup B : f[j] \in Int
    BY <2>1, <2>2
  <2>3. SumOn(f, B) = IF in.type = "SALE" THEN SumOn(f, A) + f[i] ELSE SumOn(f, A) - f[i]
    <3>1. CASE in.type = "SALE"
      <4>1. i \in B /\ B \ {i} = A
        BY <3>1 DEF A, B
      <4>2. SumOn(f, B) = f[i] + SumOn(f, B \ {i})
        BY <2>2, <2>5, <4>1, SumRemove
      <4>3. SumOn(f, B) = f[i] + SumOn(f, A) /\ f[i] \in Int
        BY <2>5, <4>1, <4>2
      <4> QED BY <2>2, <3>1, <4>3
    <3>2. CASE in.type = "RETURN"
      <4>1. i \in A /\ A \ {i} = B
        BY <3>2 DEF A, B
      <4>2. SumOn(f, A) = f[i] + SumOn(f, A \ {i})
        BY <2>2, <2>5, <4>1, SumRemove
      <4>3. SumOn(f, A) = f[i] + SumOn(f, B) /\ f[i] \in Int
        BY <2>5, <4>1, <4>2
      <4> QED BY <2>2, <3>2, <4>3
    <3> QED BY <3>1, <3>2
  <2>4. /\ Held(p, b)[s] = IF place[s] = b THEN SumOn(f, A) ELSE 0
        /\ Held(p, b)'[s] = IF place[s] = b THEN SumOn(f, B) ELSE 0
    BY DEF Held, A, B, f
  <2> QED BY <2>2, <2>3, <2>4
<1> HIDE DEF f, moved
<1>7. SumOn(Held(p, b)', Buyers) =
        SumOn(Held(p, b), Buyers) + (Held(p, b)'[s] - Held(p, b)[s])
  <2>1. Held(p, b) \in [Buyers -> Nat]
    BY <1>0, HeldIsNat
  <2>2. \A t \in Buyers : Held(p, b)[t] \in Int /\ Held(p, b)'[t] \in Int
    BY <1>5, <1>6, <2>1
  <2>3. \A g, h : (\A t \in Buyers : g[t] \in Int /\ h[t] \in Int)
                  /\ (\A t \in Buyers \ {s} : h[t] = g[t])
                  => SumOn(h, Buyers) = SumOn(g, Buyers) + (h[s] - g[s])
    BY SalesAssumption, SumDiffers
  <2> QED BY <1>5, <2>2, <2>3
<1>8. SumOn(Held(p, b), Buyers) \in Nat
  BY <1>0, HeldIsNat
<1> QED BY <1>1, <1>3, <1>4, <1>6, <1>7, <1>8

\* What is known of a call of createSale and of a call of deleteSale stays
\* known while others move.
LEMMA BuyerStays ==
  ASSUME TypeOK, [Next]_vars, NEW s \in Buyers, BuyerOK(s),
         cart' = cart, pc'[s] = pc[s], taken'[s] = taken[s], place'[s] = place[s],
         s \in saved' <=> s \in saved
  PROVE  BuyerOK(s)'
BY FoundStaysFound DEF BuyerOK

LEMMA RemovalStays ==
  ASSUME TypeOK, NEW d \in Removals, RemovalOK(d),
         cart' = cart, victim' = victim, rpc'[d] = rpc[d], returned'[d] = returned[d],
         rpc[d] \in {"return", "removed", "failed"} =>
           /\ pc'[victim[d]] = pc[victim[d]] /\ taken'[victim[d]] = taken[victim[d]]
           /\ place'[victim[d]] = place[victim[d]]
           /\ victim[d] \in saved' => victim[d] \in saved
  PROVE  RemovalOK(d)'
BY DEF RemovalOK, TypeOK

\* The branch of a sale is one of the shop's, or none.
LEMMA BranchIsKnown ==
  ASSUME NEW who \in Requesters, NEW asked \in Branches \cup {NoBranch}
  PROVE  SaleBranch(who, asked) \in Branches \cup {NoBranch}
BY SalesAssumption DEF SaleBranch

\* A sale begins: nothing is taken yet, wherever it is made.
LEMMA BeginKeeps ==
  ASSUME SalesInv, Next, NEW s \in Buyers, Begin(s)
  PROVE  SalesInv'
<1>1. /\ TypeOK /\ pc[s] = "new" /\ taken[s] = 0
      /\ UNCHANGED <<stock, cart, taken, saved, removing>>
      /\ place' = [place EXCEPT ![s] = place'[s]]
      /\ place'[s] \in Branches \cup {NoBranch}
      /\ pc' = [pc EXCEPT ![s] = IF place'[s] = NoBranch THEN "refused" ELSE "take"]
  BY BranchIsKnown DEF Begin, SalesInv, BuyerOK, TypeOK
<1>2. UNCHANGED <<units, log, cart, taken, saved, victim, rpc, returned>>
  BY <1>1 DEF stock, removing
<1>3. \A t \in Buyers \ {s} : pc'[t] = pc[t] /\ place'[t] = place[t]
  BY <1>1 DEF TypeOK
<1>4. s \notin saved
  BY <1>1 DEF SalesInv, BuyerOK
<1>5. TypeOK'
  BY <1>1, <1>2, <1>3, <1>4 DEF TypeOK
<1>6. \A t \in Buyers : BuyerOK(t)'
  <2>1. ASSUME NEW t \in Buyers \ {s} PROVE BuyerOK(t)'
    BY <1>1, <1>2, <1>3, BuyerStays DEF SalesInv
  <2>2. BuyerOK(s)'
    BY <1>1, <1>2, <1>4 DEF BuyerOK, TypeOK
  <2> QED BY <2>1, <2>2
<1>7. \A d \in Removals : RemovalOK(d)'
  <2> SUFFICES ASSUME NEW d \in Removals PROVE RemovalOK(d)'
    OBVIOUS
  <2>1. rpc[d] \in {"return", "removed", "failed"} => victim[d] \in Buyers \ {s}
    BY <1>1 DEF SalesInv, RemovalOK, TypeOK
  <2> QED BY <1>1, <1>2, <1>3, <2>1, RemovalStays DEF SalesInv
<1>8. Books'
  <2>1. \A t \in Buyers : Away(t)' = Away(t)
    BY <1>2 DEF Away, Finders
  <2>2. Away(s) = {}
    BY <1>1, Lines DEF Away
  <2>3. \A p : SumOn(UnitsIn(cart[s], p), Away(s)) = 0
    BY <2>2, SumEmpty
  <2>4. \A t \in Buyers, p \in Products, b \in Branches : Held(p, b)'[t] = Held(p, b)[t]
    BY <1>2, <1>3, <2>1, <2>3 DEF Held
  <2> QED BY <1>2, <2>4, BooksUntouched
<1> QED BY <1>5, <1>6, <1>7, <1>8 DEF SalesInv

\* A line is taken, or the call fails, and what it has taken stays taken.
LEMMA TakeKeeps ==
  ASSUME SalesInv, Next, NEW s \in Buyers, Take(s)
  PROVE  SalesInv'
<1> DEFINE i == taken[s] + 1
           in == Call(s, i, "SALE")
<1>1. /\ TypeOK /\ pc[s] = "take" /\ taken[s] < Len(cart[s])
      /\ place[s] \in Branches /\ s \notin saved
  BY DEF Take, SalesInv, BuyerOK
<1>2. UNCHANGED <<cart, place, saved, victim, rpc, returned>>
  BY DEF Take, removing
<1>3. Finders(s) = {} /\ Finders(s)' = {}
  BY <1>1, <1>2 DEF Finders, SalesInv, RemovalOK, TypeOK
<1>4. /\ i \in DOMAIN cart[s] /\ taken[s] \in Nat /\ i \notin Away(s)
      /\ in.product \in Products /\ in.branch \in Branches /\ in.quantity \in Nat
      /\ in.type = "SALE"
  <2>1. i \in DOMAIN cart[s] /\ taken[s] \in Nat
    BY <1>1, Lines DEF TypeOK
  <2> QED BY <1>1, <2>1, Lines DEF Call, Away
<1>5. CASE /\ Ledger!Effect(in) /\ taken' = [taken EXCEPT ![s] = i]
           /\ pc' = pc \/ pc' = [pc EXCEPT ![s] = "failed"]
  <2>1. /\ \A t \in Buyers \ {s} : pc'[t] = pc[t] /\ taken'[t] = taken[t]
        /\ pc'[s] \in {"take", "failed"} /\ DOMAIN taken' = Buyers
        /\ pc' \in [Buyers -> {"new", "take", "sold", "refused", "failed"}]
    BY <1>1, <1>5 DEF TypeOK
  <2>2. \A t \in Buyers : taken'[t] \in 0..Len(cart[t])
    BY <1>1, <1>4, <1>5, <2>1, Lines DEF TypeOK
  <2>3. taken'[s] = i
    BY <1>1, <1>5 DEF TypeOK
  <2>4. TypeOK'
    <3>1. units' \in [Products -> [Branches -> Nat]]
      BY <1>1, <1>4, <1>5, LineMoves
    <3> QED BY <1>1, <1>2, <2>1, <2>2, <3>1 DEF TypeOK
  <2>5. \A t \in Buyers : BuyerOK(t)'
    <3>1. ASSUME NEW t \in Buyers \ {s} PROVE BuyerOK(t)'
      BY <1>1, <1>2, <2>1, BuyerStays DEF SalesInv
    <3>2. BuyerOK(s)'
      BY <1>1, <1>2, <2>1 DEF BuyerOK
    <3> QED BY <3>1, <3>2
  <2>6. \A d \in Removals : RemovalOK(d)'
    <3> SUFFICES ASSUME NEW d \in Removals PROVE RemovalOK(d)'
      OBVIOUS
    <3>1. rpc[d] \in {"return", "removed", "failed"} => victim[d] \in Buyers \ {s}
      BY <1>1 DEF SalesInv, RemovalOK, TypeOK
    <3> QED BY <1>1, <1>2, <2>1, <3>1, RemovalStays DEF SalesInv
  <2>7. \A t \in Buyers \ {s} : Away(t)' = Away(t)
    BY <1>2, <2>1 DEF Away, Finders
  <2>8. Away(s)' = Away(s) \cup {i}
    BY <1>1, <1>2, <1>3, <1>4, <2>3, Lines DEF Away
  <2>9. Books'
    <3> HIDE DEF i
    <3>1. in = Call(s, i, in.type)
      BY DEF Call
    <3> HIDE DEF in
    <3> QED BY <1>1, <1>2, <1>4, <1>5, <2>4, <2>7, <2>8, <3>1, BooksMove
  <2> QED BY <2>4, <2>5, <2>6, <2>9 DEF SalesInv
<1>6. CASE pc' = [pc EXCEPT ![s] = "failed"] /\ UNCHANGED <<stock, taken>>
  <2>1. UNCHANGED <<units, log, taken>>
    BY <1>6 DEF stock
  <2>2. /\ \A t \in Buyers \ {s} : pc'[t] = pc[t]
        /\ pc'[s] = "failed"
        /\ pc' \in [Buyers -> {"new", "take", "sold", "refused", "failed"}]
    BY <1>1, <1>6 DEF TypeOK
  <2>3. TypeOK'
    BY <1>1, <1>2, <2>1, <2>2 DEF TypeOK
  <2>4. \A t \in Buyers : BuyerOK(t)'
    <3>1. ASSUME NEW t \in Buyers \ {s} PROVE BuyerOK(t)'
      BY <1>1, <1>2, <2>1, <2>2, BuyerStays DEF SalesInv
    <3>2. BuyerOK(s)'
      BY <1>1, <1>2, <2>1, <2>2 DEF BuyerOK
    <3> QED BY <3>1, <3>2
  <2>5. \A d \in Removals : RemovalOK(d)'
    <3> SUFFICES ASSUME NEW d \in Removals PROVE RemovalOK(d)'
      OBVIOUS
    <3>1. rpc[d] \in {"return", "removed", "failed"} => victim[d] \in Buyers \ {s}
      BY <1>1 DEF SalesInv, RemovalOK, TypeOK
    <3> QED BY <1>1, <1>2, <2>1, <2>2, <3>1, RemovalStays DEF SalesInv
  <2>6. Books'
    <3>1. \A t \in Buyers : Away(t)' = Away(t)
      BY <1>2, <2>1 DEF Away, Finders
    <3>2. \A t \in Buyers, p \in Products, b \in Branches : Held(p, b)'[t] = Held(p, b)[t]
      BY <1>2, <3>1 DEF Held
    <3> QED BY <2>1, <3>2, BooksUntouched
  <2> QED BY <2>3, <2>4, <2>5, <2>6 DEF SalesInv
<1> QED BY <1>5, <1>6 DEF Take

\* The sale is saved, or not: its stock is taken either way.
LEMMA SaveKeeps ==
  ASSUME SalesInv, Next, NEW s \in Buyers, Save(s)
  PROVE  SalesInv'
<1>1. /\ TypeOK /\ pc[s] = "take" /\ taken[s] = Len(cart[s])
      /\ place[s] \in Branches /\ s \notin saved
  BY DEF Save, SalesInv, BuyerOK
<1>2. UNCHANGED <<units, log, cart, place, taken, victim, rpc, returned>>
  BY DEF Save, stock, removing
<1>3. /\ \A t \in Buyers \ {s} : pc'[t] = pc[t] /\ (t \in saved' <=> t \in saved)
      /\ pc' \in [Buyers -> {"new", "take", "sold", "refused", "failed"}]
      /\ saved' \subseteq saved \cup {s}
      /\ pc'[s] \in {"sold", "failed"} /\ (pc'[s] = "sold" => s \in saved')
  BY <1>1 DEF Save, TypeOK
<1>4. TypeOK'
  BY <1>1, <1>2, <1>3 DEF TypeOK
<1>5. \A t \in Buyers : BuyerOK(t)'
  <2>1. ASSUME NEW t \in Buyers \ {s} PROVE BuyerOK(t)'
    BY <1>1, <1>2, <1>3, BuyerStays DEF SalesInv
  <2>2. BuyerOK(s)'
    BY <1>1, <1>2, <1>3 DEF BuyerOK
  <2> QED BY <2>1, <2>2
<1>6. \A d \in Removals : RemovalOK(d)'
  <2> SUFFICES ASSUME NEW d \in Removals PROVE RemovalOK(d)'
    OBVIOUS
  <2>1. rpc[d] \in {"return", "removed", "failed"} => victim[d] \in Buyers \ {s}
    BY <1>1 DEF SalesInv, RemovalOK, TypeOK
  <2> QED BY <1>1, <1>2, <1>3, <2>1, RemovalStays DEF SalesInv
<1>7. Books'
  <2>1. \A t \in Buyers : Away(t)' = Away(t)
    BY <1>2 DEF Away, Finders
  <2>2. \A t \in Buyers, p \in Products, b \in Branches : Held(p, b)'[t] = Held(p, b)[t]
    BY <1>2, <2>1 DEF Held
  <2> QED BY <1>2, <2>2, BooksUntouched
<1> QED BY <1>4, <1>5, <1>6, <1>7 DEF SalesInv

\* A deletion finds its sale: no line has come back yet.
LEMMA FindSaleKeeps ==
  ASSUME SalesInv, Next, NEW d \in Removals, FindSale(d)
  PROVE  SalesInv'
<1> DEFINE s == victim[d]
<1>1. /\ TypeOK /\ rpc[d] = "new" /\ returned[d] = 0 /\ s \in Buyers
      /\ rpc' = [rpc EXCEPT ![d] = IF s \in saved THEN "return" ELSE "notfound"]
  BY DEF FindSale, SalesInv, RemovalOK, TypeOK
<1>2. UNCHANGED <<units, log, cart, place, pc, taken, saved, victim, returned>>
  BY DEF FindSale, stock, buying
<1>3. /\ \A e \in Removals \ {d} : rpc'[e] = rpc[e]
      /\ rpc'[d] = (IF s \in saved THEN "return" ELSE "notfound")
      /\ rpc' \in [Removals -> {"new", "return", "removed", "notfound", "failed"}]
  BY <1>1 DEF TypeOK
<1>4. TypeOK'
  BY <1>1, <1>2, <1>3 DEF TypeOK
<1>5. \A t \in Buyers : BuyerOK(t)'
  BY <1>1, <1>2, BuyerStays DEF SalesInv
<1>6. \A e \in Removals : RemovalOK(e)'
  <2>1. ASSUME NEW e \in Removals \ {d} PROVE RemovalOK(e)'
    BY <1>1, <1>2, <1>3, RemovalStays DEF SalesInv
  <2>2. s \in saved => pc[s] \in {"sold", "failed"} /\ taken[s] = Len(cart[s])
                       /\ place[s] \in Branches
    BY <1>1 DEF SalesInv, BuyerOK, TypeOK
  <2>3. RemovalOK(d)'
    BY <1>1, <1>2, <1>3, <2>2 DEF RemovalOK
  <2> QED BY <2>1, <2>3
<1>7. Books'
  <2>1. ASSUME NEW t \in Buyers PROVE Away(t)' = Away(t)
    <3>1. Finders(t) \subseteq Finders(t)' /\ Finders(t)' \subseteq Finders(t) \cup {d}
      BY <1>1, <1>2, <1>3 DEF Finders
    <3>2. \A i \in DOMAIN cart[t] : returned[d] < i
      BY <1>1, Lines
    <3>3. \A i \in DOMAIN cart[t] : (\A e \in Finders(t)' : returned[e] < i)
                                    <=> (\A e \in Finders(t) : returned[e] < i)
      BY <3>1, <3>2
    <3> QED BY <1>2, <3>3 DEF Away
  <2>2. \A t \in Buyers, p \in Products, b \in Branches : Held(p, b)'[t] = Held(p, b)[t]
    BY <1>2, <2>1 DEF Held
  <2> QED BY <1>2, <2>2, BooksUntouched
<1> QED BY <1>4, <1>5, <1>6, <1>7 DEF SalesInv

\* A line comes back, or the deletion fails and its sale is half returned.
LEMMA ReturnLineKeeps ==
  ASSUME SalesInv, Next, NEW d \in Removals, ReturnLine(d)
  PROVE  SalesInv'
<1>0. PICK s \in Buyers : s = victim[d]
  BY DEF SalesInv, TypeOK
<1> DEFINE i == returned[d] + 1
           in == Call(s, i, "RETURN")
<1>1. /\ TypeOK /\ rpc[d] = "return" /\ victim[d] = s
      /\ returned[d] < Len(cart[s]) /\ taken[s] = Len(cart[s])
      /\ pc[s] \in {"sold", "failed"} /\ place[s] \in Branches
  BY <1>0 DEF ReturnLine, SalesInv, RemovalOK
<1>2. UNCHANGED <<cart, place, pc, taken, saved, victim>>
  BY DEF ReturnLine, buying
<1>3. /\ i \in DOMAIN cart[s] /\ i \in 0..Len(cart[s]) /\ returned[d] \in Nat
      /\ in.product \in Products /\ in.branch \in Branches /\ in.quantity \in Nat
      /\ in.type = "RETURN"
  <2>1. returned[d] \in Nat /\ i \in DOMAIN cart[s] /\ i \in 0..Len(cart[s])
    BY <1>1, Lines DEF TypeOK
  <2> QED BY <1>1, <2>1, Lines DEF Call
<1>4. \A t \in Buyers : BuyerOK(t)'
  BY <1>1, <1>2, BuyerStays DEF SalesInv
<1>5. CASE /\ Ledger!Effect(in) /\ returned' = [returned EXCEPT ![d] = i] /\ rpc' = rpc
  <2>1. /\ \A e \in Removals \ {d} : returned'[e] = returned[e]
        /\ returned'[d] = i /\ DOMAIN returned' = Removals
    BY <1>1, <1>5 DEF TypeOK
  <2>2. TypeOK'
    <3>1. units' \in [Products -> [Branches -> Nat]]
      BY <1>1, <1>3, <1>5, LineMoves
    <3>2. \A e \in Removals : returned'[e] \in 0..Len(cart[victim[e]])
      BY <1>1, <1>3, <2>1 DEF TypeOK
    <3> QED BY <1>1, <1>2, <1>5, <2>1, <3>1, <3>2 DEF TypeOK
  <2>3. \A e \in Removals : RemovalOK(e)'
    <3>1. ASSUME NEW e \in Removals \ {d} PROVE RemovalOK(e)'
      BY <1>1, <1>2, <1>5, <2>1, RemovalStays DEF SalesInv
    <3>2. RemovalOK(d)'
      BY <1>1, <1>2, <1>5, <2>1 DEF RemovalOK
    <3> QED BY <3>1, <3>2
  <2>4. \A t \in Buyers \ {s} : Away(t)' = Away(t)
    BY <1>1, <1>2, <1>5, <2>1 DEF Away, Finders
  <2>5. ASSUME ~ Contested'
        PROVE  i \in Away(s) /\ Away(s)' = Away(s) \ {i}
    <3>1. Finders(s) = {d} /\ Finders(s)' = {d}
      <4>1. d \in Finders(s) /\ d \in Finders(s)' /\ Finders(s)' = Finders(s)
        BY <1>1, <1>2, <1>5 DEF Finders
      <4> QED BY <1>1, <2>5, <4>1 DEF Contested
    <3>2. Away(s) = {j \in DOMAIN cart[s] : returned[d] < j}
      BY <1>1, <3>1, Lines DEF Away
    <3>3. Away(s)' = {j \in DOMAIN cart[s] : returned'[d] < j}
      BY <1>1, <1>2, <3>1, Lines DEF Away
    <3>4. \A j \in DOMAIN cart[s] : j \in Nat
      BY <1>1, Lines
    <3> QED BY <1>3, <2>1, <3>2, <3>3, <3>4
  <2>6. Books'
    <3> HIDE DEF i
    <3>1. in = Call(s, i, in.type)
      BY DEF Call
    <3> HIDE DEF in
    <3> QED BY <1>1, <1>2, <1>3, <1>5, <2>2, <2>4, <2>5, <3>1, BooksMove
  <2> QED BY <1>4, <2>2, <2>3, <2>6 DEF SalesInv
<1>6. CASE /\ Ledger!Effect(in) \/ UNCHANGED stock
           /\ rpc' = [rpc EXCEPT ![d] = "failed"] /\ returned' = returned
  <2>1. /\ \A e \in Removals \ {d} : rpc'[e] = rpc[e]
        /\ rpc'[d] = "failed"
        /\ rpc' \in [Removals -> {"new", "return", "removed", "notfound", "failed"}]
    BY <1>1, <1>6 DEF TypeOK
  <2>2. TypeOK'
    <3>1. units' \in [Products -> [Branches -> Nat]]
      BY <1>1, <1>3, <1>6, LineMoves DEF stock, TypeOK
    <3> QED BY <1>1, <1>2, <1>6, <2>1, <3>1 DEF TypeOK
  <2>3. \A e \in Removals : RemovalOK(e)'
    <3>1. ASSUME NEW e \in Removals \ {d} PROVE RemovalOK(e)'
      BY <1>1, <1>2, <1>6, <2>1, RemovalStays DEF SalesInv
    <3>2. RemovalOK(d)'
      BY <1>1, <1>2, <1>6, <2>1 DEF RemovalOK
    <3> QED BY <3>1, <3>2
  <2>4. Books'
    BY <2>1 DEF Books, Broken
  <2> QED BY <1>4, <2>2, <2>3, <2>4 DEF SalesInv
<1> QED BY <1>0, <1>5, <1>6 DEF ReturnLine

\* The sale is deleted, or not: its stock is back either way.
LEMMA DeleteKeeps ==
  ASSUME SalesInv, Next, NEW d \in Removals, Delete(d)
  PROVE  SalesInv'
<1>0. PICK s \in Buyers : s = victim[d]
  BY DEF SalesInv, TypeOK
<1>1. /\ TypeOK /\ rpc[d] = "return" /\ victim[d] = s /\ returned[d] = Len(cart[s])
      /\ pc[s] \in {"sold", "failed"} /\ taken[s] = Len(cart[s]) /\ place[s] \in Branches
  BY <1>0 DEF Delete, SalesInv, RemovalOK
<1>2. UNCHANGED <<units, log, cart, place, pc, taken, victim, returned>>
  BY DEF Delete, stock, buying
<1>3. /\ \A e \in Removals \ {d} : rpc'[e] = rpc[e]
      /\ rpc'[d] \in {"removed", "failed"} /\ (rpc'[d] = "removed" => s \notin saved')
      /\ rpc' \in [Removals -> {"new", "return", "removed", "notfound", "failed"}]
      /\ saved' \subseteq saved /\ saved \ {s} \subseteq saved'
  BY <1>0, <1>1 DEF Delete, TypeOK
<1>4. TypeOK'
  BY <1>1, <1>2, <1>3 DEF TypeOK
<1>5. \A t \in Buyers : BuyerOK(t)'
  <2>1. ASSUME NEW t \in Buyers \ {s} PROVE BuyerOK(t)'
    BY <1>1, <1>2, <1>3, BuyerStays DEF SalesInv
  <2>2. d \in Finders(s)'
    BY <1>1, <1>2, <1>3 DEF Finders
  <2>3. BuyerOK(s)'
    BY <1>1, <1>2, <1>3, <2>2 DEF BuyerOK, SalesInv
  <2> QED BY <2>1, <2>3
<1>6. \A e \in Removals : RemovalOK(e)'
  <2>1. ASSUME NEW e \in Removals \ {d} PROVE RemovalOK(e)'
    BY <1>1, <1>2, <1>3, RemovalStays DEF SalesInv
  <2>2. RemovalOK(d)'
    BY <1>1, <1>2, <1>3 DEF RemovalOK
  <2> QED BY <2>1, <2>2
<1>7. Books'
  <2>1. \A t \in Buyers : Away(t)' = Away(t)
    BY <1>1, <1>2, <1>3 DEF Away, Finders
  <2>2. \A t \in Buyers, p \in Products, b \in Branches : Held(p, b)'[t] = Held(p, b)[t]
    BY <1>2, <2>1 DEF Held
  <2> QED BY <1>2, <2>2, BooksUntouched
<1> QED BY <1>4, <1>5, <1>6, <1>7 DEF SalesInv

LEMMA InitSalesInv == Init => SalesInv
<1> SUFFICES ASSUME Init PROVE SalesInv
  OBVIOUS
<1>1. TypeOK
  <2>1. \A s \in Buyers : taken[s] = 0 /\ Len(cart[s]) \in Nat
    BY SalesAssumption, LenProperties DEF Init
  <2>2. \A d \in Removals : returned[d] = 0 /\ victim[d] \in Buyers
    BY DEF Init
  <2>3. \A s \in Buyers : taken[s] \in 0..Len(cart[s])
    BY <2>1
  <2>4. \A d \in Removals : returned[d] \in 0..Len(cart[victim[d]])
    BY <2>1, <2>2
  <2> QED BY <2>3, <2>4, SalesAssumption DEF Init, TypeOK
<1>2. \A s \in Buyers : BuyerOK(s)
  BY DEF Init, BuyerOK
<1>3. \A d \in Removals : RemovalOK(d)
  BY DEF Init, RemovalOK
<1>4. Books
  <2>1. \A s \in Buyers : Away(s) = {}
    BY <1>1, Lines DEF Init, Away
  <2>2. ASSUME NEW p \in Products, NEW b \in Branches
        PROVE  SumOn(Held(p, b), Buyers) = 0
    <3>1. \A s \in Buyers : SumOn(UnitsIn(cart[s], p), Away(s)) = 0
      BY <2>1, SumEmpty
    <3>2. \A s \in Buyers : Held(p, b)[s] = 0
      BY <3>1 DEF Held
    <3> QED BY <3>2, SalesAssumption, SumZero
  <2> QED BY <2>2, SalesAssumption DEF Init, Books
<1> QED BY <1>1, <1>2, <1>3, <1>4 DEF SalesInv

LEMMA NextSalesInv == SalesInv /\ [Next]_vars => SalesInv'
<1> SUFFICES ASSUME SalesInv, [Next]_vars PROVE SalesInv'
  OBVIOUS
<1>1. ASSUME UNCHANGED vars PROVE SalesInv'
  <2>1. UNCHANGED <<units, log, cart, place, pc, taken, saved, victim, rpc, returned>>
    BY <1>1 DEF vars, stock, buying, removing
  <2>2. TypeOK'
    BY <2>1 DEF SalesInv, TypeOK
  <2>3. \A s \in Buyers : BuyerOK(s)'
    BY <2>1 DEF SalesInv, BuyerOK, Finders
  <2>4. \A d \in Removals : RemovalOK(d)'
    BY <2>1 DEF SalesInv, RemovalOK
  <2>5. \A s \in Buyers, p \in Products, b \in Branches : Held(p, b)'[s] = Held(p, b)[s]
    BY <2>1 DEF Held, Away, Finders
  <2>6. Books'
    BY <2>1, <2>5, BooksUntouched
  <2> QED BY <2>2, <2>3, <2>4, <2>6 DEF SalesInv
<1>2. CASE \E s \in Buyers : CreateSale(s)
  BY <1>2, BeginKeeps, TakeKeeps, SaveKeeps DEF CreateSale, Next
<1>3. CASE \E d \in Removals : DeleteSale(d)
  BY <1>3, FindSaleKeeps, ReturnLineKeeps, DeleteKeeps DEF DeleteSale, Next
<1>4. CASE Idle
  BY <1>1, <1>4 DEF Idle
<1> QED BY <1>1, <1>2, <1>3, <1>4 DEF Next

\* SalesInv holds in every state: a line is on the shelf, or taken by one sale.
THEOREM SalesInvariant == Spec => []SalesInv
BY InitSalesInv, NextSalesInv, PTL DEF Spec

\* Type correctness of the variables of Sales.
THEOREM SalesTypeCorrect == Spec => []TypeOK
<1>1. SalesInv => TypeOK
  BY DEF SalesInv
<1> QED BY <1>1, SalesInvariant, PTL

\* A cart, counted over a set of lines: what Sold and Kept are sums of.
LEMMA CartCount ==
  ASSUME TypeOK, NEW s \in Buyers, NEW p
  PROVE  /\ InCart(cart[s], p) = SumOn(UnitsIn(cart[s], p), DOMAIN cart[s])
         /\ InCart(cart[s], p) \in Nat
         /\ InCart(FirstLines(s), p) = SumOn(UnitsIn(cart[s], p), 1..taken[s])
         /\ 1..taken[s] \in SUBSET DOMAIN cart[s]
<1>1. InCart(cart[s], p) = SumOn(UnitsIn(cart[s], p), DOMAIN cart[s])
  BY DEF InCart
<1>2. InCart(cart[s], p) \in Nat
  BY <1>1, LinesCount
<1> DEFINE n == taken[s]
           first == FirstLines(s)
<1>3. n \in Nat /\ 1..n \in SUBSET DOMAIN cart[s]
  BY Lines DEF TypeOK
<1>4. first \in Seq(Line) /\ Len(first) = n /\ \A i \in 1..n : first[i] = cart[s][i]
  <2>1. \A i \in 1..n : cart[s][i] \in Line
    BY <1>3, Lines, ElementOfSeq
  <2>2. /\ SubSeq(cart[s], 1, n) \in Seq(Line)
        /\ Len(SubSeq(cart[s], 1, n)) = IF 1 <= n THEN n - 1 + 1 ELSE 0
        /\ \A i \in 1..(n - 1 + 1) : SubSeq(cart[s], 1, n)[i] = cart[s][1 + i - 1]
    BY <1>3, <2>1, SubSeqProperties
  <2> QED BY <1>3, <2>2 DEF FirstLines
<1>5. DOMAIN first = 1..n
  BY <1>4, LenProperties
<1> HIDE DEF first, n
<1>6. \A i \in 1..n : UnitsIn(first, p)[i] \in Int
                      /\ UnitsIn(first, p)[i] = UnitsIn(cart[s], p)[i]
  <2>1. \A i \in 1..n : UnitsIn(cart[s], p)[i] \in Nat
    BY <1>3, LinesCount
  <2>2. \A i \in 1..n : UnitsIn(first, p)[i] = UnitsIn(cart[s], p)[i]
    BY <1>3, <1>4, <1>5 DEF UnitsIn
  <2> QED BY <2>1, <2>2
<1>7. InCart(first, p) = SumOn(UnitsIn(cart[s], p), 1..n)
  <2>1. IsFiniteSet(1..n)
    BY <1>3, LinesCount
  <2>2. SumOn(UnitsIn(first, p), 1..n) = SumOn(UnitsIn(cart[s], p), 1..n)
    BY <1>6, <2>1, SumAgree
  <2> QED BY <1>5, <2>2 DEF InCart
<1> QED BY <1>1, <1>2, <1>3, <1>7 DEF first, n

\* What a sale that nobody deletes holds: the lines it took.
LEMMA Undisturbed ==
  ASSUME SalesInv, NEW s \in Buyers, Finders(s) = {}, NEW p, NEW b
  PROVE  Held(p, b)[s] = IF place[s] = b THEN InCart(FirstLines(s), p) ELSE 0
<1>1. TypeOK
  BY DEF SalesInv
<1>2. Away(s) = 1..taken[s]
  BY <1>1, Lines DEF Away, TypeOK
<1> QED BY <1>1, <1>2, CartCount DEF Held

\* A sale that was saved took every line of its cart.
LEMMA SavedTookAll ==
  ASSUME SalesInv, NEW s \in saved, NEW p
  PROVE  /\ s \in Buyers /\ taken[s] = Len(cart[s])
         /\ InCart(FirstLines(s), p) = InCart(cart[s], p)
<1>1. TypeOK /\ s \in Buyers /\ taken[s] = Len(cart[s])
  BY DEF SalesInv, BuyerOK, TypeOK
<1>2. 1..taken[s] = DOMAIN cart[s]
  BY <1>1, Lines
<1> QED BY <1>1, <1>2, CartCount

\* NeverOversold: the sales that stand hold different lines of what was there.
THEOREM NeverOversoldHolds == Spec => []NeverOversold
<1>1. SalesInv => NeverOversold
  <2> SUFFICES ASSUME SalesInv, ~ Contested, ~ Broken,
                      NEW p \in Products, NEW b \in Branches
               PROVE  Sold(Standing, p, b) <= Opening[p][b]
    BY DEF NeverOversold
  <2>1. TypeOK
    BY DEF SalesInv
  <2> DEFINE sold == [s \in Standing |-> IF place[s] = b THEN InCart(cart[s], p) ELSE 0]
  <2>2. Standing \in SUBSET Buyers /\ IsFiniteSet(Standing)
    BY <2>1, SalesAssumption, FS_Subset DEF Standing, TypeOK
  <2>3. Held(p, b) \in [Buyers -> Nat] /\ SumOn(Held(p, b), Buyers) \in Nat
    BY <2>1, HeldIsNat
  <2>4. ASSUME NEW s \in Standing
        PROVE  sold[s] \in Int /\ sold[s] = Held(p, b)[s]
    <3>1. s \in saved /\ s \in Buyers /\ Finders(s) = {}
      BY <2>2 DEF Standing
    <3>2. InCart(cart[s], p) \in Nat
      BY <2>1, <3>1, CartCount
    <3>3. Held(p, b)[s] = IF place[s] = b THEN InCart(cart[s], p) ELSE 0
      BY <3>1, Undisturbed, SavedTookAll
    <3> QED BY <3>2, <3>3
  <2>5. Sold(Standing, p, b) = SumOn(Held(p, b), Standing)
    <3> HIDE DEF sold
    <3>1. SumOn(sold, Standing) = SumOn(Held(p, b), Standing)
      BY <2>2, <2>4, SumAgree
    <3> QED BY <3>1 DEF sold, Sold
  <2>6. SumOn(Held(p, b), Standing) <= SumOn(Held(p, b), Buyers)
    BY <2>2, <2>3, SalesAssumption, SumWithin
  <2>7. SumOn(Held(p, b), Standing) \in Int
    BY <2>2, <2>3, SumIsInt
  <2>8. /\ units[p][b] \in Nat /\ Opening[p][b] \in Nat
        /\ units[p][b] + SumOn(Held(p, b), Buyers) = Opening[p][b]
    BY <2>1, SalesAssumption DEF SalesInv, Books, TypeOK
  <2> QED BY <2>3, <2>5, <2>6, <2>7, <2>8
<1> QED BY <1>1, SalesInvariant, PTL

\* When nothing is under way, a line that is away is a sale's, or a failed
\* sale's that keeps it.
LEMMA AwayIsSoldOrKept ==
  ASSUME SalesInv, Quiet, ~ Contested, ~ Broken, NEW s \in Buyers, NEW p, NEW b
  PROVE  LET lines == IF place[s] = b THEN InCart(FirstLines(s), p) ELSE 0
         IN  Held(p, b)[s] =
               IF s \in saved THEN IF place[s] = b THEN InCart(cart[s], p) ELSE 0
               ELSE IF pc[s] = "failed" /\ Finders(s) = {} THEN lines ELSE 0
<1>1. TypeOK
  BY DEF SalesInv
<1>2. ASSUME NEW d \in Finders(s)
      PROVE  s \notin saved /\ Held(p, b)[s] = 0
  <2>1. d \in Removals /\ victim[d] = s /\ rpc[d] = "removed"
    BY <1>1, <1>2 DEF Finders, Quiet, Broken, TypeOK
  <2>2. s \notin saved /\ returned[d] = Len(cart[s])
    BY <2>1 DEF SalesInv, RemovalOK
  <2>3. Away(s) = {}
    BY <1>1, <1>2, <2>2, Lines DEF Away
  <2>4. SumOn(UnitsIn(cart[s], p), Away(s)) = 0
    BY <2>3, SumEmpty
  <2> QED BY <2>2, <2>4 DEF Held
<1>3. ASSUME Finders(s) = {}, s \notin saved, pc[s] # "failed"
      PROVE  Held(p, b)[s] = 0
  <2>1. taken[s] = 0
    BY <1>1, <1>3 DEF SalesInv, BuyerOK, Quiet, TypeOK
  <2>2. Away(s) = {}
    BY <1>1, <2>1, Lines DEF Away
  <2>3. SumOn(UnitsIn(cart[s], p), Away(s)) = 0
    BY <2>2, SumEmpty
  <2> QED BY <2>3 DEF Held
<1>4. Finders(s) = {} =>
        Held(p, b)[s] = IF place[s] = b THEN InCart(FirstLines(s), p) ELSE 0
  BY Undisturbed
<1>5. s \in saved => InCart(FirstLines(s), p) = InCart(cart[s], p)
  BY SavedTookAll
<1> QED BY <1>2, <1>3, <1>4, <1>5

\* BalancedUnlessContested: shelf, sales and what failed sales keep are all
\* there is.
THEOREM BalancedUnlessContestedHolds == Spec => []BalancedUnlessContested
<1>1. SalesInv => BalancedUnlessContested
  <2> SUFFICES ASSUME SalesInv, Quiet, ~ Contested, ~ Broken,
                      NEW p \in Products, NEW b \in Branches
               PROVE  units[p][b] + Sold(saved, p, b) + Kept(p, b) = Opening[p][b]
    BY DEF BalancedUnlessContested, Balanced
  <2>1. TypeOK
    BY DEF SalesInv
  <2> DEFINE sold == [s \in saved |-> IF place[s] = b THEN InCart(cart[s], p) ELSE 0]
             there == [s \in Buyers |-> IF s \in saved THEN sold[s] ELSE 0]
             kept == [s \in Buyers |->
                        IF pc[s] = "failed" /\ s \notin saved /\ Finders(s) = {}
                           /\ place[s] = b
                        THEN InCart(FirstLines(s), p) ELSE 0]
  <2>2. saved \in SUBSET Buyers /\ IsFiniteSet(saved)
    BY <2>1, SalesAssumption, FS_Subset DEF TypeOK
  <2>3. ASSUME NEW s \in Buyers
        PROVE  /\ there[s] \in Int /\ kept[s] \in Int
               /\ Held(p, b)[s] = there[s] + kept[s]
               /\ s \in saved => sold[s] \in Int /\ sold[s] = there[s]
    <3>1. InCart(cart[s], p) \in Nat
      BY <2>1, CartCount
    <3>2. InCart(FirstLines(s), p) \in Nat
      BY <2>1, CartCount, LinesCount
    <3>3. Held(p, b)[s] =
            IF s \in saved THEN IF place[s] = b THEN InCart(cart[s], p) ELSE 0
            ELSE IF pc[s] = "failed" /\ Finders(s) = {}
                 THEN IF place[s] = b THEN InCart(FirstLines(s), p) ELSE 0
                 ELSE 0
      BY AwayIsSoldOrKept
    <3> QED BY <3>1, <3>2, <3>3
  <2>4. \A s \in Buyers \ saved : there[s] = 0
    OBVIOUS
  <2>5. Sold(saved, p, b) = SumOn(sold, saved) /\ Kept(p, b) = SumOn(kept, Buyers)
    BY DEF Sold, Kept
  <2> HIDE DEF sold, there, kept
  <2>6. SumOn(sold, saved) = SumOn(there, saved)
    BY <2>2, <2>3, SumAgree
  <2>7. SumOn(there, saved) = SumOn(there, Buyers)
    BY <2>2, <2>3, <2>4, SalesAssumption, SumOutside
  <2>8. SumOn(Held(p, b), Buyers) = SumOn(there, Buyers) + SumOn(kept, Buyers)
    BY <2>3, SalesAssumption, SumPlus
  <2>9. SumOn(there, Buyers) \in Int /\ SumOn(kept, Buyers) \in Int
    BY <2>3, SalesAssumption, SumIsInt
  <2>10. /\ units[p][b] \in Nat
         /\ units[p][b] + SumOn(Held(p, b), Buyers) = Opening[p][b]
    BY <2>1 DEF SalesInv, Books, TypeOK
  <2> QED BY <2>5, <2>6, <2>7, <2>8, <2>9, <2>10
<1> QED BY <1>1, SalesInvariant, PTL
=============================================================================
