----------------------------- MODULE CartsProofs -----------------------------
(***************************************************************************)
(* That CartsInv is an invariant of Carts, for any catalogue, any number   *)
(* of calls and whatever they ask, and that the properties of the carts    *)
(* follow.  The heart of it is OrdersCovered: what a cart may come to      *)
(* hold, once everybody who holds it has written, never grows by more than *)
(* is asked for, and an order takes what it buys out of it.                *)
(***************************************************************************)
EXTENDS Carts, SumTheorems, SequenceTheorems, TLAPS

(* Finite sets of numbers *)

\* A finite set of numbers has a least and a greatest one.
LEMMA Extremes ==
  ASSUME NEW S, IsFiniteSet(S), S # {}, S \subseteq Int
  PROVE  /\ \E m \in S : \A x \in S : m <= x
         /\ \E m \in S : \A x \in S : x <= m
<1> DEFINE Low(T)  == \E m \in T : \A x \in T : m <= x
           High(T) == \E m \in T : \A x \in T : x <= m
           Bad == {T \in SUBSET S : T # {} /\ ~ (Low(T) /\ High(T))}
<1> SUFFICES ASSUME Bad # {} PROVE FALSE
  OBVIOUS
<1> HIDE DEF Bad
<1>1. PICK T \in Bad : T # {} => /\ Pick(T) \in T
                                /\ T \ {Pick(T)} \in (SUBSET S) \ Bad
  <2>1. Bad \in SUBSET (SUBSET S)
    BY DEF Bad
  <2>2. QED
    BY <2>1, MinimalSet
<1> USE DEF Bad
<1>2. PICK k \in T : T \ {k} \in (SUBSET S) \ Bad
  BY <1>1
<1>3. CASE T = {k}
  BY <1>1, <1>3
<1>4. CASE T # {k}
  <2>1. Low(T \ {k}) /\ High(T \ {k}) /\ T \subseteq Int
    BY <1>1, <1>2, <1>4
  <2>2. Low(T)
    <3>1. PICK m \in T \ {k} : \A x \in T \ {k} : m <= x
      BY <2>1
    <3>2. m <= k \/ k <= m
      BY <1>2, <2>1
    <3>3. QED
      BY <1>2, <2>1, <3>1, <3>2
  <2>3. High(T)
    <3>1. PICK m \in T \ {k} : \A x \in T \ {k} : x <= m
      BY <2>1
    <3>2. m <= k \/ k <= m
      BY <1>2, <2>1
    <3>3. QED
      BY <1>2, <2>1, <3>1, <3>2
  <2>4. QED
    BY <1>1, <2>2, <2>3
<1>5. QED
  BY <1>3, <1>4

\* Most is the greatest.
LEMMA MostIs ==
  ASSUME NEW S, IsFiniteSet(S), S # {}, S \subseteq Nat
  PROVE  Most(S) \in S /\ Most(S) \in Nat /\ \A x \in S : x <= Most(S)
<1>1. S \subseteq Int
  OBVIOUS
<1>2. \E m \in S : \A x \in S : x <= m
  BY <1>1, Extremes
<1>3. QED
  BY <1>2 DEF Most

\* What a function makes of a finite set is finite.
LEMMA ImageFinite ==
  ASSUME NEW S, IsFiniteSet(S), NEW f
  PROVE  IsFiniteSet({f[x] : x \in S})
<1> DEFINE g == [x \in S |-> f[x]]
           T == {f[x] : x \in S}
<1>1. g \in Surjection(S, T)
  BY DEF Surjection
<1>2. QED
  BY <1>1, FS_Surjection

(* Rows *)

\* What rows are, and that what they come to is a number.
LEMMA RowsAre ==
  ASSUME NEW items \in Seq(Row)
  PROVE  /\ Len(items) \in Nat /\ DOMAIN items = 1..Len(items)
         /\ IsFiniteSet(DOMAIN items)
         /\ \A i \in DOMAIN items : /\ items[i] \in Row
                                    /\ items[i].product \in Products \cup {Gone}
                                    /\ items[i].quantity \in Nat
<1>1. Len(items) \in Nat /\ DOMAIN items = 1..Len(items)
  BY LenProperties
<1>2. IsFiniteSet(DOMAIN items)
  BY <1>1, FS_Interval
<1>3. \A i \in DOMAIN items : items[i] \in Row
  BY <1>1, ElementOfSeq
<1>4. QED
  BY <1>1, <1>2, <1>3 DEF Row

LEMMA RowsComeTo ==
  ASSUME NEW items \in Seq(Row)
  PROVE  /\ Units(items) \in Nat
         /\ \A i \in DOMAIN items : Quantity(items)[i] = items[i].quantity
         /\ \A p : /\ InCart(items, p) \in Nat
                   /\ \A i \in DOMAIN items :
                        /\ QuantityOf(items, p)[i] \in Nat
                        /\ QuantityOf(items, p)[i] =
                             IF items[i].product = p THEN items[i].quantity ELSE 0
<1>1. \A i \in DOMAIN items : Quantity(items)[i] = items[i].quantity
  BY DEF Quantity
<1>2. Units(items) \in Nat
  <2>1. \A i \in DOMAIN items : Quantity(items)[i] \in Nat
    BY <1>1, RowsAre
  <2>2. QED
    BY <2>1, RowsAre, SumIsNat DEF Units
<1>3. ASSUME NEW p
      PROVE  /\ InCart(items, p) \in Nat
             /\ \A i \in DOMAIN items :
                  /\ QuantityOf(items, p)[i] \in Nat
                  /\ QuantityOf(items, p)[i] =
                       IF items[i].product = p THEN items[i].quantity ELSE 0
  <2>1. \A i \in DOMAIN items :
          /\ QuantityOf(items, p)[i] \in Nat
          /\ QuantityOf(items, p)[i] =
               IF items[i].product = p THEN items[i].quantity ELSE 0
    BY RowsAre DEF QuantityOf
  <2>2. QED
    BY <2>1, RowsAre, SumIsNat DEF InCart
<1>4. QED
  BY <1>1, <1>2, <1>3

\* No rows come to nothing.
LEMMA NoRows ==
  /\ << >> \in Seq(Row) /\ DOMAIN << >> = {}
  /\ Units(<< >>) = 0 /\ \A p : InCart(<< >>, p) = 0
<1>1. << >> \in Seq(Row) /\ DOMAIN << >> = {}
  BY EmptySeq
<1>2. QED
  BY <1>1, SumEmpty DEF Units, InCart

\* One row comes to at most as much as all.
LEMMA RowWithin ==
  ASSUME NEW items \in Seq(Row), NEW i \in DOMAIN items
  PROVE  items[i].quantity <= Units(items)
<1>1. /\ IsFiniteSet(DOMAIN items)
      /\ \A j \in DOMAIN items : Quantity(items)[j] \in Nat
      /\ Quantity(items)[i] = items[i].quantity
  BY RowsAre, RowsComeTo
<1>2. Units(items) = Quantity(items)[i] + SumOn(Quantity(items), DOMAIN items \ {i})
  BY <1>1, SumRemove DEF Units
<1>3. SumOn(Quantity(items), DOMAIN items \ {i}) \in Nat
  <2>1. IsFiniteSet(DOMAIN items \ {i})
    BY <1>1, FS_RemoveElement
  <2>2. QED
    BY <1>1, <2>1, SumIsNat
<1>4. QED
  BY <1>1, <1>2, <1>3, RowsAre

\* A product that has one row has in the cart what is in that row, and one that
\* has none has nothing.
LEMMA OneRow ==
  ASSUME NEW items \in Seq(Row), NEW p,
         \A i, j \in DOMAIN items : items[i].product = items[j].product => i = j
  PROVE  /\ \A i \in DOMAIN items :
              items[i].product = p => InCart(items, p) = items[i].quantity
         /\ (\A i \in DOMAIN items : items[i].product # p) => InCart(items, p) = 0
<1>1. /\ IsFiniteSet(DOMAIN items)
      /\ \A i \in DOMAIN items :
           /\ QuantityOf(items, p)[i] \in Nat
           /\ QuantityOf(items, p)[i] =
                IF items[i].product = p THEN items[i].quantity ELSE 0
  BY RowsAre, RowsComeTo
<1>2. ASSUME NEW i \in DOMAIN items, items[i].product = p
      PROVE  InCart(items, p) = items[i].quantity
  <2>1. InCart(items, p) = QuantityOf(items, p)[i]
                           + SumOn(QuantityOf(items, p), DOMAIN items \ {i})
    BY <1>1, SumRemove DEF InCart
  <2>2. \A j \in DOMAIN items \ {i} : QuantityOf(items, p)[j] = 0
    BY <1>1, <1>2
  <2>3. SumOn(QuantityOf(items, p), DOMAIN items \ {i}) = 0
    BY <1>1, <2>2, FS_RemoveElement, SumZero
  <2>4. QED
    BY <1>1, <1>2, <2>1, <2>3
<1>3. ASSUME \A i \in DOMAIN items : items[i].product # p
      PROVE  InCart(items, p) = 0
  <2>1. \A i \in DOMAIN items : QuantityOf(items, p)[i] = 0
    BY <1>1, <1>3
  <2>2. QED
    BY <1>1, <2>1, SumZero DEF InCart
<1>4. QED
  BY <1>2, <1>3

\* items.find finds a row of the product when there is one.
LEMMA FindFinds ==
  ASSUME NEW items \in Seq(Row), NEW p
  PROVE  \/ /\ Find(items, p) \in DOMAIN items
            /\ Find(items, p) # 0
            /\ items[Find(items, p)].product = p
         \/ /\ Find(items, p) = 0
            /\ \A i \in DOMAIN items : items[i].product # p
<1> DEFINE rows == {i \in DOMAIN items : items[i].product = p}
<1>1. CASE rows = {}
  BY <1>1 DEF Find
<1>2. CASE rows # {}
  <2>1. DOMAIN items = 1..Len(items) /\ Len(items) \in Nat
    BY RowsAre
  <2>2. IsFiniteSet(rows) /\ rows \subseteq Int
    BY <2>1, RowsAre, FS_Subset
  <2>3. PICK m \in rows : \A j \in rows : m <= j
    BY <1>2, <2>2, Extremes
  <2>4. Find(items, p) = CHOOSE i \in rows : \A j \in rows : i <= j
    BY <1>2 DEF Find
  <2>5. Find(items, p) \in rows
    BY <2>3, <2>4
  <2>6. QED
    BY <2>1, <2>5
<1>3. QED
  BY <1>1, <1>2

\* A quantity written by position leaves rows, some without product if the
\* position was gone.
LEMMA SetAnywhere ==
  ASSUME NEW items \in Seq(Row), NEW i \in Nat \ {0}, NEW q \in Nat
  PROVE  SetQuantity(items, i, q) \in Seq(Row)
<1> DEFINE n == IF i > Len(items) THEN i ELSE Len(items)
           row(j) == [product  |-> IF j \in DOMAIN items THEN items[j].product ELSE Gone,
                      quantity |-> IF j = i THEN q
                                   ELSE IF j \in DOMAIN items THEN items[j].quantity
                                   ELSE 0]
<1>1. n \in Nat
  BY RowsAre
<1>2. \A j \in 1..n : row(j) \in Row
  BY RowsAre DEF Row
<1>3. [j \in 1..n |-> row(j)] \in [1..n -> Row]
  BY <1>2
<1>4. SetQuantity(items, i, q) = [j \in 1..n |-> row(j)]
  BY DEF SetQuantity
<1> HIDE DEF n, row
<1>5. QED
  BY <1>1, <1>3, <1>4, SeqDef

\* Rows that differ in one quantity.
LEMMA OneRowDiffers ==
  ASSUME NEW items \in Seq(Row), NEW new \in Seq(Row), DOMAIN new = DOMAIN items,
         NEW i \in DOMAIN items,
         \A j \in DOMAIN items :
           /\ new[j].product = items[j].product
           /\ j # i => new[j].quantity = items[j].quantity
  PROVE  /\ Units(new) = Units(items) + (new[i].quantity - items[i].quantity)
         /\ \A p : InCart(new, p) =
                     InCart(items, p) + IF items[i].product = p
                                        THEN new[i].quantity - items[i].quantity ELSE 0
<1>1. /\ IsFiniteSet(DOMAIN items)
      /\ \A j \in DOMAIN items : items[j].quantity \in Nat /\ new[j].quantity \in Nat
  BY RowsAre
<1>2. Units(new) = Units(items) + (new[i].quantity - items[i].quantity)
  <2> DEFINE f == Quantity(items)
             h == Quantity(new)
  <2>1. \A j \in DOMAIN items : f[j] = items[j].quantity /\ h[j] = new[j].quantity
    BY RowsComeTo
  <2>2. Units(items) = SumOn(f, DOMAIN items) /\ Units(new) = SumOn(h, DOMAIN items)
    BY DEF Units
  <2> HIDE DEF f, h
  <2>3. \A j \in DOMAIN items : f[j] \in Int /\ h[j] \in Int
    BY <1>1, <2>1
  <2>4. \A j \in DOMAIN items \ {i} : h[j] = f[j]
    BY <2>1
  <2>5. SumOn(h, DOMAIN items) = SumOn(f, DOMAIN items) + (h[i] - f[i])
    <3>1. SumOn(f, DOMAIN items) = f[i] + SumOn(f, DOMAIN items \ {i})
      BY <1>1, <2>3, SumRemove
    <3>2. SumOn(h, DOMAIN items) = h[i] + SumOn(h, DOMAIN items \ {i})
      BY <1>1, <2>3, SumRemove
    <3>3. IsFiniteSet(DOMAIN items \ {i})
      BY <1>1, FS_RemoveElement
    <3>4. /\ SumOn(f, DOMAIN items \ {i}) = SumOn(h, DOMAIN items \ {i})
          /\ SumOn(f, DOMAIN items \ {i}) \in Int
      BY <2>3, <2>4, <3>3, SumAgree, SumIsInt
    <3>5. QED
      BY <2>3, <3>1, <3>2, <3>4
  <2>6. QED
    BY <2>1, <2>2, <2>5
<1>3. ASSUME NEW p
      PROVE  InCart(new, p) =
               InCart(items, p) + IF items[i].product = p
                                  THEN new[i].quantity - items[i].quantity ELSE 0
  <2> DEFINE f == QuantityOf(items, p)
             h == QuantityOf(new, p)
  <2>1. \A j \in DOMAIN items :
          /\ f[j] = IF items[j].product = p THEN items[j].quantity ELSE 0
          /\ h[j] = IF items[j].product = p THEN new[j].quantity ELSE 0
    BY RowsComeTo
  <2>2. InCart(items, p) = SumOn(f, DOMAIN items)
          /\ InCart(new, p) = SumOn(h, DOMAIN items)
    BY DEF InCart
  <2> HIDE DEF f, h
  <2>3. \A j \in DOMAIN items : f[j] \in Int /\ h[j] \in Int
    BY <1>1, <2>1
  <2>4. \A j \in DOMAIN items \ {i} : h[j] = f[j]
    BY <2>1
  <2>5. SumOn(h, DOMAIN items) = SumOn(f, DOMAIN items) + (h[i] - f[i])
    <3>1. SumOn(f, DOMAIN items) = f[i] + SumOn(f, DOMAIN items \ {i})
      BY <1>1, <2>3, SumRemove
    <3>2. SumOn(h, DOMAIN items) = h[i] + SumOn(h, DOMAIN items \ {i})
      BY <1>1, <2>3, SumRemove
    <3>3. IsFiniteSet(DOMAIN items \ {i})
      BY <1>1, FS_RemoveElement
    <3>4. /\ SumOn(f, DOMAIN items \ {i}) = SumOn(h, DOMAIN items \ {i})
          /\ SumOn(f, DOMAIN items \ {i}) \in Int
      BY <2>3, <2>4, <3>3, SumAgree, SumIsInt
    <3>5. QED
      BY <2>3, <3>1, <3>2, <3>4
  <2>6. InCart(items, p) \in Nat
    BY RowsComeTo
  <2>7. h[i] - f[i] = IF items[i].product = p
                      THEN new[i].quantity - items[i].quantity ELSE 0
    BY <1>1, <2>1
  <2>8. QED
    BY <2>2, <2>5, <2>6, <2>7
<1>4. QED
  BY <1>2, <1>3

\* Rows that differ in one row more.
LEMMA OneRowMore ==
  ASSUME NEW items \in Seq(Row), NEW new \in Seq(Row), NEW n,
         DOMAIN new = DOMAIN items \cup {n}, n \notin DOMAIN items,
         \A j \in DOMAIN items : new[j] = items[j]
  PROVE  /\ Units(new) = Units(items) + new[n].quantity
         /\ \A p : InCart(new, p) =
                     InCart(items, p) + IF new[n].product = p THEN new[n].quantity ELSE 0
<1>1. /\ IsFiniteSet(DOMAIN items) /\ IsFiniteSet(DOMAIN new)
      /\ n \in DOMAIN new /\ DOMAIN new \ {n} = DOMAIN items
      /\ \A j \in DOMAIN new : new[j].quantity \in Nat
  BY RowsAre
<1>2. Units(new) = Units(items) + new[n].quantity
  <2> DEFINE f == Quantity(items)
             h == Quantity(new)
  <2>1. /\ \A j \in DOMAIN items : f[j] = items[j].quantity
        /\ \A j \in DOMAIN new : h[j] = new[j].quantity
    BY RowsComeTo
  <2>2. Units(items) = SumOn(f, DOMAIN items) /\ Units(new) = SumOn(h, DOMAIN new)
    BY DEF Units
  <2> HIDE DEF f, h
  <2>3. \A j \in DOMAIN new : h[j] \in Int
    BY <1>1, <2>1
  <2>4. SumOn(h, DOMAIN new) = h[n] + SumOn(h, DOMAIN items)
    <3>1. SumOn(h, DOMAIN new) = h[n] + SumOn(h, DOMAIN new \ {n})
      BY <1>1, <2>3, SumRemove
    <3>2. QED
      BY <1>1, <3>1
  <2>5. \A j \in DOMAIN items : h[j] \in Int /\ h[j] = f[j]
    BY <1>1, <2>1, <2>3
  <2>6. SumOn(h, DOMAIN items) = SumOn(f, DOMAIN items)
    BY <1>1, <2>5, SumAgree
  <2>7. Units(items) \in Nat
    BY RowsComeTo
  <2>8. QED
    BY <1>1, <2>1, <2>2, <2>4, <2>6, <2>7
<1>3. ASSUME NEW p
      PROVE  InCart(new, p) =
               InCart(items, p) + IF new[n].product = p THEN new[n].quantity ELSE 0
  <2> DEFINE f == QuantityOf(items, p)
             h == QuantityOf(new, p)
  <2>1. /\ \A j \in DOMAIN items :
             f[j] = IF items[j].product = p THEN items[j].quantity ELSE 0
        /\ \A j \in DOMAIN new :
             h[j] = IF new[j].product = p THEN new[j].quantity ELSE 0
    BY RowsComeTo
  <2>2. InCart(items, p) = SumOn(f, DOMAIN items)
          /\ InCart(new, p) = SumOn(h, DOMAIN new)
    BY DEF InCart
  <2> HIDE DEF f, h
  <2>3. \A j \in DOMAIN new : h[j] \in Int
    BY <1>1, <2>1
  <2>4. SumOn(h, DOMAIN new) = h[n] + SumOn(h, DOMAIN items)
    <3>1. SumOn(h, DOMAIN new) = h[n] + SumOn(h, DOMAIN new \ {n})
      BY <1>1, <2>3, SumRemove
    <3>2. QED
      BY <1>1, <3>1
  <2>5. \A j \in DOMAIN items : h[j] \in Int /\ h[j] = f[j]
    BY <1>1, <2>1, <2>3
  <2>6. SumOn(h, DOMAIN items) = SumOn(f, DOMAIN items)
    BY <1>1, <2>5, SumAgree
  <2>7. InCart(items, p) \in Nat
    BY RowsComeTo
  <2>8. h[n] = IF new[n].product = p THEN new[n].quantity ELSE 0
    BY <1>1, <2>1
  <2>9. QED
    BY <1>1, <2>2, <2>4, <2>6, <2>7, <2>8
<1>4. QED
  BY <1>2, <1>3

\* Where the position is there, its quantity changes and nothing else.
LEMMA SetChanges ==
  ASSUME NEW items \in Seq(Row), NEW i \in DOMAIN items, NEW q
  PROVE  /\ DOMAIN SetQuantity(items, i, q) = DOMAIN items
         /\ \A j \in DOMAIN items :
              /\ SetQuantity(items, i, q)[j].product = items[j].product
              /\ SetQuantity(items, i, q)[j].quantity =
                   IF j = i THEN q ELSE items[j].quantity
<1>1. /\ Len(items) \in Nat /\ DOMAIN items = 1..Len(items)
      /\ i \in Nat \ {0} /\ ~ (i > Len(items))
  BY RowsAre
<1>2. QED
  BY <1>1 DEF SetQuantity

OneSet(items, i, q, new) ==
  /\ new \in Seq(Row) /\ DOMAIN new = DOMAIN items
  /\ \A j \in DOMAIN items :
       /\ new[j].product = items[j].product
       /\ new[j].quantity = IF j = i THEN q ELSE items[j].quantity
  /\ Units(new) = Units(items) + (q - items[i].quantity)
  /\ \A p : InCart(new, p) =
              InCart(items, p) + IF items[i].product = p
                                 THEN q - items[i].quantity ELSE 0

LEMMA SetInPlace ==
  ASSUME NEW items \in Seq(Row), NEW i \in DOMAIN items, NEW q \in Nat,
         NEW new, new = SetQuantity(items, i, q)
  PROVE  OneSet(items, i, q, new)
<1>1. /\ Len(items) \in Nat /\ DOMAIN items = 1..Len(items)
      /\ i \in Nat \ {0} /\ ~ (i > Len(items))
  BY RowsAre
<1>2. new \in Seq(Row)
  BY <1>1, SetAnywhere
<1>3. /\ DOMAIN new = DOMAIN items
      /\ \A j \in DOMAIN items :
           /\ new[j].product = items[j].product
           /\ new[j].quantity = IF j = i THEN q ELSE items[j].quantity
  BY SetChanges
<1>4. /\ new[i].quantity = q
      /\ \A j \in DOMAIN items : /\ new[j].product = items[j].product
                                 /\ j # i => new[j].quantity = items[j].quantity
  BY <1>3
<1>5. /\ Units(new) = Units(items) + (q - items[i].quantity)
      /\ \A p : InCart(new, p) =
                  InCart(items, p) + IF items[i].product = p
                                     THEN q - items[i].quantity ELSE 0
  BY <1>2, <1>3, <1>4, OneRowDiffers
<1>6. QED
  BY <1>2, <1>3, <1>5 DEF OneSet

\* A row that is added adds its quantity.
LEMMA AddRow ==
  ASSUME NEW items \in Seq(Row), NEW p \in Products \cup {Gone}, NEW q \in Nat
  PROVE  LET new == Append(items, [product |-> p, quantity |-> q])
             n   == Len(items) + 1
         IN  /\ new \in Seq(Row) /\ DOMAIN new = DOMAIN items \cup {n}
             /\ n \notin DOMAIN items
             /\ \A j \in DOMAIN items : new[j] = items[j]
             /\ new[n].product = p /\ new[n].quantity = q
             /\ Units(new) = Units(items) + q
             /\ \A r : InCart(new, r) = InCart(items, r) + IF r = p THEN q ELSE 0
<1> DEFINE n == Len(items) + 1
           row == [product |-> p, quantity |-> q]
           new == Append(items, row)
<1>1. Len(items) \in Nat /\ DOMAIN items = 1..Len(items)
  BY RowsAre
<1>2. row \in Row /\ row.product = p /\ row.quantity = q
  BY DEF Row
<1>3. /\ new \in Seq(Row) /\ Len(new) = Len(items) + 1
      /\ \A j \in 1..Len(items) : new[j] = items[j]
      /\ new[n] = row
  BY <1>2, AppendProperties
<1> HIDE DEF new, row
<1>4. DOMAIN new = 1..Len(new)
  BY <1>3, RowsAre
<1>5. DOMAIN new = DOMAIN items \cup {n} /\ n \notin DOMAIN items
  BY <1>1, <1>3, <1>4
<1>6. \A j \in DOMAIN items : new[j] = items[j]
  BY <1>1, <1>3
<1>7. /\ Units(new) = Units(items) + new[n].quantity
      /\ \A r : InCart(new, r) =
                  InCart(items, r) + IF new[n].product = r THEN new[n].quantity ELSE 0
  BY <1>3, <1>5, <1>6, OneRowMore
<1>8. \A r : InCart(new, r) = InCart(items, r) + IF r = p THEN q ELSE 0
  BY <1>2, <1>3, <1>7
<1>9. QED
  BY <1>2, <1>3, <1>5, <1>6, <1>7, <1>8 DEF new, row

\* Nth numbers a finite set of numbers, each once.
LEMMA NthNumbers ==
  ASSUME NEW S, IsFiniteSet(S), S \subseteq Int
  PROVE  /\ Cardinality(S) \in Nat
         /\ \A k \in 1..Cardinality(S) : Nth(S, k) \in S
         /\ \A k, l \in 1..Cardinality(S) : Nth(S, k) = Nth(S, l) => k = l
         /\ \A i \in S : \E k \in 1..Cardinality(S) : i = Nth(S, k)
<1> DEFINE n == Cardinality(S)
           before(i) == {j \in S : j < i}
           rank == [i \in S |-> Cardinality(before(i)) + 1]
<1>1. n \in Nat
  BY FS_CardinalityType
<1>2. ASSUME NEW i \in S
      PROVE  /\ IsFiniteSet(before(i)) /\ Cardinality(before(i)) \in Nat
             /\ Cardinality(before(i)) < n
  <2>1. before(i) \in SUBSET S /\ before(i) # S
    OBVIOUS
  <2>2. IsFiniteSet(before(i)) /\ Cardinality(before(i)) <= n
        /\ Cardinality(before(i)) # n
    BY <2>1, FS_Subset
  <2>3. Cardinality(before(i)) \in Nat
    BY <2>2, FS_CardinalityType
  <2>4. QED
    BY <1>1, <2>2, <2>3
<1>3. ASSUME NEW i \in S, NEW j \in S, i < j
      PROVE  Cardinality(before(i)) < Cardinality(before(j))
  <2>1. before(i) \in SUBSET before(j) /\ before(i) # before(j)
    <3>1. i \in before(j) /\ i \notin before(i)
      BY <1>3
    <3>2. ASSUME NEW k \in before(i) PROVE k \in before(j)
      BY <1>3, <3>2
    <3>3. QED
      BY <3>1, <3>2
  <2>2. /\ IsFiniteSet(before(j))
        /\ Cardinality(before(i)) \in Nat /\ Cardinality(before(j)) \in Nat
    BY <1>2
  <2> HIDE DEF before
  <2>3. /\ Cardinality(before(i)) <= Cardinality(before(j))
        /\ Cardinality(before(i)) # Cardinality(before(j))
    BY <2>1, <2>2, FS_Subset
  <2>4. QED
    BY <2>2, <2>3
<1> HIDE DEF before
<1>4. rank \in Injection(S, 1..n)
  <2>1. \A i \in S : rank[i] \in 1..n
    BY <1>1, <1>2
  <2>2. \A i, j \in S : rank[i] = rank[j] => i = j
    <3>1. SUFFICES ASSUME NEW i \in S, NEW j \in S, i < j PROVE rank[i] # rank[j]
      OBVIOUS
    <3>2. Cardinality(before(i)) < Cardinality(before(j))
      BY <1>3, <3>1
    <3>3. QED
      BY <1>2, <3>2
  <2>3. QED
    BY <2>1, <2>2 DEF Injection, IsInjective
<1>5. \A k \in 1..n : \E i \in S : rank[i] = k
  <2>1. IsFiniteSet(1..n) /\ Cardinality(1..n) = n
    BY <1>1, FS_Interval
  <2>2. rank \in Surjection(S, 1..n)
    BY <1>4, <2>1, FS_Injection
  <2>3. QED
    BY <2>2 DEF Surjection
<1>6. ASSUME NEW k \in 1..n
      PROVE  Nth(S, k) \in S /\ rank[Nth(S, k)] = k
  <2>1. PICK i \in S : rank[i] = k
    BY <1>5
  <2>2. Cardinality(before(i)) = k - 1
    BY <1>2, <2>1
  <2>3. Nth(S, k) \in S /\ Cardinality(before(Nth(S, k))) = k - 1
    BY <2>2 DEF Nth, before
  <2>4. QED
    BY <1>2, <2>3
<1>7. ASSUME NEW i \in S PROVE \E k \in 1..n : i = Nth(S, k)
  <2>1. rank[i] \in 1..n
    BY <1>1, <1>2
  <2>2. Nth(S, rank[i]) \in S /\ rank[Nth(S, rank[i])] = rank[i]
    BY <1>6, <2>1
  <2>3. QED
    BY <1>4, <2>1, <2>2 DEF Injection, IsInjective
<1>8. QED
  BY <1>1, <1>6, <1>7

\* The filter takes the product out and leaves the rest.
LEMMA WithoutIs ==
  ASSUME NEW items \in Seq(Row), NEW p
  PROVE  LET rest == Without(items, p)
         IN  /\ rest \in Seq(Row)
             /\ \A k \in DOMAIN rest : \E i \in DOMAIN items : rest[k] = items[i]
             /\ (\A i, j \in DOMAIN items : items[i].product = items[j].product => i = j)
                => \A k, l \in DOMAIN rest : rest[k].product = rest[l].product => k = l
             /\ \A r : InCart(rest, r) = IF r = p THEN 0 ELSE InCart(items, r)
<1> DEFINE others == {i \in DOMAIN items : items[i].product # p}
           n == Cardinality(others)
           at == [k \in 1..n |-> Nth(others, k)]
           rest == Without(items, p)
<1>1. others \in SUBSET DOMAIN items /\ others \subseteq Int
  BY RowsAre
<1>2. IsFiniteSet(others)
  BY <1>1, RowsAre, FS_Subset
<1>3. /\ n \in Nat
      /\ \A k \in 1..n : at[k] \in others
      /\ \A k, l \in 1..n : at[k] = at[l] => k = l
      /\ \A i \in others : \E k \in 1..n : i = at[k]
  BY <1>1, <1>2, NthNumbers
<1>4. rest = [k \in 1..n |-> items[at[k]]]
  BY DEF Without
<1>5. /\ rest \in Seq(Row) /\ DOMAIN rest = 1..n
      /\ \A k \in 1..n : rest[k] = items[at[k]] /\ at[k] \in DOMAIN items
  <2>1. \A k \in 1..n : items[at[k]] \in Row /\ at[k] \in DOMAIN items
    BY <1>3, RowsAre
  <2>2. rest \in [1..n -> Row]
    BY <1>4, <2>1
  <2>3. rest \in Seq(Row)
    BY <1>3, <2>2, SeqDef
  <2>4. QED
    BY <1>4, <2>1, <2>3
<1> HIDE DEF at, rest, n
<1>6. (\A i, j \in DOMAIN items : items[i].product = items[j].product => i = j)
      => \A k, l \in DOMAIN rest : rest[k].product = rest[l].product => k = l
  BY <1>3, <1>5
<1>7. ASSUME NEW r
      PROVE  InCart(rest, r) = IF r = p THEN 0 ELSE InCart(items, r)
  <2> DEFINE f == QuantityOf(items, r)
             h == QuantityOf(rest, r)
  <2>1. /\ \A i \in DOMAIN items :
             /\ f[i] \in Nat
             /\ f[i] = IF items[i].product = r THEN items[i].quantity ELSE 0
        /\ \A k \in 1..n :
             /\ rest[k] = items[at[k]] /\ rest[k].product # p
             /\ h[k] = IF rest[k].product = r THEN rest[k].quantity ELSE 0
    <3>1. \A i \in DOMAIN items :
             /\ f[i] \in Nat
             /\ f[i] = IF items[i].product = r THEN items[i].quantity ELSE 0
      BY RowsComeTo
    <3>2. \A k \in DOMAIN rest :
            h[k] = IF rest[k].product = r THEN rest[k].quantity ELSE 0
      BY <1>5 DEF QuantityOf
    <3>3. QED
      BY <1>3, <1>5, <3>1, <3>2
  <2>2. InCart(items, r) = SumOn(f, DOMAIN items) /\ InCart(rest, r) = SumOn(h, 1..n)
    BY <1>5 DEF InCart
  <2> HIDE DEF f, h
  <2>3. IsFiniteSet(1..n)
    BY <1>3, FS_Interval
  <2>4. CASE r = p
    <3>1. \A k \in 1..n : h[k] = 0
      BY <2>1, <2>4
    <3>2. QED
      BY <2>2, <2>3, <2>4, <3>1, SumZero
  <2>5. CASE r # p
    <3>1. \A k \in 1..n : at[k] \in others /\ h[k] = f[at[k]]
      BY <1>3, <2>1
    <3>2. \A i \in others : f[i] \in Int
      BY <1>1, <2>1
    <3> HIDE DEF others
    <3>3. SumOn(h, 1..n) = SumOn(f, others)
      <4>1. PICK T : T = 1..n
        OBVIOUS
      <4>2. /\ IsFiniteSet(T) /\ \A k \in T : at[k] \in others /\ h[k] = f[at[k]]
            /\ \A k, l \in T : at[k] = at[l] => k = l
            /\ \A i \in others : \E k \in T : i = at[k]
        BY <1>3, <2>3, <3>1, <4>1
      <4>3. SumOn(h, T) = SumOn(f, others)
        BY <1>2, <3>2, <4>2, SumRenamed
      <4>4. QED
        BY <4>1, <4>3
    <3> USE DEF others
    <3>4. \A i \in DOMAIN items \ others : f[i] = 0
      BY <2>1, <2>5
    <3>5. \A i \in DOMAIN items : f[i] \in Int
      BY <2>1
    <3>6. IsFiniteSet(DOMAIN items)
      BY RowsAre
    <3> HIDE DEF others
    <3>7. SumOn(f, others) = SumOn(f, DOMAIN items)
      BY <1>1, <3>4, <3>5, <3>6, SumOutside
    <3>8. QED
      BY <2>2, <2>5, <3>3, <3>7
  <2>6. QED
    BY <2>4, <2>5
<1>8. \A k \in DOMAIN rest : \E i \in DOMAIN items : rest[k] = items[i]
  BY <1>5
<1>9. QED
  BY <1>5, <1>6, <1>7, <1>8 DEF rest

\* The rows of earlier calls: one of each product, different products.
LEMMA RowsOfList ==
  ASSUME NEW list \in Earlier
  PROVE  /\ Rows(list) \in Seq(Row) /\ Units(Rows(list)) = Len(list)
         /\ Len(list) \in Nat /\ ~ Broken(Rows(list))
         /\ \A i, j \in DOMAIN Rows(list) :
              Rows(list)[i].product = Rows(list)[j].product => i = j
<1>1. list \in Seq(Products) /\ \A i, j \in DOMAIN list : list[i] = list[j] => i = j
  BY CartsAssumption
<1>2. /\ Len(list) \in Nat /\ DOMAIN list = 1..Len(list)
      /\ \A i \in DOMAIN list : list[i] \in Products
  BY <1>1, LenProperties, ElementOfSeq
<1>3. Rows(list) \in [1..Len(list) -> Row]
  BY <1>2 DEF Rows, Row
<1>4. Rows(list) \in Seq(Row)
  BY <1>2, <1>3, SeqDef
<1>5. /\ DOMAIN Rows(list) = DOMAIN list
      /\ \A i \in DOMAIN list : /\ Rows(list)[i].product = list[i]
                                /\ Rows(list)[i].quantity = 1
  BY DEF Rows
<1>6. ~ Broken(Rows(list))
  BY <1>2, <1>5, CartsAssumption DEF Broken
<1>7. Units(Rows(list)) = Len(list)
  <2>1. \A i \in DOMAIN list : Quantity(Rows(list))[i] = 1
    BY <1>4, <1>5, RowsComeTo
  <2>2. IsFiniteSet(DOMAIN list) /\ Cardinality(DOMAIN list) = Len(list)
    BY <1>2, FS_Interval
  <2>3. SumOn(Quantity(Rows(list)), DOMAIN list) = Len(list)
    BY <2>1, <2>2, SumCounts
  <2>4. QED
    BY <1>5, <2>3 DEF Units
<1>8. QED
  BY <1>1, <1>2, <1>4, <1>5, <1>6, <1>7

(* Carts and calls *)

Cart == [user : BOOLEAN, session : BOOLEAN, items : Seq(Row), subtotal : Nat]
Copy == [cart : Nat, items : Seq(Row), subtotal : Nat]

\* What TypeOK says of a cart, and of a call.
LEMMA CartsAre ==
  ASSUME TypeOK
  PROVE  /\ carts \in Seq(Cart)
         /\ Len(carts) \in Nat /\ DOMAIN carts = 1..Len(carts)
         /\ IsFiniteSet(DOMAIN carts)
         /\ \A n \in DOMAIN carts : /\ carts[n] \in Cart
                                    /\ carts[n].items \in Seq(Row)
                                    /\ carts[n].subtotal \in Nat
<1>1. carts \in Seq(Cart)
  BY DEF TypeOK, Cart
<1>2. Len(carts) \in Nat /\ DOMAIN carts = 1..Len(carts)
  BY <1>1, LenProperties
<1>3. IsFiniteSet(DOMAIN carts)
  BY <1>2, FS_Interval
<1>4. \A n \in DOMAIN carts : carts[n] \in Cart
  BY <1>1, <1>2, ElementOfSeq
<1>5. QED
  BY <1>1, <1>2, <1>3, <1>4 DEF Cart

LEMMA CallsAre ==
  ASSUME TypeOK, NEW c \in Calls
  PROVE  /\ copy[c] \in Copy
         /\ copy[c].cart \in Nat /\ copy[c].items \in Seq(Row)
            /\ copy[c].subtotal \in Nat
         /\ job[c] \in Request
         /\ job[c].kind \in {"get", "add", "update", "remove", "clear", "sync", "checkout"}
         /\ job[c].by \in {"id", "user", "session", "both"}
         /\ job[c].quantity \in Nat /\ job[c].list \in Seq(Products)
         /\ job[c].kind \in {"add", "update", "remove"} => job[c].product \in Products
         /\ pc[c] \in Labels
<1>1. copy[c] \in Copy /\ job[c] \in Request /\ pc[c] \in Labels
  BY DEF TypeOK, Copy
<1>2. QED
  BY <1>1 DEF Copy, Request

\* save leaves the other carts alone.
LEMMA WrittenIs ==
  ASSUME TypeOK, NEW n \in DOMAIN carts, NEW items \in Seq(Row), NEW subtotal \in Nat,
         carts' = Written(n, items, subtotal)
  PROVE  /\ carts' \in Seq(Cart) /\ DOMAIN carts' = DOMAIN carts
         /\ carts'[n].items = items /\ carts'[n].subtotal = subtotal
         /\ \A m \in DOMAIN carts \ {n} : carts'[m] = carts[m]
<1>1. /\ carts \in Seq(Cart) /\ Len(carts) \in Nat /\ DOMAIN carts = 1..Len(carts)
      /\ carts[n] \in Cart /\ carts \in [1..Len(carts) -> Cart]
  BY CartsAre, LenProperties
<1>2. PICK cart : cart = [carts[n] EXCEPT !.items = items, !.subtotal = subtotal]
  OBVIOUS
<1>3. cart \in Cart /\ cart.items = items /\ cart.subtotal = subtotal
  BY <1>1, <1>2 DEF Cart
<1>4. carts' = [carts EXCEPT ![n] = cart]
  BY <1>2 DEF Written
<1>5. /\ carts' \in [1..Len(carts) -> Cart] /\ DOMAIN carts' = DOMAIN carts
      /\ carts'[n] = cart
      /\ \A m \in DOMAIN carts \ {n} : carts'[m] = carts[m]
  BY <1>1, <1>3, <1>4
<1>6. carts' \in Seq(Cart)
  BY <1>1, <1>5, SeqDef
<1>7. QED
  BY <1>3, <1>5, <1>6

\* What a call goes on to do with the rows it has read.
LEMMA PurposeIs ==
  ASSUME TypeOK, NEW c \in Calls, NEW items
  PROVE  LET to == Purpose(c, items)
         IN  \/ to \in {"done", "rejected"}
             \/ to = "empty" /\ job[c].kind \in {"clear", "sync"}
             \/ to = "add" /\ job[c].kind = "add" /\ ~ Broken(items)
             \/ /\ to = "sell" /\ job[c].kind = "checkout" /\ items # << >>
                /\ ~ Broken(items)
             \/ /\ to = "change" /\ job[c].kind \in {"update", "remove"}
                /\ Find(items, job[c].product) # 0 /\ ~ Broken(items)
<1>1. job[c].kind \in {"get", "add", "update", "remove", "clear", "sync", "checkout"}
  BY CallsAre
<1>2. CASE job[c].kind = "get"
  BY <1>2 DEF Purpose
<1>3. CASE job[c].kind \in {"clear", "sync"}
  BY <1>3 DEF Purpose
<1>4. CASE job[c].kind = "add"
  BY <1>4 DEF Purpose
<1>5. CASE job[c].kind = "checkout"
  BY <1>5 DEF Purpose
<1>6. CASE job[c].kind \in {"update", "remove"}
  BY <1>6 DEF Purpose
<1>7. QED
  BY <1>1, <1>2, <1>3, <1>4, <1>5, <1>6

(* Steps by which no row changes *)

\* Only call c moves.
Alone(c) ==
  \A d \in Calls \ {c} : pc'[d] = pc[d] /\ job'[d] = job[d] /\ copy'[d] = copy[d]

\* The rows stay, nothing is ordered and nothing is asked for.
RowsStay ==
  /\ DOMAIN carts' = DOMAIN carts
  /\ \A n \in DOMAIN carts : /\ carts'[n].items = carts[n].items
                             /\ carts'[n].subtotal = carts[n].subtotal
  /\ ordered' = ordered /\ basket' = basket /\ asked' = asked /\ job' = job

\* Call c holds nothing that it did not hold.  What held a sold cart to empty
\* it, and did not, has failed.
Lets(c) ==
  /\ Alone(c) /\ RowsStay /\ crossed \subseteq crossed'
  /\ Holding(c)' => /\ Holding(c) /\ copy'[c] = copy[c] /\ Effect(c)' = Effect(c)
                    /\ pc[c] # "empty"
                    /\ pc'[c] = "empty" => job[c].kind # "checkout"
  /\ pc[c] = "empty" /\ job[c].kind = "checkout" => {"store"} \in crossed'

\* Call c holds cart n from now on.
Joins(c, n) ==
  /\ Alone(c) /\ RowsStay
  /\ ~ Holding(c) /\ Holding(c)' /\ Effect(c)' = Effect(c)
  /\ pc'[c] = "empty" => job[c].kind # "checkout"
  /\ copy'[c] = [cart |-> n, items |-> carts[n].items, subtotal |-> carts[n].subtotal]
  /\ crossed' = crossed \cup
       {{Effect(c), Effect(d)} :
          d \in {e \in Calls \ {c} : Holding(e) /\ copy[e].cart = n}}

\* A call that moves alone, is at a label and holds a copy.
LEMMA MovesTo ==
  ASSUME TypeOK, NEW c \in Calls, NEW label \in Labels, Goto(c, label), job' = job,
         copy' = copy \/ \E new \in Copy : copy' = [copy EXCEPT ![c] = new]
  PROVE  /\ Alone(c) /\ pc'[c] = label
         /\ pc' \in [Calls -> Labels] /\ copy' \in [Calls -> Copy]
<1>1. pc \in [Calls -> Labels] /\ copy \in [Calls -> Copy]
  BY DEF TypeOK, Copy
<1>2. pc' \in [Calls -> Labels] /\ pc'[c] = label
        /\ \A d \in Calls \ {c} : pc'[d] = pc[d]
  BY <1>1 DEF Goto
<1>3. copy' \in [Calls -> Copy] /\ \A d \in Calls \ {c} : copy'[d] = copy[d]
  BY <1>1
<1>4. QED
  BY <1>2, <1>3 DEF Alone

LEMMA NoCopyIs == NoCopy \in Copy
  BY NoRows DEF NoCopy, Copy

\* A call ends.
LEMMA EndsAt ==
  ASSUME TypeOK, NEW c \in Calls, NEW label \in Ended, End(c, label), job' = job
  PROVE  /\ Alone(c) /\ pc'[c] = label /\ copy'[c] = NoCopy /\ ~ Holding(c)'
         /\ pc' \in [Calls -> Labels] /\ copy' \in [Calls -> Copy]
<1>1. /\ Goto(c, label) /\ copy' = [copy EXCEPT ![c] = NoCopy] /\ label \in Labels
      /\ label \in {"done", "rejected", "failed"}
  BY DEF End, Labels, Ended
<1>2. Alone(c) /\ pc'[c] = label /\ pc' \in [Calls -> Labels]
        /\ copy' \in [Calls -> Copy]
  BY <1>1, MovesTo, NoCopyIs
<1>3. copy'[c] = NoCopy
  BY <1>1 DEF TypeOK
<1>4. QED
  BY <1>1, <1>2, <1>3 DEF Holding

\* What a call does with the cart it has found.
LEMMA Takes ==
  ASSUME TypeOK, NEW c \in Calls, NEW n \in DOMAIN carts, NEW label, Take(c, n, label),
         UNCHANGED <<carts, ordered, job, basket, asked>>,
         pc[c] \in {"new", "session", "again"},
         \/ label \in {"done", "rejected"}
         \/ label = "attach" /\ pc[c] # "again"
         \/ label = "empty" /\ job[c].kind \in {"clear", "sync"} /\ pc[c] # "again"
         \/ /\ label = "add" /\ ~ Broken(carts[n].items)
            /\ \/ job[c].kind = "add"
               \/ job[c].kind = "sync" /\ job[c].list # << >> /\ pc[c] = "again"
         \/ /\ label = "sell" /\ job[c].kind = "checkout" /\ pc[c] # "again"
            /\ carts[n].items # << >> /\ ~ Broken(carts[n].items)
         \/ /\ label = "change" /\ job[c].kind \in {"update", "remove"}
               /\ pc[c] # "again"
            /\ Find(carts[n].items, job[c].product) # 0 /\ ~ Broken(carts[n].items)
  PROVE  TypeOK' /\ CallOK(c)' /\ (Lets(c) \/ Joins(c, n))
<1>1. CASE label \in {"done", "rejected"}
  <2>1. label \in Ended /\ End(c, label) /\ UNCHANGED crossed
    BY <1>1 DEF Take, Ended
  <2>2. /\ Alone(c) /\ pc'[c] = label /\ ~ Holding(c)'
        /\ pc' \in [Calls -> Labels] /\ copy' \in [Calls -> Copy]
    BY <2>1, EndsAt
  <2>3. Lets(c)
    BY <2>1, <2>2 DEF Lets, RowsStay
  <2>4. TypeOK'
    BY <2>2 DEF TypeOK, Copy
  <2>5. CallOK(c)'
    BY <1>1, <2>2 DEF CallOK
  <2>6. QED
    BY <2>3, <2>4, <2>5
<1>2. CASE label \notin {"done", "rejected"}
  <2> DEFINE new == [cart |-> n, items |-> carts[n].items, subtotal |-> carts[n].subtotal]
  <2>1. label \in {"attach", "empty", "add", "sell", "change"}
    BY <1>2
  <2>2. Hold(c, n, label) /\ label \in Labels
    BY <2>1 DEF Take, Ended, Labels
  <2>3. new \in Copy
    BY CartsAre DEF Copy
  <2>4. Goto(c, label) /\ copy' = [copy EXCEPT ![c] = new]
    BY <2>2 DEF Hold
  <2> HIDE DEF new
  <2>5. /\ Alone(c) /\ pc'[c] = label
        /\ pc' \in [Calls -> Labels] /\ copy' \in [Calls -> Copy]
    BY <2>2, <2>3, <2>4, MovesTo
  <2>6. copy'[c] = new
    BY <2>4 DEF TypeOK
  <2>7. ~ Holding(c) /\ Holding(c)' /\ (pc'[c] = "empty" => job[c].kind # "checkout")
    BY <2>1, <2>5 DEF Holding
  <2>8. Effect(c)' = Effect(c)
    BY <1>2, <2>5 DEF Effect
  <2>9. Joins(c, n)
    BY <2>2, <2>5, <2>6, <2>7, <2>8 DEF Joins, RowsStay, Hold, Cross, new
  <2>10. TypeOK'
    BY <2>5 DEF TypeOK, Copy
  <2>11. CallOK(c)'
    <3>1. /\ job'[c] = job[c] /\ carts' = carts
          /\ copy'[c].cart = n /\ copy'[c].items = carts[n].items
      BY <2>6 DEF new
    <3>2. QED
      BY <2>1, <2>5, <3>1 DEF CallOK
  <2>12. QED
    BY <2>9, <2>10, <2>11
<1>3. QED
  BY <1>1, <1>2

\* A call that looks for its cart takes one that it finds, or looks on.
LEMMA Reads ==
  ASSUME TypeOK, NEW c \in Calls, CallOK(c),
         FindByUser(c) \/ FindBySession(c) \/ FindById(c)
  PROVE  TypeOK' /\ CallOK(c)' /\ (Lets(c) \/ \E n \in DOMAIN carts : Joins(c, n))
<1>1. ASSUME NEW label \in {"session", "create"}, pc[c] \in {"new", "session"},
             Goto(c, label), UNCHANGED <<copy, crossed>>,
             UNCHANGED <<carts, ordered, job, basket, asked>>
      PROVE  TypeOK' /\ CallOK(c)' /\ Lets(c)
  <2>1. label \in Labels
    BY DEF Labels
  <2>2. Alone(c) /\ pc'[c] = label /\ pc' \in [Calls -> Labels]
    BY <1>1, <2>1, MovesTo
  <2>3. ~ Holding(c)'
    BY <2>2 DEF Holding
  <2>4. Lets(c)
    BY <1>1, <2>2, <2>3 DEF Lets, RowsStay
  <2>5. TypeOK'
    BY <1>1, <2>2 DEF TypeOK
  <2>6. CallOK(c)'
    BY <1>1, <2>2 DEF CallOK, Holding
  <2>7. QED
    BY <2>4, <2>5, <2>6
<1>2. ASSUME NEW n \in DOMAIN carts, NEW label,
             label = Purpose(c, carts[n].items), Take(c, n, label),
             pc[c] \in {"new", "session"},
             UNCHANGED <<carts, ordered, job, basket, asked>>
      PROVE  TypeOK' /\ CallOK(c)' /\ (Lets(c) \/ Joins(c, n))
  <2>1. pc[c] # "again"
    BY <1>2
  <2>2. \/ label \in {"done", "rejected"}
        \/ label = "empty" /\ job[c].kind \in {"clear", "sync"}
        \/ label = "add" /\ job[c].kind = "add" /\ ~ Broken(carts[n].items)
        \/ /\ label = "sell" /\ job[c].kind = "checkout"
           /\ carts[n].items # << >> /\ ~ Broken(carts[n].items)
        \/ /\ label = "change" /\ job[c].kind \in {"update", "remove"}
           /\ Find(carts[n].items, job[c].product) # 0 /\ ~ Broken(carts[n].items)
    BY <1>2, PurposeIs
  <2>3. QED
    BY <1>2, <2>1, <2>2, Takes
<1>3. CASE FindByUser(c)
  <2>1. /\ pc[c] = "new" /\ UNCHANGED <<carts, ordered, job, basket, asked>>
        /\ \/ \E n \in DOMAIN carts : Take(c, n, Purpose(c, carts[n].items))
           \/ /\ \E label \in {"session", "create"} : Goto(c, label)
              /\ UNCHANGED <<copy, crossed>>
    BY <1>3 DEF FindByUser
  <2>2. CASE \E n \in DOMAIN carts : Take(c, n, Purpose(c, carts[n].items))
    BY <1>2, <2>1, <2>2
  <2>3. CASE \E label \in {"session", "create"} : Goto(c, label)
          /\ UNCHANGED <<copy, crossed>>
    BY <1>1, <2>1, <2>3
  <2>4. QED
    BY <2>1, <2>2, <2>3
<1>4. CASE FindBySession(c)
  <2>1. /\ pc[c] \in {"new", "session"}
           /\ UNCHANGED <<carts, ordered, job, basket, asked>>
        /\ \/ \E n \in DOMAIN carts :
                Take(c, n, "attach") \/ Take(c, n, Purpose(c, carts[n].items))
           \/ Goto(c, "create") /\ UNCHANGED <<copy, crossed>>
    BY <1>4 DEF FindBySession
  <2>2. CASE \E n \in DOMAIN carts : Take(c, n, Purpose(c, carts[n].items))
    BY <1>2, <2>1, <2>2
  <2>3. CASE \E n \in DOMAIN carts : Take(c, n, "attach")
    BY <2>1, <2>3, Takes
  <2>4. CASE Goto(c, "create") /\ UNCHANGED <<copy, crossed>>
    BY <1>1, <2>1, <2>4
  <2>5. QED
    BY <2>1, <2>2, <2>3, <2>4
<1>5. CASE FindById(c)
  <2>1. UNCHANGED <<carts, ordered, job, basket, asked>>
    BY <1>5 DEF FindById
  <2>2. CASE pc[c] = "new"
    <3>1. \E n \in DOMAIN carts : Take(c, n, Purpose(c, carts[n].items))
      BY <1>5, <2>2 DEF FindById
    <3>2. QED
      BY <1>2, <2>1, <2>2, <3>1
  <2>3. CASE pc[c] = "again"
    <3>1. copy[c].cart \in DOMAIN carts /\ job[c].kind = "sync" /\ job[c].list # << >>
      BY <2>3 DEF CallOK
    <3>2. PICK n \in DOMAIN carts :
            Take(c, n, IF Broken(carts[n].items) THEN "rejected" ELSE "add")
      BY <1>5, <2>3, <3>1 DEF FindById
    <3>3. CASE Broken(carts[n].items)
      BY <2>1, <2>3, <3>2, <3>3, Takes
    <3>4. CASE ~ Broken(carts[n].items)
      <4>1. Take(c, n, "add")
        BY <3>2, <3>4
      <4>2. QED
        BY <2>1, <2>3, <3>1, <3>4, <4>1, Takes
    <3>5. QED
      BY <3>3, <3>4
  <2>4. QED
    BY <1>5, <2>2, <2>3 DEF FindById
<1>6. QED
  BY <1>3, <1>4, <1>5

\* A call that fails or is refused lets go of its cart; one whose cart is now its
\* user's goes on with the rows it has.
LEMMA Stops ==
  ASSUME TypeOK, NEW c \in Calls, CallOK(c),
         \/ Attach(c) \/ Refuse(c) \/ SaveFails(c)
         \/ Sell(c) /\ End(c, "rejected") /\ UNCHANGED ordered
  PROVE  TypeOK' /\ CallOK(c)' /\ Lets(c)
<1>1. ASSUME NEW label \in Ended, End(c, label),
             UNCHANGED <<ordered, job, basket, asked>>,
             crossed \subseteq crossed', carts' \in Seq(Cart),
             DOMAIN carts' = DOMAIN carts,
             \A n \in DOMAIN carts : /\ carts'[n].items = carts[n].items
                                     /\ carts'[n].subtotal = carts[n].subtotal,
             pc[c] = "empty" /\ job[c].kind = "checkout" => {"store"} \in crossed'
      PROVE  TypeOK' /\ CallOK(c)' /\ Lets(c)
  <2>1. /\ Alone(c) /\ pc'[c] = label /\ ~ Holding(c)'
        /\ pc' \in [Calls -> Labels] /\ copy' \in [Calls -> Copy]
    BY <1>1, EndsAt
  <2>2. Lets(c)
    BY <1>1, <2>1 DEF Lets, RowsStay
  <2>3. TypeOK'
    BY <1>1, <2>1 DEF TypeOK, Copy, Cart
  <2>4. label \in {"done", "rejected", "failed"}
    BY DEF Ended
  <2>5. CallOK(c)'
    BY <2>1, <2>4 DEF CallOK
  <2>6. QED
    BY <2>2, <2>3, <2>5
<1>2. carts \in Seq(Cart)
  BY CartsAre
<1>3. {"done", "rejected", "failed"} = Ended
  BY DEF Ended
<1>4. CASE Attach(c)
  <2> DEFINE n == copy[c].cart
             to == Purpose(c, copy[c].items)
  <2>1. n \in DOMAIN carts /\ pc[c] = "attach"
          /\ UNCHANGED <<ordered, job, basket, asked, crossed>>
    BY <1>4 DEF Attach, CallOK, Holding
  <2>2. CASE /\ carts' = carts
             /\ End(c, "failed") \/ End(c, "rejected")
    BY <1>1, <1>2, <1>3, <2>1, <2>2
  <2>3. CASE /\ carts' = [carts EXCEPT ![n].user = TRUE]
             /\ IF to \in Ended THEN End(c, to) ELSE Goto(c, to) /\ copy' = copy
    <3>1. /\ carts' \in Seq(Cart) /\ DOMAIN carts' = DOMAIN carts
          /\ \A m \in DOMAIN carts : /\ carts'[m].items = carts[m].items
                                     /\ carts'[m].subtotal = carts[m].subtotal
      <4>1. /\ Len(carts) \in Nat /\ DOMAIN carts = 1..Len(carts)
            /\ \A m \in DOMAIN carts : carts[m] \in Cart
            /\ carts \in [1..Len(carts) -> Cart]
        BY CartsAre, LenProperties
      <4>2. PICK cart : cart = [carts[n] EXCEPT !.user = TRUE]
        OBVIOUS
      <4>3. carts' = [carts EXCEPT ![n] = cart]
        BY <2>3, <4>2
      <4>4. /\ cart \in Cart /\ cart.items = carts[n].items
            /\ cart.subtotal = carts[n].subtotal
        BY <2>1, <4>1, <4>2 DEF Cart
      <4>5. carts' \in [1..Len(carts) -> Cart]
        BY <4>1, <4>3, <4>4
      <4>6. carts' \in Seq(Cart)
        BY <4>1, <4>5, SeqDef
      <4>7. QED
        BY <2>1, <4>1, <4>3, <4>4, <4>6
    <3>2. CASE to \in Ended
      <4>1. End(c, to)
        BY <2>3, <3>2
      <4>2. QED
        BY <1>1, <2>1, <3>1, <3>2, <4>1
    <3>3. CASE to \notin Ended
      <4>1. Goto(c, to) /\ copy' = copy
        BY <2>3, <3>3
      <4>2. \/ to = "empty" /\ job[c].kind \in {"clear", "sync"}
            \/ to = "add" /\ job[c].kind = "add" /\ ~ Broken(copy[c].items)
            \/ /\ to = "sell" /\ job[c].kind = "checkout" /\ copy[c].items # << >>
               /\ ~ Broken(copy[c].items)
            \/ /\ to = "change" /\ job[c].kind \in {"update", "remove"}
               /\ Find(copy[c].items, job[c].product) # 0 /\ ~ Broken(copy[c].items)
        BY <1>3, <3>3, PurposeIs
      <4> HIDE DEF to
      <4>3. to \in Labels
        BY <4>2 DEF Labels
      <4>4. Alone(c) /\ pc'[c] = to /\ pc' \in [Calls -> Labels]
        BY <2>1, <4>1, <4>3, MovesTo
      <4>5. Holding(c) /\ Effect(c)' = Effect(c)
              /\ (to = "empty" => job[c].kind # "checkout")
        BY <2>1, <4>2, <4>4 DEF Holding, Effect
      <4>6. Lets(c)
        BY <2>1, <3>1, <4>1, <4>4, <4>5 DEF Lets, RowsStay
      <4>7. TypeOK'
        BY <2>1, <3>1, <4>1, <4>4 DEF TypeOK, Cart
      <4>8. CallOK(c)'
        BY <2>1, <3>1, <4>1, <4>2, <4>4 DEF CallOK
      <4>9. QED
        BY <4>6, <4>7, <4>8
    <3>4. QED
      BY <3>2, <3>3
  <2>4. QED
    BY <1>4, <2>2, <2>3 DEF Attach
<1>5. CASE Refuse(c)
  <2>1. pc[c] # "empty" /\ End(c, "rejected")
          /\ UNCHANGED <<carts, ordered, job, basket, asked, crossed>>
    BY <1>5 DEF Refuse
  <2>2. QED
    BY <1>1, <1>2, <1>3, <2>1
<1>6. CASE SaveFails(c)
  <2>1. /\ End(c, "failed") /\ UNCHANGED <<carts, ordered, job, basket, asked>>
        /\ crossed \subseteq crossed'
        /\ pc[c] = "empty" /\ job[c].kind = "checkout" => {"store"} \in crossed'
    BY <1>6 DEF SaveFails, Cross
  <2>2. QED
    BY <1>1, <1>2, <1>3, <2>1
<1>7. CASE Sell(c) /\ End(c, "rejected") /\ UNCHANGED ordered
  <2>1. pc[c] # "empty" /\ UNCHANGED <<carts, job, basket, asked, crossed>>
    BY <1>7 DEF Sell
  <2>2. QED
    BY <1>1, <1>2, <1>3, <1>7, <2>1
<1>8. QED
  BY <1>4, <1>5, <1>6, <1>7

(* Steps that write *)

\* Call c makes cart n, which is empty.
Creates(c, n) ==
  /\ Alone(c) /\ ~ Holding(c) /\ n \notin DOMAIN carts
  /\ DOMAIN carts' = DOMAIN carts \cup {n}
  /\ \A m \in DOMAIN carts : carts'[m] = carts[m] /\ basket'[m] = basket[m]
  /\ carts'[n].items = << >> /\ carts'[n].subtotal = 0
  /\ basket'[n] = [p \in Products |-> 0]
  /\ ordered' = ordered /\ asked' = asked /\ job' = job /\ crossed' = crossed
  /\ Holding(c)' => /\ copy'[c].cart = n
                    /\ copy'[c].items = << >> /\ copy'[c].subtotal = 0
                    /\ job[c].kind \in {"add", "clear", "sync"}

\* Call c saves rows and a subtotal to the cart that it held.
Writes(c, items, subtotal) ==
  /\ Alone(c) /\ Holding(c) /\ ~ Holding(c)' /\ copy[c].cart \in DOMAIN carts
  /\ items \in Seq(Row) /\ subtotal \in Nat
  /\ carts' = Written(copy[c].cart, items, Saved(c, subtotal))
  /\ ordered' = ordered /\ crossed' = crossed

Adds(c, p, q) ==
  /\ Effect(c) = "add" /\ ~ Broken(copy[c].items)
  /\ Writes(c, AddedRows(c, p, q), Units(copy[c].items) + q)
  /\ basket' = [basket EXCEPT ![copy[c].cart][p] = @ + q]
  /\ asked' = [asked EXCEPT ![p] = @ + q]

Updates(c) ==
  LET n == copy[c].cart
      p == job[c].product
      q == job[c].quantity
      i == Find(copy[c].items, p)
      old == copy[c].items[i].quantity
  IN  /\ Effect(c) = "update" /\ p \in Products /\ q \in Nat
      /\ i \in DOMAIN copy[c].items /\ copy[c].items[i].product = p
      /\ old \in Nat /\ old <= Units(copy[c].items)
      /\ Writes(c, IF q = old THEN carts[n].items ELSE SetQuantity(carts[n].items, i, q),
                Units(copy[c].items) - old + q)
      /\ basket' = [basket EXCEPT ![n][p] = q]
      /\ asked' = [asked EXCEPT ![p] = IF q > old THEN @ + q - old ELSE @]

Removes(c) ==
  LET p == job[c].product
  IN  /\ job[c].kind = "remove" /\ pc[c] = "change" /\ p \in Products
      /\ ~ Broken(copy[c].items)
      /\ Writes(c, Without(copy[c].items, p), Units(Without(copy[c].items, p)))
      /\ basket' = [basket EXCEPT ![copy[c].cart][p] = 0]
      /\ asked' = asked

Empties(c) ==
  /\ pc[c] = "empty" /\ Effect(c) \in {"clear", "checkout"}
  /\ job[c].kind = "checkout" => copy[c].items # << >>
  /\ Writes(c, IF copy[c].items = << >> THEN carts[copy[c].cart].items ELSE << >>, 0)
  /\ basket' = [basket EXCEPT ![copy[c].cart] = [p \in Products |-> 0]]
  /\ asked' = asked

\* Call c orders what it has read, and has the cart to empty.
Sells(c) ==
  /\ Alone(c) /\ pc[c] = "sell" /\ job[c].kind = "checkout" /\ pc'[c] = "empty"
  /\ UNCHANGED <<carts, job, copy, basket, asked, crossed>>
  /\ ordered' = [p \in Products |-> ordered[p] + InCart(copy[c].items, p)]

LEMMA SavedIs ==
  ASSUME TypeOK, NEW c \in Calls, copy[c].cart \in DOMAIN carts, NEW subtotal \in Nat
  PROVE  /\ Saved(c, subtotal) \in Nat
         /\ copy[c].subtotal = carts[copy[c].cart].subtotal => Saved(c, subtotal) = subtotal
  BY CartsAre DEF Saved

LEMMA WritesType ==
  ASSUME TypeOK, NEW c \in Calls, NEW items, NEW subtotal, Writes(c, items, subtotal),
         pc' \in [Calls -> Labels], copy' \in [Calls -> Copy],
         job' \in [Calls -> Request],
         basket' \in [DOMAIN carts -> [Products -> Nat]], asked' \in [Products -> Nat]
  PROVE  TypeOK'
<1>1. /\ copy[c].cart \in DOMAIN carts /\ items \in Seq(Row)
      /\ carts' = Written(copy[c].cart, items, Saved(c, subtotal))
      /\ Saved(c, subtotal) \in Nat /\ ordered' = ordered
  BY SavedIs DEF Writes
<1>2. carts' \in Seq(Cart) /\ DOMAIN carts' = DOMAIN carts
  BY <1>1, WrittenIs
<1>3. QED
  BY <1>1, <1>2 DEF TypeOK, Cart, Copy

LEMMA Created ==
  ASSUME TypeOK, NEW c \in Calls, CallOK(c), Create(c)
  PROVE  TypeOK' /\ CallOK(c)' /\ (Lets(c) \/ \E n : Creates(c, n))
<1> DEFINE n == Len(carts) + 1
           new == [user |-> job[c].by # "session", session |-> job[c].by # "user",
                   items |-> << >>, subtotal |-> 0]
<1>1. /\ pc[c] = "create" /\ copy[c] = NoCopy /\ ~ Holding(c)
      /\ ordered' = ordered /\ job' = job /\ asked' = asked /\ crossed' = crossed
  BY DEF Create, CallOK, Holding
<1>2. CASE End(c, "failed") /\ UNCHANGED <<carts, basket>>
  <2>1. /\ Alone(c) /\ pc'[c] = "failed" /\ ~ Holding(c)'
        /\ pc' \in [Calls -> Labels] /\ copy' \in [Calls -> Copy]
    <3>1. "failed" \in Ended
      BY DEF Ended
    <3>2. QED
      BY <1>1, <1>2, <3>1, EndsAt
  <2>2. Lets(c)
    BY <1>1, <1>2, <2>1 DEF Lets, RowsStay
  <2>3. TypeOK'
    BY <1>1, <1>2, <2>1 DEF TypeOK, Copy
  <2>4. CallOK(c)'
    BY <2>1 DEF CallOK
  <2>5. QED
    BY <2>2, <2>3, <2>4
<1>3. CASE /\ carts' = Append(carts, new)
           /\ basket' = Append(basket, [p \in Products |-> 0])
           /\ IF job[c].kind = "get" THEN End(c, "done")
              ELSE /\ Goto(c, Purpose(c, << >>))
                   /\ copy' = [copy EXCEPT ![c].cart = n]
  <2>1. /\ carts \in Seq(Cart) /\ Len(carts) \in Nat /\ DOMAIN carts = 1..Len(carts)
        /\ new \in Cart
    BY CartsAre, NoRows DEF Cart
  <2>2. /\ carts' \in Seq(Cart) /\ DOMAIN carts' = DOMAIN carts \cup {n}
        /\ n \notin DOMAIN carts /\ n \in Nat
        /\ \A m \in DOMAIN carts : carts'[m] = carts[m]
        /\ carts'[n].items = << >> /\ carts'[n].subtotal = 0
    <3>1. PICK cart : cart = new
      OBVIOUS
    <3>2. cart \in Cart /\ cart.items = << >> /\ cart.subtotal = 0
            /\ carts' = Append(carts, cart)
      BY <1>3, <2>1, <3>1
    <3>3. /\ carts' \in Seq(Cart) /\ Len(carts') = Len(carts) + 1
          /\ \A m \in 1..Len(carts) : carts'[m] = carts[m]
          /\ carts'[n] = cart
      BY <2>1, <3>2, AppendProperties
    <3>4. DOMAIN carts' = 1..Len(carts')
      BY <3>3, LenProperties
    <3>5. QED
      BY <2>1, <3>2, <3>3, <3>4
  <2>3. /\ basket' \in [DOMAIN carts' -> [Products -> Nat]]
        /\ \A m \in DOMAIN carts : basket'[m] = basket[m]
        /\ basket'[n] = [p \in Products |-> 0]
    <3>1. basket \in [1..Len(carts) -> [Products -> Nat]]
      BY <2>1 DEF TypeOK
    <3>2. basket \in Seq([Products -> Nat]) /\ Len(basket) = Len(carts)
      BY <2>1, <3>1, SeqDef
    <3>3. [p \in Products |-> 0] \in [Products -> Nat]
      OBVIOUS
    <3>4. /\ basket' \in Seq([Products -> Nat]) /\ Len(basket') = Len(carts) + 1
          /\ \A m \in 1..Len(carts) : basket'[m] = basket[m]
          /\ basket'[n] = [p \in Products |-> 0]
      BY <1>3, <3>2, <3>3, AppendProperties
    <3>5. basket' \in [1..n -> [Products -> Nat]]
      BY <3>4, LenProperties
    <3>6. 1..n = DOMAIN carts'
      BY <2>1, <2>2
    <3>7. QED
      BY <2>1, <3>4, <3>5, <3>6
  <2>4. CASE job[c].kind = "get"
    <3>1. /\ Alone(c) /\ pc'[c] = "done" /\ ~ Holding(c)'
          /\ pc' \in [Calls -> Labels] /\ copy' \in [Calls -> Copy]
      <4>1. "done" \in Ended
        BY DEF Ended
      <4>2. QED
        BY <1>1, <1>3, <2>4, <4>1, EndsAt
    <3>2. Creates(c, n)
      BY <1>1, <2>2, <2>3, <3>1 DEF Creates
    <3>3. TypeOK'
      BY <1>1, <2>2, <2>3, <3>1 DEF TypeOK, Cart, Copy
    <3>4. CallOK(c)'
      BY <3>1 DEF CallOK
    <3>5. QED
      BY <3>2, <3>3, <3>4
  <2>5. CASE job[c].kind # "get"
    <3> DEFINE to == Purpose(c, << >>)
    <3>1. \/ to \in {"done", "rejected"}
          \/ to = "empty" /\ job[c].kind \in {"clear", "sync"}
          \/ to = "add" /\ job[c].kind = "add"
      <4>1. Find(<< >>, job[c].product) = 0
        BY NoRows, FindFinds
      <4>2. QED
        BY <4>1, PurposeIs, NoRows
    <3> HIDE DEF to
    <3>2. PICK held \in Copy : /\ copy' = [copy EXCEPT ![c] = held]
                               /\ held.cart = n
                               /\ held.items = << >> /\ held.subtotal = 0
      <4>1. copy' = [copy EXCEPT ![c] = [copy[c] EXCEPT !.cart = n]]
        BY <1>3, <2>5
      <4>2. [copy[c] EXCEPT !.cart = n] = [cart |-> n, items |-> << >>, subtotal |-> 0]
        BY <1>1 DEF NoCopy
      <4>3. [cart |-> n, items |-> << >>, subtotal |-> 0] \in Copy
        BY <2>2, NoRows DEF Copy
      <4>4. QED
        BY <4>1, <4>2, <4>3
    <3>3. to \in Labels /\ Goto(c, to)
      BY <1>3, <2>5, <3>1 DEF Labels, Ended, to
    <3>4. /\ Alone(c) /\ pc'[c] = to
          /\ pc' \in [Calls -> Labels] /\ copy' \in [Calls -> Copy]
      BY <1>1, <3>2, <3>3, MovesTo
    <3>5. copy'[c] = held
      BY <3>2 DEF TypeOK
    <3>6. Creates(c, n)
      BY <1>1, <2>2, <2>3, <3>1, <3>2, <3>4, <3>5 DEF Creates, Holding
    <3>7. TypeOK'
      BY <1>1, <2>2, <2>3, <3>4 DEF TypeOK, Cart, Copy
    <3>8. ~ Broken(<< >>)
      BY NoRows DEF Broken
    <3>9. CallOK(c)'
      BY <1>1, <2>2, <3>1, <3>2, <3>4, <3>5, <3>8 DEF CallOK
    <3>10. QED
      BY <3>6, <3>7, <3>9
  <2>6. QED
    BY <2>4, <2>5
<1>4. QED
  BY <1>2, <1>3 DEF Create

\* What the cart counts, when one number of one cart changes.
LEMMA BasketType ==
  ASSUME TypeOK, NEW n \in DOMAIN carts, NEW p \in Products, NEW q \in Nat
  PROVE  /\ [basket EXCEPT ![n][p] = q] \in [DOMAIN carts -> [Products -> Nat]]
         /\ [asked EXCEPT ![p] = q] \in [Products -> Nat]
         /\ basket[n][p] \in Nat /\ asked[p] \in Nat
  BY DEF TypeOK

LEMMA Added ==
  ASSUME TypeOK, NEW c \in Calls, CallOK(c), Add(c)
  PROVE  TypeOK' /\ CallOK(c)' /\ \E p \in Products, q \in Nat : Adds(c, p, q)
<1> DEFINE n == copy[c].cart
           p == IF job[c].kind = "sync" THEN Head(job[c].list) ELSE job[c].product
           q == IF job[c].kind = "sync" THEN 1 ELSE job[c].quantity
<1>1. /\ pc[c] = "add" /\ n \in DOMAIN carts /\ Holding(c) /\ ~ Broken(copy[c].items)
      /\ job[c].kind = "add" \/ (job[c].kind = "sync" /\ job[c].list # << >>)
  BY DEF Add, CallOK, Holding
<1>2. p \in Products /\ q \in Nat
  BY <1>1, CallsAre, HeadTailProperties
<1>3. /\ carts' = Written(n, AddedRows(c, p, q), Saved(c, Units(copy[c].items) + q))
      /\ basket' = [basket EXCEPT ![n][p] = @ + q]
      /\ asked' = [asked EXCEPT ![p] = @ + q]
      /\ ordered' = ordered /\ crossed' = crossed
      /\ \/ /\ job[c].kind = "sync" /\ Len(job[c].list) > 1
            /\ Goto(c, "again") /\ copy' = copy
            /\ job' = [job EXCEPT ![c].list = Tail(@)]
         \/ End(c, "done") /\ job' = job
  BY DEF Add
<1> HIDE DEF p, q
<1>4. AddedRows(c, p, q) \in Seq(Row) /\ Units(copy[c].items) + q \in Nat
  <2> DEFINE rows == carts[n].items
             i == Find(copy[c].items, p)
  <2>1. rows \in Seq(Row) /\ copy[c].items \in Seq(Row) /\ Units(copy[c].items) \in Nat
    BY <1>1, CartsAre, CallsAre, RowsComeTo
  <2>2. CASE i = 0
    <3>1. Append(rows, [product |-> p, quantity |-> q]) \in Seq(Row)
      BY <1>2, <2>1, AddRow
    <3>2. QED
      BY <1>2, <2>1, <2>2, <3>1 DEF AddedRows
  <2>3. CASE i # 0
    <3>1. /\ i \in DOMAIN copy[c].items /\ i \in Nat \ {0}
          /\ copy[c].items[i].quantity + q \in Nat
      BY <1>2, <2>1, <2>3, FindFinds, RowsAre
    <3>2. SetQuantity(rows, i, copy[c].items[i].quantity + q) \in Seq(Row)
      BY <2>1, <3>1, SetAnywhere
    <3>3. QED
      BY <1>2, <2>1, <2>3, <3>2 DEF AddedRows
  <2>4. QED
    BY <1>2, <2>1, <2>2, <2>3
<1>5. /\ Alone(c) /\ ~ Holding(c)'
      /\ pc' \in [Calls -> Labels] /\ copy' \in [Calls -> Copy]
         /\ job' \in [Calls -> Request]
      /\ \/ pc'[c] = "done"
         \/ /\ pc'[c] = "again" /\ copy'[c] = copy[c] /\ job'[c].kind = "sync"
            /\ job'[c].list # << >>
  <2>1. CASE End(c, "done") /\ job' = job
    <3>1. "done" \in Ended
      BY DEF Ended
    <3>2. QED
      BY <2>1, <3>1, EndsAt DEF TypeOK
  <2>2. CASE /\ job[c].kind = "sync" /\ Len(job[c].list) > 1
             /\ Goto(c, "again") /\ copy' = copy
             /\ job' = [job EXCEPT ![c].list = Tail(@)]
    <3>1. /\ pc' \in [Calls -> Labels] /\ pc'[c] = "again"
          /\ \A d \in Calls \ {c} : pc'[d] = pc[d]
      BY <2>2 DEF Goto, TypeOK, Labels
    <3>2. PICK new : new = [job[c] EXCEPT !.list = Tail(job[c].list)]
      OBVIOUS
    <3>3. job' = [job EXCEPT ![c] = new]
      BY <2>2, <3>2
    <3>4. /\ Tail(job[c].list) \in Seq(Products)
          /\ Tail(job[c].list) # << >>
      <4>1. PICK l \in Seq(Products) : l = job[c].list
        BY CallsAre
      <4>2. Len(l) > 1 /\ Len(l) \in Nat
        BY <2>2, <4>1, LenProperties
      <4>3. l # << >>
        BY <4>2, EmptySeq
      <4>4. Tail(l) \in Seq(Products) /\ Len(Tail(l)) = Len(l) - 1
        BY <4>3, HeadTailProperties
      <4>5. Len(Tail(l)) # 0 /\ Len(<< >>) = 0
        BY <4>2, <4>4, EmptySeq
      <4>6. QED
        BY <4>1, <4>4, <4>5
    <3>5. /\ new \in Request /\ new.kind = "sync" /\ new.list # << >>
      BY <2>2, <3>2, <3>4, CallsAre DEF Request
    <3>6. /\ job' \in [Calls -> Request] /\ job'[c] = new
          /\ \A d \in Calls \ {c} : job'[d] = job[d]
      BY <3>3, <3>5 DEF TypeOK
    <3>7. QED
      BY <2>2, <3>1, <3>5, <3>6 DEF Alone, Holding, TypeOK, Copy
  <2>3. QED
    BY <1>3, <2>1, <2>2
<1>6. Adds(c, p, q)
  <2>1. Effect(c) = "add"
    BY <1>1 DEF Effect
  <2>2. QED
    BY <1>1, <1>3, <1>4, <1>5, <2>1 DEF Adds, Writes
<1>7. /\ basket' \in [DOMAIN carts -> [Products -> Nat]] /\ asked' \in [Products -> Nat]
  <2>1. basket[n][p] + q \in Nat /\ asked[p] + q \in Nat
    BY <1>1, <1>2, BasketType
  <2>2. /\ basket' = [basket EXCEPT ![n][p] = basket[n][p] + q]
        /\ asked' = [asked EXCEPT ![p] = asked[p] + q]
    BY <1>3
  <2>3. QED
    BY <1>1, <1>2, <2>1, <2>2, BasketType
<1>8. TypeOK'
  BY <1>5, <1>6, <1>7, WritesType DEF Adds
<1>9. DOMAIN carts' = DOMAIN carts
  BY <1>3 DEF Written
<1>10. CallOK(c)'
  BY <1>1, <1>5, <1>9 DEF CallOK
<1>11. QED
  BY <1>2, <1>6, <1>8, <1>10

LEMMA Changed ==
  ASSUME TypeOK, NEW c \in Calls, CallOK(c), Change(c)
  PROVE  TypeOK' /\ CallOK(c)' /\ (Updates(c) \/ Removes(c))
<1> DEFINE n == copy[c].cart
           p == job[c].product
           q == job[c].quantity
           i == Find(copy[c].items, p)
           old == copy[c].items[i].quantity
<1>1. /\ pc[c] = "change" /\ n \in DOMAIN carts /\ Holding(c) /\ ~ Broken(copy[c].items)
      /\ job[c].kind \in {"update", "remove"} /\ i # 0
      /\ End(c, "done") /\ ordered' = ordered /\ job' = job /\ crossed' = crossed
  BY DEF Change, CallOK, Holding
<1>2. /\ Alone(c) /\ pc'[c] = "done" /\ ~ Holding(c)'
      /\ pc' \in [Calls -> Labels] /\ copy' \in [Calls -> Copy]
         /\ job' \in [Calls -> Request]
  <2>1. "done" \in Ended
    BY DEF Ended
  <2>2. QED
    BY <1>1, <2>1, EndsAt DEF TypeOK
<1>3. p \in Products /\ q \in Nat /\ copy[c].items \in Seq(Row)
        /\ carts[n].items \in Seq(Row)
  BY <1>1, CallsAre, CartsAre
<1>4. CallOK(c)'
  BY <1>2 DEF CallOK
<1>5. CASE job[c].kind = "update" /\ Update(c)
  <2>1. i \in DOMAIN copy[c].items /\ copy[c].items[i].product = p /\ i \in Nat \ {0}
    BY <1>1, <1>3, FindFinds, RowsAre
  <2>2. old \in Nat /\ Units(copy[c].items) \in Nat /\ old <= Units(copy[c].items)
    BY <1>3, <2>1, RowsAre, RowsComeTo, RowWithin
  <2>3. /\ SetQuantity(carts[n].items, i, q) \in Seq(Row)
        /\ Units(copy[c].items) - old + q \in Nat
    <3>1. SetQuantity(carts[n].items, i, q) \in Seq(Row)
      BY <1>3, <2>1, SetAnywhere
    <3> HIDE DEF old, q
    <3>2. Units(copy[c].items) - old + q \in Nat
      BY <1>3, <2>2
    <3>3. QED
      BY <3>1, <3>2
  <2>4. /\ carts' = Written(n, IF q = old THEN carts[n].items
                               ELSE SetQuantity(carts[n].items, i, q),
                            Saved(c, Units(copy[c].items) - old + q))
        /\ basket' = [basket EXCEPT ![n][p] = q]
        /\ asked' = [asked EXCEPT ![p] = IF q > old THEN @ + q - old ELSE @]
    BY <1>5 DEF Update
  <2>5. Effect(c) = "update"
    BY <1>5 DEF Effect
  <2>6. Updates(c)
    BY <1>1, <1>2, <1>3, <2>1, <2>2, <2>3, <2>4, <2>5 DEF Updates, Writes
  <2>7. /\ basket' \in [DOMAIN carts -> [Products -> Nat]]
           /\ asked' \in [Products -> Nat]
    <3>1. PICK k : k = IF q > old THEN asked[p] + q - old ELSE asked[p]
      OBVIOUS
    <3>2. k \in Nat
      BY <1>1, <1>3, <2>2, <3>1, BasketType
    <3>3. asked' = [asked EXCEPT ![p] = k]
      BY <2>4, <3>1
    <3>4. asked' \in [Products -> Nat]
      BY <1>1, <1>3, <3>2, <3>3, BasketType
    <3>5. basket' \in [DOMAIN carts -> [Products -> Nat]]
      BY <1>1, <1>3, <2>4, BasketType
    <3>6. QED
      BY <3>4, <3>5
  <2>8. TypeOK'
    BY <1>2, <2>6, <2>7, WritesType DEF Updates
  <2>9. QED
    BY <1>4, <2>6, <2>8
<1>6. CASE job[c].kind = "remove" /\ Remove(c)
  <2>1. /\ carts' = Written(n, Without(copy[c].items, p),
                            Saved(c, Units(Without(copy[c].items, p))))
        /\ basket' = [basket EXCEPT ![n][p] = 0] /\ asked' = asked
    BY <1>6 DEF Remove, Rest
  <2>2. Without(copy[c].items, p) \in Seq(Row)
    BY <1>3, WithoutIs
  <2>3. Units(Without(copy[c].items, p)) \in Nat
    BY <2>2, RowsComeTo
  <2>4. Removes(c)
    BY <1>1, <1>2, <1>3, <1>6, <2>1, <2>2, <2>3 DEF Removes, Writes
  <2>5. basket' \in [DOMAIN carts -> [Products -> Nat]] /\ asked' \in [Products -> Nat]
    BY <1>1, <1>3, <2>1, BasketType DEF TypeOK
  <2>6. TypeOK'
    BY <1>2, <2>4, <2>5, WritesType DEF Removes
  <2>7. QED
    BY <1>4, <2>4, <2>6
<1>7. QED
  BY <1>5, <1>6 DEF Change

LEMMA Ordered ==
  ASSUME TypeOK, NEW c \in Calls, CallOK(c), Sell(c)
  PROVE  TypeOK' /\ CallOK(c)' /\ (Lets(c) \/ Sells(c))
<1>1. /\ pc[c] = "sell" /\ UNCHANGED <<carts, job, basket, asked, crossed>>
      /\ \/ /\ ordered' = [p \in Products |-> ordered[p] + InCart(copy[c].items, p)]
            /\ Goto(c, "empty") /\ copy' = copy
         \/ End(c, "rejected") /\ ordered' = ordered
  BY DEF Sell
<1>2. CASE End(c, "rejected") /\ ordered' = ordered
  BY <1>2, Stops
<1>3. CASE /\ ordered' = [p \in Products |-> ordered[p] + InCart(copy[c].items, p)]
           /\ Goto(c, "empty") /\ copy' = copy
  <2>1. "empty" \in Labels
    BY DEF Labels
  <2>2. Alone(c) /\ pc'[c] = "empty" /\ pc' \in [Calls -> Labels]
    BY <1>1, <1>3, <2>1, MovesTo
  <2>3. job[c].kind = "checkout" /\ copy[c].cart \in DOMAIN carts
          /\ copy[c].items # << >>
    BY <1>1 DEF CallOK, Holding
  <2>4. Sells(c)
    BY <1>1, <1>3, <2>2, <2>3 DEF Sells
  <2>5. ordered' \in [Products -> Nat]
    <3>1. \A p \in Products : ordered[p] \in Nat /\ InCart(copy[c].items, p) \in Nat
      BY CallsAre, RowsComeTo DEF TypeOK
    <3>2. QED
      BY <1>3, <3>1
  <2>6. TypeOK'
    BY <1>1, <1>3, <2>2, <2>5 DEF TypeOK
  <2>7. CallOK(c)'
    BY <1>1, <1>3, <2>2, <2>3 DEF CallOK
  <2>8. QED
    BY <2>4, <2>6, <2>7
<1>4. QED
  BY <1>1, <1>2, <1>3

LEMMA HasEmptied ==
  ASSUME TypeOK, NEW c \in Calls, CallOK(c), Empty(c)
  PROVE  TypeOK' /\ CallOK(c)' /\ Empties(c)
<1> DEFINE n == copy[c].cart
<1>1. /\ pc[c] = "empty" /\ n \in DOMAIN carts /\ Holding(c)
      /\ job[c].kind \in {"clear", "sync", "checkout"}
      /\ job[c].kind = "checkout" => copy[c].items # << >>
  BY DEF Empty, CallOK, Holding
<1>2. /\ carts' = Written(n, IF copy[c].items = << >> THEN carts[n].items ELSE << >>,
                          Saved(c, 0))
      /\ basket' = [basket EXCEPT ![n] = [p \in Products |-> 0]]
      /\ ordered' = ordered /\ job' = job /\ asked' = asked /\ crossed' = crossed
      /\ \/ /\ job[c].kind = "sync" /\ job[c].list # << >>
            /\ Goto(c, "again") /\ copy' = copy
         \/ End(c, "done")
  BY DEF Empty, Emptied
<1>3. /\ Alone(c) /\ ~ Holding(c)'
      /\ pc' \in [Calls -> Labels] /\ copy' \in [Calls -> Copy]
         /\ job' \in [Calls -> Request]
      /\ \/ pc'[c] = "done"
         \/ /\ pc'[c] = "again" /\ copy'[c] = copy[c] /\ job[c].kind = "sync"
            /\ job[c].list # << >>
  <2>1. CASE End(c, "done")
    <3>1. "done" \in Ended
      BY DEF Ended
    <3>2. QED
      BY <1>2, <2>1, <3>1, EndsAt DEF TypeOK
  <2>2. CASE /\ job[c].kind = "sync" /\ job[c].list # << >>
             /\ Goto(c, "again") /\ copy' = copy
    <3>1. "again" \in Labels
      BY DEF Labels
    <3>2. QED
      BY <1>2, <2>2, <3>1, MovesTo DEF Holding, TypeOK
  <2>3. QED
    BY <1>2, <2>1, <2>2
<1>4. (IF copy[c].items = << >> THEN carts[n].items ELSE << >>) \in Seq(Row)
  BY <1>1, CartsAre, NoRows
<1>5. Effect(c) \in {"clear", "checkout"}
  BY <1>1 DEF Effect
<1>6. Empties(c)
  BY <1>1, <1>2, <1>3, <1>4, <1>5 DEF Empties, Writes
<1>7. basket' \in [DOMAIN carts -> [Products -> Nat]] /\ asked' \in [Products -> Nat]
  BY <1>2 DEF TypeOK
<1>8. TypeOK'
  BY <1>3, <1>6, <1>7, WritesType DEF Empties
<1>9. DOMAIN carts' = DOMAIN carts
  BY <1>2 DEF Written
<1>10. CallOK(c)'
  BY <1>1, <1>2, <1>3, <1>9 DEF CallOK
<1>11. QED
  BY <1>6, <1>8, <1>10

(* Every step *)

Step(c) ==
  \/ Lets(c) \/ \E n \in DOMAIN carts : Joins(c, n)
  \/ \E n : Creates(c, n)
  \/ \E p \in Products, q \in Nat : Adds(c, p, q)
  \/ Updates(c) \/ Removes(c) \/ Sells(c) \/ Empties(c)

\* Who moves moves alone, and what was noted stays noted.
LEMMA StepKeeps ==
  ASSUME TypeOK, NEW c \in Calls, Step(c)
  PROVE  /\ Alone(c) /\ crossed \subseteq crossed'
         /\ DOMAIN carts \subseteq DOMAIN carts'
<1>1. CASE Lets(c)
  BY <1>1 DEF Lets, RowsStay
<1>2. CASE \E n \in DOMAIN carts : Joins(c, n)
  BY <1>2 DEF Joins, RowsStay
<1>3. CASE \E n : Creates(c, n)
  BY <1>3 DEF Creates
<1>4. ASSUME NEW items, NEW subtotal, Writes(c, items, subtotal)
      PROVE  /\ Alone(c) /\ crossed \subseteq crossed'
             /\ DOMAIN carts \subseteq DOMAIN carts'
  BY <1>4 DEF Writes, Written
<1>5. CASE \E p \in Products, q \in Nat : Adds(c, p, q)
  BY <1>4, <1>5 DEF Adds
<1>6. CASE Updates(c)
  BY <1>4, <1>6 DEF Updates
<1>7. CASE Removes(c)
  BY <1>4, <1>7 DEF Removes
<1>8. CASE Sells(c)
  BY <1>8 DEF Sells
<1>9. CASE Empties(c)
  BY <1>4, <1>9 DEF Empties
<1>10. QED
  BY <1>1, <1>2, <1>3, <1>5, <1>6, <1>7, <1>8, <1>9 DEF Step

LEMMA Steps ==
  ASSUME TypeOK, \A d \in Calls : CallOK(d), NEW c \in Calls, Call(c)
  PROVE  TypeOK' /\ (\A d \in Calls : CallOK(d)') /\ Step(c)
<1>1. TypeOK' /\ CallOK(c)' /\ Step(c)
  <2>1. CASE FindByUser(c) \/ FindBySession(c) \/ FindById(c)
    BY <2>1, Reads DEF Step
  <2>2. CASE Attach(c) \/ Refuse(c) \/ SaveFails(c)
    BY <2>2, Stops DEF Step
  <2>3. CASE Create(c)
    BY <2>3, Created DEF Step
  <2>4. CASE Add(c)
    BY <2>4, Added DEF Step
  <2>5. CASE Change(c)
    BY <2>5, Changed DEF Step
  <2>6. CASE Sell(c)
    BY <2>6, Ordered DEF Step
  <2>7. CASE Empty(c)
    BY <2>7, HasEmptied DEF Step
  <2>8. QED
    BY <2>1, <2>2, <2>3, <2>4, <2>5, <2>6, <2>7 DEF Call
<1>2. ASSUME NEW d \in Calls \ {c} PROVE CallOK(d)'
  <2>1. /\ pc'[d] = pc[d] /\ job'[d] = job[d] /\ copy'[d] = copy[d]
        /\ DOMAIN carts \subseteq DOMAIN carts' /\ CallOK(d)
    BY <1>1, StepKeeps DEF Alone
  <2>2. QED
    BY <2>1 DEF CallOK, Holding
<1>3. QED
  BY <1>1, <1>2

\* What the others hold, they hold on.
LEMMA OthersHold ==
  ASSUME TypeOK, NEW c \in Calls, Step(c), NEW d \in Calls \ {c}
  PROVE  /\ Holding(d)' = Holding(d) /\ Effect(d)' = Effect(d)
         /\ copy'[d] = copy[d] /\ job'[d] = job[d] /\ pc'[d] = pc[d]
  BY StepKeeps DEF Alone, Holding, Effect

LEMMA NotedStep ==
  ASSUME TypeOK, \A d \in Calls : CallOK(d), PairsNoted, NEW c \in Calls, Step(c)
  PROVE  PairsNoted'
<1> SUFFICES ASSUME NEW n \in DOMAIN carts', NEW d \in Holders(n)',
                    NEW e \in Holders(n)',
                    d # e
             PROVE  {Effect(d)', Effect(e)'} \in crossed'
  BY DEF PairsNoted
<1>1. /\ d \in Calls /\ Holding(d)' /\ copy'[d].cart = n
      /\ e \in Calls /\ Holding(e)' /\ copy'[e].cart = n
  BY DEF Holders
<1>2. ASSUME d \in Holders(n), e \in Holders(n)
      PROVE  {Effect(d), Effect(e)} \in crossed'
  <2>1. n \in DOMAIN carts
    BY <1>2 DEF Holders, CallOK
  <2>2. QED
    BY <1>2, <2>1, StepKeeps DEF PairsNoted
<1>3. ASSUME NEW f \in Calls \ {c}, Holding(f)', copy'[f].cart = n
      PROVE  /\ f \in Holders(n) /\ Effect(f)' = Effect(f)
             /\ n \in DOMAIN carts
  <2>1. Holding(f) /\ copy[f].cart = n /\ Effect(f)' = Effect(f)
    BY <1>3, OthersHold
  <2>2. QED
    BY <2>1 DEF Holders, CallOK
<1>4. ASSUME NEW f \in Holders(n), f # c, Holding(c)', copy'[c].cart = n,
             n \in DOMAIN carts
      PROVE  {Effect(c)', Effect(f)} \in crossed'
  <2>1. CASE Lets(c)
    <3>1. c \in Holders(n) /\ Effect(c)' = Effect(c)
      BY <1>4, <2>1 DEF Lets, Holders
    <3>2. QED
      BY <1>4, <3>1, StepKeeps DEF PairsNoted
  <2>2. CASE \E m \in DOMAIN carts : Joins(c, m)
    <3>1. Joins(c, n)
      BY <1>4, <2>2 DEF Joins
    <3>2. f \in {g \in Calls \ {c} : Holding(g) /\ copy[g].cart = n}
      BY <1>4 DEF Holders
    <3>3. QED
      BY <3>1, <3>2 DEF Joins
  <2>3. CASE \E m : Creates(c, m)
    BY <1>4, <2>3 DEF Creates
  <2>4. CASE Sells(c)
    <3>1. c \in Holders(n) /\ Effect(c)' = Effect(c)
      BY <1>4, <2>4 DEF Sells, Holders, Holding, Effect
    <3>2. QED
      BY <1>4, <3>1, StepKeeps DEF PairsNoted
  <2>5. ~ ((\E p \in Products, q \in Nat : Adds(c, p, q))
           \/ Updates(c) \/ Removes(c) \/ Empties(c))
    BY <1>4 DEF Adds, Updates, Removes, Empties, Writes
  <2>6. QED
    BY <2>1, <2>2, <2>3, <2>4, <2>5 DEF Step
<1>5. CASE d # c /\ e # c
  BY <1>1, <1>2, <1>3, <1>5
<1>6. CASE d = c
  <2>1. e \in Holders(n) /\ Effect(e)' = Effect(e) /\ n \in DOMAIN carts
    BY <1>1, <1>3, <1>6
  <2>2. QED
    BY <1>1, <1>4, <1>6, <2>1
<1>7. CASE e = c
  <2>1. d \in Holders(n) /\ Effect(d)' = Effect(d) /\ n \in DOMAIN carts
    BY <1>1, <1>3, <1>7
  <2>2. {Effect(e)', Effect(d)'} = {Effect(d)', Effect(e)'}
    OBVIOUS
  <2>3. QED
    BY <1>1, <1>4, <1>7, <2>1, <2>2
<1>8. QED
  BY <1>5, <1>6, <1>7

(* Rows stay where they are *)

\* Two that hold one cart have been noted; so nobody writes by position to a
\* cart that somebody else empties, unless that is noted too.
LEMMA Together ==
  ASSUME PairsNoted, NEW n \in DOMAIN carts, NEW c \in Holders(n), NEW d \in Holders(n),
         c # d
  PROVE  {Effect(c), Effect(d)} \in crossed
  BY DEF PairsNoted

LEMMA WritersAlone ==
  ASSUME PairsNoted, ~ Misplaced, NEW n \in DOMAIN carts, NEW c \in Writers(n)
  PROVE  \A d \in Holders(n) : Effect(d) \notin Emptying
<1> SUFFICES ASSUME NEW d \in Holders(n), Effect(d) \in Emptying PROVE FALSE
  OBVIOUS
<1>1. c \in Holders(n) /\ Effect(c) \in {"add", "update"}
  BY DEF Writers
<1>2. c # d
  BY <1>1 DEF Emptying
<1>3. {Effect(c), Effect(d)} \in crossed
  BY <1>1, <1>2, Together
<1>4. /\ {Effect(c), Effect(d)} \cap {"add", "update"} # {}
      /\ {Effect(c), Effect(d)} \cap Emptying # {}
  BY <1>1
<1>5. QED
  BY <1>3, <1>4 DEF Misplaced

\* What save writes to a cart.
LEMMA WritesIs ==
  ASSUME TypeOK, NEW c \in Calls, NEW items, NEW subtotal, Writes(c, items, subtotal)
  PROVE  /\ copy[c].cart \in DOMAIN carts /\ c \in Holders(copy[c].cart)
         /\ DOMAIN carts' = DOMAIN carts
         /\ carts'[copy[c].cart].items = items
         /\ carts'[copy[c].cart].subtotal = Saved(c, subtotal)
         /\ \A m \in DOMAIN carts \ {copy[c].cart} : carts'[m] = carts[m]
<1>1. /\ copy[c].cart \in DOMAIN carts /\ items \in Seq(Row)
         /\ Saved(c, subtotal) \in Nat
      /\ carts' = Written(copy[c].cart, items, Saved(c, subtotal))
  BY SavedIs DEF Writes
<1>2. c \in Holders(copy[c].cart)
  BY DEF Writes, Holders
<1>3. QED
  BY <1>1, <1>2, WrittenIs

\* Add writes a row more, or one quantity.
RowMore(rows, items, new, p, q) ==
  \E k : /\ DOMAIN new = DOMAIN rows \cup {k} /\ k \notin DOMAIN rows
         /\ \A j \in DOMAIN rows : new[j] = rows[j]
         /\ new[k].product = p /\ new[k].quantity = q
         /\ \A j \in DOMAIN items : items[j].product # p
QuantityMore(rows, items, new, p, q) ==
  \E i \in DOMAIN items :
    /\ i \in DOMAIN rows /\ DOMAIN new = DOMAIN rows
    /\ rows[i].product = p /\ items[i].product = p
    /\ \A j \in DOMAIN rows :
         /\ new[j].product = rows[j].product
         /\ new[j].quantity = IF j = i THEN items[i].quantity + q ELSE rows[j].quantity

LEMMA AddedIs ==
  ASSUME TypeOK, RowsInPlace, ~ Misplaced, NEW c \in Calls, NEW p \in Products,
         NEW q \in Nat,
         Adds(c, p, q)
  PROVE  \/ RowMore(carts[copy[c].cart].items, copy[c].items, carts'[copy[c].cart].items, p, q)
         \/ QuantityMore(carts[copy[c].cart].items, copy[c].items,
                         carts'[copy[c].cart].items, p, q)
<1> DEFINE n == copy[c].cart
           rows == carts[n].items
           items == copy[c].items
           i == Find(items, p)
<1>1. /\ n \in DOMAIN carts /\ carts'[n].items = AddedRows(c, p, q)
      /\ c \in Holders(n) /\ Effect(c) = "add"
  BY WritesIs DEF Adds
<1>2. rows \in Seq(Row) /\ items \in Seq(Row)
  BY <1>1, CartsAre, CallsAre
<1>3. \A j \in DOMAIN items : j \in DOMAIN rows /\ rows[j].product = items[j].product
  BY <1>1 DEF RowsInPlace, Writers
<1>4. CASE i = 0
  <2>1. carts'[n].items = Append(rows, [product |-> p, quantity |-> q])
    BY <1>1, <1>4 DEF AddedRows
  <2>2. \A j \in DOMAIN items : items[j].product # p
    BY <1>2, <1>4, FindFinds
  <2>3. p \in Products \cup {Gone}
    OBVIOUS
  <2>4. LET new == Append(rows, [product |-> p, quantity |-> q])
            k == Len(rows) + 1
        IN  /\ DOMAIN new = DOMAIN rows \cup {k} /\ k \notin DOMAIN rows
            /\ \A j \in DOMAIN rows : new[j] = rows[j]
            /\ new[k].product = p /\ new[k].quantity = q
    BY <1>2, <2>3, AddRow
  <2>5. QED
    BY <2>1, <2>2, <2>4 DEF RowMore
<1>5. CASE i # 0
  <2>1. /\ i \in DOMAIN items /\ items[i].product = p
        /\ i \in DOMAIN rows /\ rows[i].product = p
    BY <1>2, <1>3, <1>5, FindFinds
  <2>2. carts'[n].items = SetQuantity(rows, i, items[i].quantity + q)
    BY <1>1, <1>5 DEF AddedRows
  <2>3. PICK v : v = items[i].quantity + q
    OBVIOUS
  <2>4. /\ DOMAIN SetQuantity(rows, i, v) = DOMAIN rows
        /\ \A j \in DOMAIN rows :
             /\ SetQuantity(rows, i, v)[j].product = rows[j].product
             /\ SetQuantity(rows, i, v)[j].quantity = IF j = i THEN v ELSE rows[j].quantity
    BY <1>2, <2>1, SetChanges
  <2>5. QED
    BY <2>1, <2>2, <2>3, <2>4 DEF QuantityMore
<1>6. QED
  BY <1>4, <1>5

\* Update writes one quantity, or none.
LEMMA UpdatedIs ==
  ASSUME TypeOK, RowsInPlace, ~ Misplaced, NEW c \in Calls, Updates(c)
  PROVE  LET n     == copy[c].cart
             rows  == carts[n].items
             new   == carts'[n].items
             items == copy[c].items
             q     == job[c].quantity
             i     == Find(items, job[c].product)
         IN  /\ i \in DOMAIN rows /\ i \in DOMAIN items /\ DOMAIN new = DOMAIN rows
             /\ rows[i].product = job[c].product /\ items[i].product = job[c].product
             /\ \A j \in DOMAIN rows :
                  /\ new[j].product = rows[j].product
                  /\ new[j].quantity = IF j = i /\ q # items[i].quantity THEN q
                                       ELSE rows[j].quantity
<1> DEFINE n == copy[c].cart
           rows == carts[n].items
           items == copy[c].items
           q == job[c].quantity
           i == Find(items, job[c].product)
<1>1. /\ n \in DOMAIN carts /\ c \in Holders(n) /\ Effect(c) = "update"
      /\ carts'[n].items = IF q = items[i].quantity THEN rows ELSE SetQuantity(rows, i, q)
      /\ i \in DOMAIN items /\ items[i].product = job[c].product /\ q \in Nat
  BY WritesIs DEF Updates
<1>2. rows \in Seq(Row) /\ items \in Seq(Row)
  BY <1>1, CartsAre, CallsAre
<1>3. i \in DOMAIN rows /\ rows[i].product = items[i].product
  BY <1>1 DEF RowsInPlace, Writers
<1>4. CASE q = items[i].quantity
  BY <1>1, <1>3, <1>4
<1>5. CASE q # items[i].quantity
  <2>1. PICK v : v = q
    OBVIOUS
  <2>2. /\ DOMAIN SetQuantity(rows, i, v) = DOMAIN rows
        /\ \A j \in DOMAIN rows :
             /\ SetQuantity(rows, i, v)[j].product = rows[j].product
             /\ SetQuantity(rows, i, v)[j].quantity = IF j = i THEN v ELSE rows[j].quantity
    <3>1. rows \in Seq(Row) /\ i \in DOMAIN rows
      BY <1>2, <1>3
    <3> HIDE DEF rows, items, i
    <3>2. QED
      BY <3>1, SetChanges
  <2>3. QED
    BY <1>1, <1>3, <1>5, <2>1, <2>2
<1>6. QED
  BY <1>4, <1>5

LEMMA MisplacedStays ==
  ASSUME crossed \subseteq crossed', Misplaced PROVE Misplaced'
  BY DEF Misplaced

LEMMA InPlaceStep ==
  ASSUME TypeOK, \A d \in Calls : CallOK(d), PairsNoted, RowsInPlace, NEW c \in Calls,
         Step(c)
  PROVE  RowsInPlace'
<1> SUFFICES ASSUME ~ Misplaced'
             PROVE  \A n \in DOMAIN carts' :
                      /\ ~ Broken(carts'[n].items)
                      /\ \A d \in Writers(n)' : \A i \in DOMAIN copy'[d].items :
                           /\ i \in DOMAIN carts'[n].items
                           /\ carts'[n].items[i].product = copy'[d].items[i].product
  BY DEF RowsInPlace
<1>1. ~ Misplaced
  BY StepKeeps, MisplacedStays
<1>2. \A n \in DOMAIN carts :
        /\ ~ Broken(carts[n].items)
        /\ \A d \in Writers(n) : \A i \in DOMAIN copy[d].items :
             /\ i \in DOMAIN carts[n].items
             /\ carts[n].items[i].product = copy[d].items[i].product
  BY <1>1 DEF RowsInPlace
<1>3. ASSUME NEW n, NEW d \in Writers(n)', d # c
      PROVE  d \in Writers(n) /\ copy'[d] = copy[d] /\ n \in DOMAIN carts
  <2>1. d \in Calls \ {c} /\ Holding(d)' /\ copy'[d].cart = n
          /\ Effect(d)' \in {"add", "update"}
    BY <1>3 DEF Writers, Holders
  <2>2. /\ Holding(d) /\ copy[d].cart = n /\ Effect(d) \in {"add", "update"}
        /\ copy'[d] = copy[d]
    BY <2>1, OthersHold
  <2>3. QED
    BY <2>2 DEF Writers, Holders, CallOK
<1>4. ASSUME NEW n \in DOMAIN carts, carts'[n].items = carts[n].items,
             c \in Writers(n)' => c \in Writers(n) /\ copy'[c] = copy[c]
      PROVE  /\ ~ Broken(carts'[n].items)
             /\ \A d \in Writers(n)' : \A i \in DOMAIN copy'[d].items :
                  /\ i \in DOMAIN carts'[n].items
                  /\ carts'[n].items[i].product = copy'[d].items[i].product
  BY <1>2, <1>3, <1>4
<1>5. ASSUME ~ Holding(c)' PROVE \A n : c \notin Writers(n)'
  BY <1>5 DEF Writers, Holders
<1>6. ASSUME NEW items, NEW subtotal, Writes(c, items, subtotal)
      PROVE  \A n \in DOMAIN carts' : /\ n \in DOMAIN carts /\ c \notin Writers(n)'
                                      /\ n # copy[c].cart => carts'[n].items = carts[n].items
  BY <1>5, <1>6, WritesIs DEF Writes
<1>7. ASSUME NEW n \in DOMAIN carts, c \notin Writers(n)', ~ Broken(carts'[n].items),
             \A i \in DOMAIN carts[n].items :
               /\ i \in DOMAIN carts'[n].items
               /\ carts'[n].items[i].product = carts[n].items[i].product
      PROVE  /\ ~ Broken(carts'[n].items)
             /\ \A d \in Writers(n)' : \A i \in DOMAIN copy'[d].items :
                  /\ i \in DOMAIN carts'[n].items
                  /\ carts'[n].items[i].product = copy'[d].items[i].product
  BY <1>2, <1>3, <1>7
<1>8. CASE Lets(c)
  <2>1. ASSUME NEW n, c \in Writers(n)' PROVE c \in Writers(n) /\ copy'[c] = copy[c]
    BY <1>8, <2>1 DEF Lets, Writers, Holders
  <2>2. QED
    BY <1>4, <1>8, <2>1 DEF Lets, RowsStay
<1>9. CASE \E m \in DOMAIN carts : Joins(c, m)
  <2>1. PICK m \in DOMAIN carts : Joins(c, m)
    BY <1>9
  <2>2. ASSUME NEW n \in DOMAIN carts, n # m PROVE c \notin Writers(n)'
    BY <2>1, <2>2 DEF Joins, Writers, Holders
  <2>3. copy'[c].items = carts[m].items
    BY <2>1 DEF Joins
  <2>4. \A n \in DOMAIN carts : carts'[n].items = carts[n].items
    BY <2>1 DEF Joins, RowsStay
  <2>5. DOMAIN carts' = DOMAIN carts
    BY <2>1 DEF Joins, RowsStay
  <2>6. /\ ~ Broken(carts'[m].items)
        /\ \A d \in Writers(m)' : \A i \in DOMAIN copy'[d].items :
             /\ i \in DOMAIN carts'[m].items
             /\ carts'[m].items[i].product = copy'[d].items[i].product
    BY <1>2, <1>3, <2>3, <2>4
  <2>7. QED
    BY <1>4, <2>2, <2>4, <2>5, <2>6
<1>10. CASE \E m : Creates(c, m)
  <2>1. PICK m : Creates(c, m)
    BY <1>10
  <2>2. /\ DOMAIN carts' = DOMAIN carts \cup {m} /\ m \notin DOMAIN carts
        /\ \A n \in DOMAIN carts : carts'[n].items = carts[n].items
        /\ carts'[m].items = << >>
        /\ Holding(c)' => copy'[c].cart = m /\ copy'[c].items = << >>
    BY <2>1 DEF Creates
  <2>3. \A n \in DOMAIN carts : c \notin Writers(n)'
    BY <2>2 DEF Writers, Holders
  <2>4. /\ ~ Broken(carts'[m].items)
        /\ \A d \in Writers(m)' : \A i \in DOMAIN copy'[d].items :
             /\ i \in DOMAIN carts'[m].items
             /\ carts'[m].items[i].product = copy'[d].items[i].product
    <3>1. ~ Broken(carts'[m].items)
      BY <2>2, NoRows DEF Broken
    <3>2. \A d \in Writers(m)' : d = c /\ Holding(c)'
      BY <1>3, <2>2 DEF Writers, Holders
    <3>3. \A d \in Writers(m)' : DOMAIN copy'[d].items = {}
      BY <2>2, <3>2, NoRows
    <3>4. QED
      BY <3>1, <3>3
  <2>5. QED
    BY <1>4, <2>2, <2>3, <2>4
<1>11. CASE \E p \in Products, q \in Nat : Adds(c, p, q)
  <2>1. PICK p \in Products, q \in Nat : Adds(c, p, q)
    BY <1>11
  <2> DEFINE n == copy[c].cart
  <2>2. n \in DOMAIN carts /\ \A m \in DOMAIN carts' : m \in DOMAIN carts
          /\ c \notin Writers(m)'
    BY <1>6, <2>1, WritesIs DEF Adds
  <2>3. \A m \in DOMAIN carts' : m # n => carts'[m].items = carts[m].items
    BY <1>6, <2>1 DEF Adds
  <2>4. /\ \A i \in DOMAIN carts[n].items :
             /\ i \in DOMAIN carts'[n].items
             /\ carts'[n].items[i].product = carts[n].items[i].product
        /\ \A k \in DOMAIN carts'[n].items :
             k \in DOMAIN carts[n].items \/ carts'[n].items[k].product = p
    <3>1. \/ RowMore(carts[n].items, copy[c].items, carts'[n].items, p, q)
          \/ QuantityMore(carts[n].items, copy[c].items, carts'[n].items, p, q)
      BY <1>1, <2>1, AddedIs
    <3>2. QED
      BY <3>1 DEF RowMore, QuantityMore
  <2>5. ~ Broken(carts'[n].items)
    BY <1>2, <2>2, <2>4, CartsAssumption DEF Broken
  <2>6. QED
    BY <1>4, <1>7, <2>2, <2>3, <2>4, <2>5
<1>12. CASE Updates(c)
  <2> DEFINE n == copy[c].cart
  <2>1. n \in DOMAIN carts /\ \A m \in DOMAIN carts' : m \in DOMAIN carts
          /\ c \notin Writers(m)'
    BY <1>6, <1>12, WritesIs DEF Updates
  <2>2. \A m \in DOMAIN carts' : m # n => carts'[m].items = carts[m].items
    BY <1>6, <1>12 DEF Updates
  <2>3. /\ DOMAIN carts'[n].items = DOMAIN carts[n].items
        /\ \A i \in DOMAIN carts[n].items :
             carts'[n].items[i].product = carts[n].items[i].product
    BY <1>1, <1>12, UpdatedIs
  <2>4. ~ Broken(carts'[n].items)
    BY <1>2, <2>1, <2>3 DEF Broken
  <2>5. QED
    BY <1>4, <1>7, <2>1, <2>2, <2>3, <2>4
<1>13. ASSUME NEW n \in DOMAIN carts, c \in Holders(n), Effect(c) \in Emptying,
              ~ Holding(c)'
       PROVE  Writers(n)' = {}
  <2>1. SUFFICES ASSUME NEW d \in Writers(n)' PROVE FALSE
    OBVIOUS
  <2>2. d # c
    BY <1>5, <1>13, <2>1
  <2>3. d \in Writers(n)
    BY <1>3, <2>1, <2>2
  <2>4. QED
    BY <1>1, <1>13, <2>3, WritersAlone
<1>14. CASE Removes(c)
  <2>1. PICK n : n = copy[c].cart
    OBVIOUS
  <2>2. n \in DOMAIN carts /\ \A m \in DOMAIN carts' : m \in DOMAIN carts
          /\ c \notin Writers(m)'
    BY <1>6, <1>14, <2>1, WritesIs DEF Removes
  <2>3. \A m \in DOMAIN carts' : m # n => carts'[m].items = carts[m].items
    BY <1>6, <1>14, <2>1 DEF Removes
  <2>4. Writers(n)' = {}
    <3>1. c \in Holders(n) /\ Effect(c) \in Emptying /\ ~ Holding(c)'
      BY <1>14, <2>1, WritesIs DEF Removes, Effect, Emptying, Writes
    <3>2. QED
      BY <1>13, <2>2, <3>1
  <2>5. ~ Broken(carts'[n].items)
    <3>1. carts'[n].items = Without(copy[c].items, job[c].product)
            /\ ~ Broken(copy[c].items)
      BY <1>14, <2>1, WritesIs DEF Removes
    <3>2. \A k \in DOMAIN carts'[n].items :
            \E i \in DOMAIN copy[c].items : carts'[n].items[k] = copy[c].items[i]
      BY <3>1, CallsAre, WithoutIs
    <3>3. QED
      BY <3>1, <3>2 DEF Broken
  <2>6. QED
    BY <1>4, <2>2, <2>3, <2>4, <2>5
<1>15. CASE Empties(c)
  <2>1. PICK n : n = copy[c].cart
    OBVIOUS
  <2>2. n \in DOMAIN carts /\ \A m \in DOMAIN carts' : m \in DOMAIN carts
          /\ c \notin Writers(m)'
    BY <1>6, <1>15, <2>1, WritesIs DEF Empties
  <2>3. \A m \in DOMAIN carts' : m # n => carts'[m].items = carts[m].items
    BY <1>6, <1>15, <2>1 DEF Empties
  <2>4. Writers(n)' = {}
    <3>1. c \in Holders(n) /\ Effect(c) \in Emptying /\ ~ Holding(c)'
      BY <1>15, <2>1, WritesIs DEF Empties, Emptying, Writes
    <3>2. QED
      BY <1>13, <2>2, <3>1
  <2>5. ~ Broken(carts'[n].items)
    <3>1. carts'[n].items = IF copy[c].items = << >> THEN carts[n].items ELSE << >>
      BY <1>15, <2>1, WritesIs DEF Empties
    <3>2. ~ Broken(carts[n].items) /\ ~ Broken(<< >>)
      BY <1>2, <2>2, NoRows DEF Broken
    <3>3. QED
      BY <3>1, <3>2
  <2>6. QED
    BY <1>4, <2>2, <2>3, <2>4, <2>5
<1>16. CASE Sells(c)
  <2>1. \A n : c \notin Writers(n)'
    BY <1>16 DEF Sells, Writers, Holders, Effect
  <2>2. QED
    BY <1>4, <1>16, <2>1 DEF Sells
<1>17. QED
  BY <1>8, <1>9, <1>10, <1>11, <1>12, <1>14, <1>15, <1>16 DEF Step

(* A cart that one call at a time holds is exact *)

\* Rows that come to what is counted, one for a product.
Tallies(items, counts) ==
  /\ \A p \in Products : InCart(items, p) = counts[p]
  /\ \A i, j \in DOMAIN items : items[i].product = items[j].product => i = j

\* What an addition, and a change of quantity, make of rows and of counts.
AddsTo(items, p, q, new) ==
  LET i == Find(items, p)
  IN  new = IF i = 0 THEN Append(items, [product |-> p, quantity |-> q])
            ELSE SetQuantity(items, i, items[i].quantity + q)
SetsTo(items, i, q, new) ==
  new = IF q = items[i].quantity THEN items ELSE SetQuantity(items, i, q)
CountsTo(counts, p, v, other) ==
  \A r \in Products : other[r] = IF r = p THEN v ELSE counts[r]

LEMMA AddTallies ==
  ASSUME NEW items \in Seq(Row), NEW counts, Tallies(items, counts),
         NEW p \in Products, NEW q \in Nat, NEW new, AddsTo(items, p, q, new),
         NEW v, v = counts[p] + q, NEW more, CountsTo(counts, p, v, more)
  PROVE  Tallies(new, more) /\ Units(new) = Units(items) + q
<1>1. /\ Units(items) \in Nat /\ \A r : InCart(items, r) \in Nat
  BY RowsComeTo
<1>2. PICK i : i = Find(items, p)
  OBVIOUS
<1>3. \/ i \in DOMAIN items /\ i # 0 /\ items[i].product = p
      \/ i = 0 /\ \A j \in DOMAIN items : items[j].product # p
  BY <1>2, FindFinds
<1>4. new = IF i = 0 THEN Append(items, [product |-> p, quantity |-> q])
            ELSE SetQuantity(items, i, items[i].quantity + q)
  BY <1>2 DEF AddsTo
<1>5. \A r \in Products : more[r] = counts[r] + IF p = r THEN q ELSE 0
  BY <1>1 DEF Tallies, CountsTo
<1>6. CASE i = 0
  <2>1. PICK k : k = Len(items) + 1
    OBVIOUS
  <2>2. p \in Products \cup {Gone}
    OBVIOUS
  <2>3. /\ DOMAIN new = DOMAIN items \cup {k} /\ k \notin DOMAIN items
        /\ \A j \in DOMAIN items : new[j] = items[j]
        /\ new[k].product = p
        /\ Units(new) = Units(items) + q
        /\ \A r : InCart(new, r) = InCart(items, r) + IF r = p THEN q ELSE 0
    BY <1>6, <1>4, <2>1, <2>2, AddRow
  <2>4. \A j \in DOMAIN items : items[j].product # p
    BY <1>6, <1>3
  <2>5. \A l, j \in DOMAIN new : new[l].product = new[j].product => l = j
    BY <2>3, <2>4 DEF Tallies
  <2>6. \A r \in Products : InCart(new, r) = more[r]
    BY <1>1, <1>5, <2>3 DEF Tallies
  <2>7. QED
    BY <2>3, <2>5, <2>6 DEF Tallies
<1>7. CASE i # 0
  <2>1. i \in DOMAIN items /\ items[i].product = p
    BY <1>7, <1>3
  <2>2. items[i].quantity \in Nat
    BY <2>1, RowsAre
  <2>3. PICK w \in Nat : w = items[i].quantity + q
    BY <2>2
  <2>4. new = SetQuantity(items, i, w)
    BY <1>7, <1>4, <2>3
  <2>5. /\ DOMAIN new = DOMAIN items
        /\ \A j \in DOMAIN items : new[j].product = items[j].product
        /\ Units(new) = Units(items) + (w - items[i].quantity)
        /\ \A r : InCart(new, r) =
                    InCart(items, r) + IF items[i].product = r
                                       THEN w - items[i].quantity ELSE 0
    <3>1. OneSet(items, i, w, new)
      BY <2>1, <2>4, SetInPlace
    <3>2. QED
      BY <3>1 DEF OneSet
  <2>6. w - items[i].quantity = q
    BY <2>2, <2>3
  <2>7. /\ DOMAIN new = DOMAIN items
        /\ \A j \in DOMAIN items : new[j].product = items[j].product
        /\ Units(new) = Units(items) + q
        /\ \A r : InCart(new, r) = InCart(items, r) + IF p = r THEN q ELSE 0
    BY <2>1, <2>4, <2>5, <2>6
  <2>8. \A r \in Products : InCart(new, r) = more[r]
    BY <1>1, <1>5, <2>7 DEF Tallies
  <2>9. QED
    BY <2>7, <2>8 DEF Tallies
<1>8. QED
  BY <1>6, <1>7

LEMMA UpdateTallies ==
  ASSUME NEW items \in Seq(Row), NEW counts, Tallies(items, counts),
         NEW i \in DOMAIN items, NEW p \in Products, items[i].product = p,
         NEW q \in Nat, NEW new,
         SetsTo(items, i, q, new), NEW other, CountsTo(counts, p, q, other)
  PROVE  /\ Tallies(new, other)
         /\ Units(new) = Units(items) - items[i].quantity + q
<1>1. /\ Units(items) \in Nat /\ items[i].quantity \in Nat
      /\ \A r : InCart(items, r) \in Nat
      /\ InCart(items, p) = items[i].quantity
  BY RowsAre, RowsComeTo, OneRow DEF Tallies
<1>2. CASE q = items[i].quantity
  <2>1. new = items /\ \A r \in Products : other[r] = counts[r]
    BY <1>1, <1>2 DEF Tallies, SetsTo, CountsTo
  <2>2. Units(items) = Units(items) - items[i].quantity + q
    BY <1>1, <1>2
  <2>3. QED
    BY <2>1, <2>2 DEF Tallies
<1>3. CASE q # items[i].quantity
  <2>1. new = SetQuantity(items, i, q)
    BY <1>3 DEF SetsTo
  <2>2. /\ DOMAIN new = DOMAIN items
        /\ \A j \in DOMAIN items : new[j].product = items[j].product
        /\ Units(new) = Units(items) + (q - items[i].quantity)
        /\ \A r : InCart(new, r) =
                    InCart(items, r) + IF items[i].product = r
                                       THEN q - items[i].quantity ELSE 0
    <3>1. OneSet(items, i, q, new)
      BY <2>1, SetInPlace
    <3>2. QED
      BY <3>1 DEF OneSet
  <2>3. \A r \in Products : InCart(new, r) = other[r]
    BY <1>1, <2>2 DEF Tallies, CountsTo
  <2>4. Units(new) = Units(items) - items[i].quantity + q
    BY <1>1, <2>2
  <2>5. QED
    BY <2>2, <2>3, <2>4 DEF Tallies
<1>4. QED
  BY <1>2, <1>3

LEMMA ExactIs ==
  \A n : Exact(n) <=> /\ carts[n].subtotal = Units(carts[n].items)
                      /\ Tallies(carts[n].items, basket[n])
  BY DEF Exact, Tallies

\* While no two have held a cart at once, who writes one holds what it writes to.
LEMMA ExactWrites ==
  ASSUME TypeOK, \A d \in Calls : CallOK(d), PairsNoted, AloneIsExact, crossed' = {},
         NEW c \in Calls, Step(c), NEW items, NEW subtotal, Writes(c, items, subtotal),
         NEW n, n = copy[c].cart,
         \A m \in DOMAIN carts \ {n} : basket'[m] = basket[m],
         subtotal = Units(items), Tallies(items, basket'[n])
  PROVE  AloneIsExact'
<1>1. crossed = {}
  BY StepKeeps
<1>2. /\ n \in DOMAIN carts /\ c \in Holders(n) /\ DOMAIN carts' = DOMAIN carts
      /\ carts'[n].items = items /\ carts'[n].subtotal = Saved(c, subtotal)
      /\ \A m \in DOMAIN carts \ {n} : carts'[m] = carts[m]
      /\ ~ Holding(c)' /\ subtotal \in Nat
  BY WritesIs DEF Writes
<1>3. \A m \in DOMAIN carts : /\ Exact(m)
                              /\ \A d \in Holders(m) : /\ copy[d].items = carts[m].items
                                                       /\ copy[d].subtotal = carts[m].subtotal
  BY <1>1 DEF AloneIsExact
<1>4. Saved(c, subtotal) = subtotal
  BY <1>2, <1>3, SavedIs
<1>5. ASSUME NEW m \in DOMAIN carts, NEW d \in Holders(m)'
      PROVE  d # c /\ d \in Holders(m) /\ copy'[d] = copy[d]
  <2>1. d \in Calls /\ Holding(d)' /\ copy'[d].cart = m /\ d # c
    BY <1>2 DEF Holders
  <2>2. Holding(d) /\ copy'[d] = copy[d]
    BY <2>1, OthersHold
  <2>3. QED
    BY <2>1, <2>2 DEF Holders
<1>6. Holders(n)' = {}
  <2>1. SUFFICES ASSUME NEW d \in Holders(n)' PROVE FALSE
    OBVIOUS
  <2>2. d # c /\ d \in Holders(n)
    BY <1>2, <1>5
  <2>3. {Effect(c), Effect(d)} \in crossed
    BY <1>2, <2>2, Together
  <2>4. QED
    BY <1>1, <2>3
<1>7. /\ carts'[n].subtotal = Units(carts'[n].items)
      /\ Tallies(carts'[n].items, basket'[n])
  BY <1>2, <1>4
<1>8. ASSUME NEW m \in DOMAIN carts, m # n
      PROVE  /\ Exact(m)'
             /\ \A d \in Holders(m)' : /\ copy'[d].items = carts'[m].items
                                       /\ copy'[d].subtotal = carts'[m].subtotal
  BY <1>2, <1>3, <1>5, <1>8 DEF Exact
<1>9. Exact(n)'
  BY <1>7 DEF Exact, Tallies
<1>10. QED
  BY <1>2, <1>6, <1>8, <1>9 DEF AloneIsExact

LEMMA ExactStep ==
  ASSUME TypeOK, \A d \in Calls : CallOK(d), PairsNoted, AloneIsExact, NEW c \in Calls,
         Step(c)
  PROVE  AloneIsExact'
<1> SUFFICES ASSUME crossed' = {} PROVE AloneIsExact'
  BY DEF AloneIsExact
<1>1. crossed = {}
  BY StepKeeps
<1>2. \A n \in DOMAIN carts : /\ Exact(n)
                              /\ \A d \in Holders(n) : /\ copy[d].items = carts[n].items
                                                       /\ copy[d].subtotal = carts[n].subtotal
  BY <1>1 DEF AloneIsExact
<1>3. ASSUME NEW n, NEW d \in Holders(n)', d # c
      PROVE  d \in Holders(n) /\ copy'[d] = copy[d] /\ n \in DOMAIN carts
  <2>1. d \in Calls /\ Holding(d)' /\ copy'[d].cart = n
    BY DEF Holders
  <2>2. Holding(d) /\ copy'[d] = copy[d]
    BY <1>3, <2>1, OthersHold
  <2>3. QED
    BY <2>1, <2>2 DEF Holders, CallOK
<1>4. ASSUME NEW n \in DOMAIN carts, carts'[n].items = carts[n].items,
             carts'[n].subtotal = carts[n].subtotal, basket'[n] = basket[n],
             c \in Holders(n)' =>
               /\ copy'[c].items = carts[n].items
                  /\ copy'[c].subtotal = carts[n].subtotal
      PROVE  /\ Exact(n)'
             /\ \A d \in Holders(n)' : /\ copy'[d].items = carts'[n].items
                                       /\ copy'[d].subtotal = carts'[n].subtotal
  <2>1. Exact(n)'
    BY <1>2, <1>4 DEF Exact
  <2>2. QED
    BY <1>2, <1>3, <1>4, <2>1
<1>5. CASE Lets(c)
  <2>1. ASSUME NEW n \in DOMAIN carts, c \in Holders(n)'
        PROVE  copy'[c].items = carts[n].items /\ copy'[c].subtotal = carts[n].subtotal
    BY <1>2, <1>5, <2>1 DEF Lets, Holders
  <2>2. QED
    BY <1>4, <1>5, <2>1 DEF Lets, RowsStay, AloneIsExact
<1>6. CASE \E m \in DOMAIN carts : Joins(c, m)
  <2>1. PICK m \in DOMAIN carts : Joins(c, m)
    BY <1>6
  <2>2. ASSUME NEW n \in DOMAIN carts, c \in Holders(n)'
        PROVE  copy'[c].items = carts[n].items /\ copy'[c].subtotal = carts[n].subtotal
    <3>1. n = m
      BY <2>1, <2>2 DEF Joins, Holders
    <3>2. QED
      BY <2>1, <3>1 DEF Joins
  <2>3. QED
    BY <1>4, <2>1, <2>2 DEF Joins, RowsStay, AloneIsExact
<1>7. CASE \E m : Creates(c, m)
  <2>1. PICK m : Creates(c, m)
    BY <1>7
  <2>2. /\ DOMAIN carts' = DOMAIN carts \cup {m} /\ m \notin DOMAIN carts
        /\ \A n \in DOMAIN carts : /\ carts'[n].items = carts[n].items
                                   /\ carts'[n].subtotal = carts[n].subtotal
                                   /\ basket'[n] = basket[n]
        /\ carts'[m].items = << >> /\ carts'[m].subtotal = 0
        /\ basket'[m] = [p \in Products |-> 0]
        /\ Holding(c)' => /\ copy'[c].cart = m /\ copy'[c].items = << >>
                          /\ copy'[c].subtotal = 0
    BY <2>1 DEF Creates
  <2>3. \A n \in DOMAIN carts : c \notin Holders(n)'
    BY <2>2 DEF Holders
  <2>4. Exact(m)'
    BY <2>2, NoRows DEF Exact
  <2>5. ASSUME NEW d \in Holders(m)'
        PROVE  copy'[d].items = carts'[m].items
                 /\ copy'[d].subtotal = carts'[m].subtotal
    <3>1. d = c
      BY <1>3, <2>2, <2>5
    <3>2. QED
      BY <2>2, <3>1 DEF Holders
  <2>6. QED
    BY <1>4, <2>2, <2>3, <2>4, <2>5 DEF AloneIsExact
<1>8. ASSUME NEW n, NEW items, NEW subtotal, Writes(c, items, subtotal),
             n = copy[c].cart
      PROVE  /\ n \in DOMAIN carts /\ carts[n].items \in Seq(Row)
             /\ basket[n] \in [Products -> Nat]
             /\ copy[c].items = carts[n].items
             /\ Tallies(carts[n].items, basket[n])
  <2>1. n \in DOMAIN carts /\ c \in Holders(n)
    BY <1>8, WritesIs
  <2>2. QED
    BY <1>2, <2>1, CartsAre, ExactIs DEF TypeOK
<1>9. CASE \E p \in Products, q \in Nat : Adds(c, p, q)
  <2>1. PICK p \in Products, q \in Nat : Adds(c, p, q)
    BY <1>9
  <2>2. PICK n, new : n = copy[c].cart /\ new = AddedRows(c, p, q)
    OBVIOUS
  <2>3. Writes(c, new, Units(copy[c].items) + q)
    BY <2>1, <2>2 DEF Adds
  <2>4. PICK items : items = carts[n].items
    OBVIOUS
  <2>5. /\ n \in DOMAIN carts /\ items \in Seq(Row) /\ basket[n] \in [Products -> Nat]
        /\ copy[c].items = items /\ Tallies(items, basket[n])
    BY <1>8, <2>2, <2>3, <2>4
  <2>6. AddsTo(items, p, q, new)
    BY <2>2, <2>4, <2>5 DEF AddedRows, AddsTo
  <2>7. PICK counts, more : /\ counts = basket[n] /\ more = basket'[n]
                            /\ counts \in [Products -> Nat]
    BY <2>5
  <2>8. \A m \in DOMAIN carts \ {n} : basket'[m] = basket[m]
    BY <2>1, <2>2, <2>5 DEF Adds, TypeOK
  <2>9. Tallies(new, more) /\ Units(new) = Units(items) + q
    <3>1. Tallies(items, counts)
      BY <2>5, <2>7
    <3>2. PICK v : v = counts[p] + q
      OBVIOUS
    <3>3. CountsTo(counts, p, v, more)
      BY <2>1, <2>2, <2>5, <2>7, <3>2 DEF Adds, TypeOK, CountsTo
    <3>4. items \in Seq(Row)
      BY <2>5
    <3>5. QED
      BY <2>6, <3>1, <3>2, <3>3, <3>4, AddTallies
  <2>10. PICK subtotal : subtotal = Units(copy[c].items) + q
    OBVIOUS
  <2>11. /\ Writes(c, new, subtotal) /\ subtotal = Units(new)
         /\ Tallies(new, basket'[n])
    BY <2>3, <2>5, <2>7, <2>9, <2>10
  <2>12. QED
    BY <2>2, <2>8, <2>11, ExactWrites
<1>10. CASE Updates(c)
  <2>1. PICK n, new, p, q, i : /\ n = copy[c].cart /\ p = job[c].product
                               /\ q = job[c].quantity /\ i = Find(copy[c].items, p)
                               /\ new = IF q = copy[c].items[i].quantity
                                        THEN carts[n].items
                                        ELSE SetQuantity(carts[n].items, i, q)
    OBVIOUS
  <2>2. /\ Writes(c, new, Units(copy[c].items) - copy[c].items[i].quantity + q)
        /\ p \in Products /\ q \in Nat
        /\ i \in DOMAIN copy[c].items /\ copy[c].items[i].product = p
        /\ basket' = [basket EXCEPT ![n][p] = q]
    BY <1>10, <2>1 DEF Updates
  <2>3. PICK items : items = carts[n].items
    OBVIOUS
  <2>4. /\ n \in DOMAIN carts /\ items \in Seq(Row) /\ basket[n] \in [Products -> Nat]
        /\ copy[c].items = items /\ Tallies(items, basket[n])
    BY <1>8, <2>1, <2>2, <2>3
  <2>5. /\ i \in DOMAIN items /\ items[i].product = p
        /\ SetsTo(items, i, q, new)
    BY <2>1, <2>2, <2>3, <2>4 DEF SetsTo
  <2>6. PICK counts, other : /\ counts = basket[n] /\ other = basket'[n]
                             /\ counts \in [Products -> Nat]
    BY <2>4
  <2>7. /\ CountsTo(counts, p, q, other)
        /\ \A m \in DOMAIN carts \ {n} : basket'[m] = basket[m]
    BY <2>2, <2>4, <2>6 DEF TypeOK, CountsTo
  <2>8. /\ Tallies(new, other)
        /\ Units(new) = Units(items) - items[i].quantity + q
    <3>1. Tallies(items, counts)
      BY <2>4, <2>6
    <3>2. /\ items \in Seq(Row) /\ i \in DOMAIN items /\ items[i].product = p
          /\ p \in Products /\ q \in Nat
          /\ SetsTo(items, i, q, new) /\ CountsTo(counts, p, q, other)
      BY <2>2, <2>4, <2>5, <2>7
    <3>3. QED
      BY <3>1, <3>2, UpdateTallies
  <2>9. PICK subtotal : subtotal = Units(copy[c].items) - copy[c].items[i].quantity + q
    OBVIOUS
  <2>10. /\ Writes(c, new, subtotal) /\ subtotal = Units(new)
         /\ Tallies(new, basket'[n])
    BY <2>2, <2>4, <2>6, <2>8, <2>9
  <2>11. n = copy[c].cart /\ \A m \in DOMAIN carts \ {n} : basket'[m] = basket[m]
    BY <2>1, <2>7
  <2>12. QED
    BY <2>10, <2>11, ExactWrites
<1>11. CASE Removes(c)
  <2>1. PICK n, p, new : /\ n = copy[c].cart /\ p = job[c].product
                         /\ new = Without(copy[c].items, p)
    OBVIOUS
  <2>2. /\ Writes(c, new, Units(new)) /\ p \in Products
        /\ basket' = [basket EXCEPT ![n][p] = 0]
    BY <1>11, <2>1 DEF Removes
  <2>3. PICK items : items = carts[n].items
    OBVIOUS
  <2>4. /\ n \in DOMAIN carts /\ items \in Seq(Row) /\ basket[n] \in [Products -> Nat]
        /\ copy[c].items = items /\ Tallies(items, basket[n])
    BY <1>8, <2>1, <2>2, <2>3
  <2>5. /\ basket'[n] = [basket[n] EXCEPT ![p] = 0]
        /\ \A m \in DOMAIN carts \ {n} : basket'[m] = basket[m]
    BY <2>2, <2>4 DEF TypeOK
  <2>6. new = Without(items, p)
    BY <2>1, <2>4
  <2>7. /\ \A k, l \in DOMAIN new : new[k].product = new[l].product => k = l
        /\ \A r : InCart(new, r) = IF r = p THEN 0 ELSE InCart(items, r)
    BY <2>4, <2>6, WithoutIs DEF Tallies
  <2>8. Tallies(new, basket'[n])
    BY <2>4, <2>5, <2>7 DEF Tallies
  <2>9. QED
    BY <2>1, <2>2, <2>5, <2>8, ExactWrites
<1>12. CASE Empties(c)
  <2>1. PICK n, new : /\ n = copy[c].cart
                      /\ new = IF copy[c].items = << >> THEN carts[n].items ELSE << >>
    OBVIOUS
  <2>2. Writes(c, new, 0) /\ basket' = [basket EXCEPT ![n] = [p \in Products |-> 0]]
    BY <1>12, <2>1 DEF Empties
  <2>3. n \in DOMAIN carts /\ copy[c].items = carts[n].items
    BY <1>8, <2>1, <2>2
  <2>4. new = << >>
    BY <2>1, <2>3
  <2>5. /\ basket'[n] = [p \in Products |-> 0]
        /\ \A m \in DOMAIN carts \ {n} : basket'[m] = basket[m]
    BY <2>2, <2>3 DEF TypeOK
  <2>6. 0 = Units(new) /\ Tallies(new, basket'[n])
    BY <2>4, <2>5, NoRows DEF Tallies
  <2>7. QED
    BY <2>1, <2>2, <2>5, <2>6, ExactWrites
<1>13. CASE Sells(c)
  <2>1. ASSUME NEW n \in DOMAIN carts, c \in Holders(n)'
        PROVE  copy'[c].items = carts[n].items /\ copy'[c].subtotal = carts[n].subtotal
    BY <1>2, <1>13, <2>1 DEF Sells, Holders, Holding
  <2>2. QED
    BY <1>4, <1>13, <2>1 DEF Sells, AloneIsExact
<1>14. QED
  BY <1>5, <1>6, <1>7, <1>9, <1>10, <1>11, <1>12, <1>13 DEF Step

(* How much a cart may come to hold *)

\* What the rows of a cart come to at their peaks.
AtPeak(n, p) == SumOn(Peaks(n, p), DOMAIN carts[n].items)

PeakFacts ==
  \A n \in DOMAIN carts :
    /\ IsFiniteSet(DOMAIN carts[n].items)
    /\ \A i \in DOMAIN carts[n].items :
         /\ Peak(n, i) \in Nat /\ carts[n].items[i].quantity <= Peak(n, i)
         /\ carts[n].items[i].quantity \in Nat
         /\ \A c \in Writers(n) : i \in DOMAIN copy[c].items =>
              copy[c].items[i].quantity \in Nat
                /\ copy[c].items[i].quantity <= Peak(n, i)
         /\ \/ Peak(n, i) = carts[n].items[i].quantity
            \/ \E c \in Writers(n) : /\ i \in DOMAIN copy[c].items
                                     /\ Peak(n, i) = copy[c].items[i].quantity
    /\ \A p : \A i \in DOMAIN carts[n].items :
         Peaks(n, p)[i] = IF carts[n].items[i].product = p THEN Peak(n, i) ELSE 0

LEMMA PeakIs == TypeOK => PeakFacts
<1> SUFFICES ASSUME TypeOK, NEW n \in DOMAIN carts
             PROVE  /\ IsFiniteSet(DOMAIN carts[n].items)
                    /\ \A i \in DOMAIN carts[n].items :
                         /\ Peak(n, i) \in Nat
                            /\ carts[n].items[i].quantity <= Peak(n, i)
                         /\ carts[n].items[i].quantity \in Nat
                         /\ \A c \in Writers(n) : i \in DOMAIN copy[c].items =>
                              /\ copy[c].items[i].quantity \in Nat
                              /\ copy[c].items[i].quantity <= Peak(n, i)
                         /\ \/ Peak(n, i) = carts[n].items[i].quantity
                            \/ \E c \in Writers(n) :
                                 /\ i \in DOMAIN copy[c].items
                                 /\ Peak(n, i) = copy[c].items[i].quantity
                    /\ \A p : \A i \in DOMAIN carts[n].items :
                         Peaks(n, p)[i] = IF carts[n].items[i].product = p
                                          THEN Peak(n, i) ELSE 0
  BY DEF PeakFacts
<1>1. /\ IsFiniteSet(DOMAIN carts[n].items)
      /\ \A i \in DOMAIN carts[n].items : carts[n].items[i].quantity \in Nat
  BY CartsAre, RowsAre
<1>2. ASSUME NEW i \in DOMAIN carts[n].items
      PROVE  /\ Peak(n, i) \in Nat /\ carts[n].items[i].quantity <= Peak(n, i)
             /\ \A c \in Writers(n) : i \in DOMAIN copy[c].items =>
                  copy[c].items[i].quantity \in Nat
                    /\ copy[c].items[i].quantity <= Peak(n, i)
             /\ \/ Peak(n, i) = carts[n].items[i].quantity
                \/ \E c \in Writers(n) : /\ i \in DOMAIN copy[c].items
                                         /\ Peak(n, i) = copy[c].items[i].quantity
  <2>1. PICK ds : ds = {d \in Writers(n) : i \in DOMAIN copy[d].items}
    OBVIOUS
  <2>2. PICK f : f = [c \in ds |-> copy[c].items[i].quantity]
    OBVIOUS
  <2>3. \A c \in ds : f[c] = copy[c].items[i].quantity /\ f[c] \in Nat
    <3>1. ASSUME NEW c \in ds PROVE copy[c].items[i].quantity \in Nat
      <4>1. c \in Calls /\ i \in DOMAIN copy[c].items
        BY <2>1 DEF Writers, Holders
      <4>2. copy[c].items \in Seq(Row)
        BY <4>1, CallsAre
      <4>3. QED
        BY <4>1, <4>2, RowsAre
    <3>2. QED
      BY <2>2, <3>1
  <2>4. IsFiniteSet(ds)
    <3>1. ds \subseteq Calls
      BY <2>1 DEF Writers, Holders
    <3>2. QED
      BY <3>1, CartsAssumption, FS_Subset
  <2>5. PICK S : S = {carts[n].items[i].quantity} \cup {f[c] : c \in ds}
    OBVIOUS
  <2>6. IsFiniteSet(S)
    <3>1. IsFiniteSet({f[c] : c \in ds})
      BY <2>4, ImageFinite
    <3>2. S = {f[c] : c \in ds} \cup {carts[n].items[i].quantity}
      BY <2>5
    <3>3. QED
      BY <3>1, <3>2, FS_AddElement
  <2>7. S # {} /\ S \subseteq Nat
    BY <1>1, <2>3, <2>5
  <2>8. Peak(n, i) = Most(S)
    <3>1. {copy[c].items[i].quantity : c \in ds} = {f[c] : c \in ds}
      BY <2>3
    <3>2. QED
      BY <2>1, <2>5, <3>1 DEF Peak
  <2>9. Peak(n, i) \in S /\ Peak(n, i) \in Nat /\ \A x \in S : x <= Peak(n, i)
    BY <2>6, <2>7, <2>8, MostIs
  <2>10. \A c \in Writers(n) : i \in DOMAIN copy[c].items => c \in ds
    BY <2>1
  <2>11. \A c \in ds : c \in Writers(n) /\ i \in DOMAIN copy[c].items
    BY <2>1
  <2>12. QED
    BY <2>3, <2>5, <2>9, <2>10, <2>11
<1>3. \A p : \A i \in DOMAIN carts[n].items :
        Peaks(n, p)[i] = IF carts[n].items[i].product = p THEN Peak(n, i) ELSE 0
  BY DEF Peaks
<1>4. QED
  BY <1>1, <1>2, <1>3

LEMMA AtPeakIs ==
  ASSUME TypeOK, NEW n \in DOMAIN carts, NEW p
  PROVE  /\ AtPeak(n, p) \in Nat /\ InCart(carts[n].items, p) <= AtPeak(n, p)
         /\ Writers(n) = {} => AtPeak(n, p) = InCart(carts[n].items, p)
<1>1. PICK items \in Seq(Row) : items = carts[n].items
  BY CartsAre
<1>2. PICK f, h, rows : /\ f = Peaks(n, p) /\ h = QuantityOf(items, p)
                        /\ rows = DOMAIN items
  OBVIOUS
<1>3. /\ IsFiniteSet(rows)
      /\ \A i \in rows : /\ f[i] \in Nat /\ h[i] \in Nat /\ h[i] <= f[i]
                         /\ Writers(n) = {} => f[i] = h[i]
  <2>1. /\ IsFiniteSet(rows)
        /\ \A i \in rows :
             /\ Peak(n, i) \in Nat /\ items[i].quantity \in Nat
             /\ items[i].quantity <= Peak(n, i)
             /\ Writers(n) = {} => Peak(n, i) = items[i].quantity
             /\ f[i] = IF items[i].product = p THEN Peak(n, i) ELSE 0
    BY <1>1, <1>2, PeakIs DEF PeakFacts
  <2>2. \A i \in rows : h[i] = IF items[i].product = p THEN items[i].quantity ELSE 0
    BY <1>2, RowsComeTo
  <2>3. QED
    BY <2>1, <2>2
<1>4. SumOn(f, rows) \in Nat /\ SumOn(h, rows) <= SumOn(f, rows)
  BY <1>3, SumIsNat, SumAtMost
<1>5. ASSUME Writers(n) = {} PROVE SumOn(f, rows) = SumOn(h, rows)
  <2>1. \A i \in rows : f[i] \in Int /\ f[i] = h[i]
    BY <1>3, <1>5
  <2>2. QED
    BY <1>3, <2>1, SumAgree
<1>6. AtPeak(n, p) = SumOn(f, rows) /\ InCart(carts[n].items, p) = SumOn(h, rows)
  BY <1>1, <1>2 DEF AtPeak, InCart
<1>7. QED
  BY <1>4, <1>5, <1>6

ReachFacts ==
  \A n \in DOMAIN carts : \A p :
    /\ Reach(n, p) \in Nat
    /\ Writers(n) # {} => Reach(n, p) = AtPeak(n, p)
    /\ Keepers(n) = {} /\ ~ Sold(n) => Reach(n, p) = AtPeak(n, p)
    /\ Writers(n) = {} =>
         /\ ~ Sold(n) => InCart(carts[n].items, p) <= Reach(n, p)
         /\ \A c \in Keepers(n) : InCart(copy[c].items, p) <= Reach(n, p)
         /\ \A m \in Nat : /\ ~ Sold(n) => InCart(carts[n].items, p) <= m
                           /\ \A c \in Keepers(n) : InCart(copy[c].items, p) <= m
                           => Reach(n, p) <= m
    /\ InCart(carts[n].items, p) \in Nat
    /\ InCart(carts[n].items, p) <= AtPeak(n, p) /\ AtPeak(n, p) \in Nat

LEMMA ReachIs == TypeOK => ReachFacts
<1> SUFFICES ASSUME TypeOK, NEW n \in DOMAIN carts, NEW p
             PROVE  /\ Reach(n, p) \in Nat
                    /\ Writers(n) # {} => Reach(n, p) = AtPeak(n, p)
                    /\ Keepers(n) = {} /\ ~ Sold(n) => Reach(n, p) = AtPeak(n, p)
                    /\ Writers(n) = {} =>
                         /\ ~ Sold(n) => InCart(carts[n].items, p) <= Reach(n, p)
                         /\ \A c \in Keepers(n) :
                                InCart(copy[c].items, p) <= Reach(n, p)
                         /\ \A m \in Nat :
                              /\ ~ Sold(n) => InCart(carts[n].items, p) <= m
                              /\ \A c \in Keepers(n) : InCart(copy[c].items, p) <= m
                              => Reach(n, p) <= m
                    /\ InCart(carts[n].items, p) \in Nat
                    /\ InCart(carts[n].items, p) <= AtPeak(n, p) /\ AtPeak(n, p) \in Nat
  BY DEF ReachFacts
<1>1. /\ AtPeak(n, p) \in Nat /\ InCart(carts[n].items, p) <= AtPeak(n, p)
      /\ Writers(n) = {} => AtPeak(n, p) = InCart(carts[n].items, p)
      /\ InCart(carts[n].items, p) \in Nat
  BY AtPeakIs, CartsAre, RowsComeTo
<1>2. CASE Writers(n) # {}
  <2>1. Reach(n, p) = AtPeak(n, p)
    BY <1>2 DEF Reach, AtPeak
  <2>2. QED
    BY <1>1, <1>2, <2>1
<1>3. CASE Writers(n) = {}
  <2>1. PICK ds, f : ds = Keepers(n) /\ f = [c \in ds |-> InCart(copy[c].items, p)]
    OBVIOUS
  <2>2. PICK now : now = IF Sold(n) THEN 0 ELSE InCart(carts[n].items, p)
    OBVIOUS
  <2>3. PICK S : S = {now} \cup {f[c] : c \in ds}
    OBVIOUS
  <2>4. \A c \in ds : f[c] = InCart(copy[c].items, p) /\ f[c] \in Nat
    <3>1. ASSUME NEW c \in ds PROVE InCart(copy[c].items, p) \in Nat
      <4>1. c \in Calls
        BY <2>1 DEF Keepers, Holders
      <4>2. copy[c].items \in Seq(Row)
        BY <4>1, CallsAre
      <4>3. QED
        BY <4>2, RowsComeTo
    <3>2. QED
      BY <2>1, <3>1
  <2>5. IsFiniteSet(S)
    <3>1. ds \subseteq Calls
      BY <2>1 DEF Keepers, Holders
    <3>2. IsFiniteSet(ds)
      BY <3>1, CartsAssumption, FS_Subset
    <3>3. IsFiniteSet({f[c] : c \in ds})
      BY <3>2, ImageFinite
    <3>4. S = {f[c] : c \in ds} \cup {now}
      BY <2>3
    <3>5. QED
      BY <3>3, <3>4, FS_AddElement
  <2>6. S # {} /\ S \subseteq Nat
    BY <1>1, <2>2, <2>3, <2>4
  <2>7. Reach(n, p) = Most(S)
    <3>1. {InCart(copy[c].items, p) : c \in ds} = {f[c] : c \in ds}
      BY <2>4
    <3>2. QED
      BY <1>3, <2>1, <2>2, <2>3, <3>1 DEF Reach
  <2>8. Reach(n, p) \in S /\ Reach(n, p) \in Nat /\ \A x \in S : x <= Reach(n, p)
    BY <2>5, <2>6, <2>7, MostIs
  <2>9. now <= Reach(n, p)
          /\ \A c \in Keepers(n) : InCart(copy[c].items, p) <= Reach(n, p)
    BY <2>1, <2>3, <2>4, <2>8
  <2>10. ASSUME NEW m \in Nat, ~ Sold(n) => InCart(carts[n].items, p) <= m,
                \A c \in Keepers(n) : InCart(copy[c].items, p) <= m
         PROVE  Reach(n, p) <= m
    <3>1. now <= m
      BY <2>2, <2>10
    <3>2. \A c \in ds : f[c] <= m
      BY <2>1, <2>4, <2>10
    <3>3. QED
      BY <2>3, <2>8, <3>1, <3>2
  <2>11. Keepers(n) = {} /\ ~ Sold(n) => Reach(n, p) = InCart(carts[n].items, p)
    BY <2>1, <2>2, <2>3, <2>8
  <2>12. QED
    BY <1>1, <1>3, <2>2, <2>8, <2>9, <2>10, <2>11
<1>4. QED
  BY <1>2, <1>3

\* The same after a step.
LEMMA ReachIsThen == TypeOK' => PeakFacts' /\ ReachFacts'
  BY PeakIs, ReachIs, PTL

\* A sum of which one number is raised, and one that has one number more.
LEMMA SumRises ==
  ASSUME NEW S, IsFiniteSet(S), NEW f, NEW h, NEW i \in S, NEW x \in Nat,
         \A j \in S : f[j] \in Nat /\ h[j] \in Nat,
         \A j \in S \ {i} : h[j] <= f[j], h[i] <= f[i] + x
  PROVE  SumOn(h, S) <= SumOn(f, S) + x
<1>1. PICK R : R = S \ {i}
  OBVIOUS
<1>2. IsFiniteSet(R) /\ \A j \in R : f[j] \in Nat /\ h[j] \in Nat /\ h[j] <= f[j]
  BY <1>1, FS_RemoveElement
<1>3. SumOn(h, R) <= SumOn(f, R) /\ SumOn(h, R) \in Nat /\ SumOn(f, R) \in Nat
  BY <1>2, SumAtMost, SumIsNat
<1>4. \A j \in S : f[j] \in Int /\ h[j] \in Int
  OBVIOUS
<1>5. SumOn(f, S) = f[i] + SumOn(f, R)
  BY <1>1, <1>4, SumRemove
<1>6. SumOn(h, S) = h[i] + SumOn(h, R)
  BY <1>1, <1>4, SumRemove
<1>7. f[i] \in Nat /\ h[i] \in Nat
  OBVIOUS
<1>8. QED
  BY <1>3, <1>5, <1>6, <1>7

LEMMA SumGrows ==
  ASSUME NEW S, IsFiniteSet(S), NEW f, NEW h, NEW k, k \notin S, NEW T, T = S \cup {k},
         \A j \in S : f[j] \in Nat /\ h[j] \in Nat /\ h[j] <= f[j], h[k] \in Nat
  PROVE  SumOn(h, T) <= SumOn(f, S) + h[k]
<1>1. IsFiniteSet(T) /\ k \in T /\ S = T \ {k} /\ \A j \in T : h[j] \in Int
  BY FS_AddElement
<1>2. SumOn(h, T) = h[k] + SumOn(h, S)
  BY <1>1, SumRemove
<1>3. SumOn(h, S) <= SumOn(f, S) /\ SumOn(h, S) \in Nat /\ SumOn(f, S) \in Nat
  BY SumAtMost, SumIsNat
<1>4. QED
  BY <1>2, <1>3

\* A peak is no higher than the row and the copies of those that still hold it.
LEMMA PeakWithin ==
  ASSUME TypeOK, TypeOK', NEW n \in DOMAIN carts, n \in DOMAIN carts',
         Writers(n)' \subseteq Writers(n),
         \A d \in Writers(n)' : copy'[d].items = copy[d].items,
         NEW j \in DOMAIN carts[n].items, j \in DOMAIN carts'[n].items, NEW x \in Nat,
         carts'[n].items[j].quantity <= Peak(n, j) + x
  PROVE  Peak(n, j)' <= Peak(n, j) + x
<1>1. Peak(n, j) \in Nat
  BY PeakIs DEF PeakFacts
<1>2. \/ Peak(n, j)' = carts'[n].items[j].quantity
      \/ \E c \in Writers(n)' : /\ j \in DOMAIN copy'[c].items
                                /\ Peak(n, j)' = copy'[c].items[j].quantity
  BY ReachIsThen DEF PeakFacts
<1>3. ASSUME NEW c \in Writers(n)', j \in DOMAIN copy'[c].items
      PROVE  copy'[c].items[j].quantity \in Nat
               /\ copy'[c].items[j].quantity <= Peak(n, j)
  <2>1. c \in Writers(n) /\ copy'[c].items = copy[c].items
    BY <1>3
  <2>2. QED
    BY <1>3, <2>1, PeakIs DEF PeakFacts
<1>4. QED
  BY <1>1, <1>2, <1>3

Raised(n, i, x, p, raise) ==
  /\ DOMAIN carts'[n].items = DOMAIN carts[n].items
  /\ \A j \in DOMAIN carts[n].items :
       /\ carts'[n].items[j].product = carts[n].items[j].product
       /\ j # i => carts'[n].items[j].quantity = carts[n].items[j].quantity
       /\ j = i => /\ carts'[n].items[j].quantity <= Peak(n, j) + x
                   /\ carts[n].items[j].product = p => raise = x

LEMMA PeaksRise ==
  ASSUME TypeOK, TypeOK', NEW n \in DOMAIN carts, n \in DOMAIN carts', NEW p,
         Writers(n)' \subseteq Writers(n),
         \A d \in Writers(n)' : copy'[d].items = copy[d].items,
         NEW i, NEW x \in Nat, NEW raise \in Nat, Raised(n, i, x, p, raise)
  PROVE  AtPeak(n, p)' <= AtPeak(n, p) + raise
<1>1. /\ DOMAIN carts'[n].items = DOMAIN carts[n].items
      /\ \A j \in DOMAIN carts[n].items :
           /\ carts'[n].items[j].product = carts[n].items[j].product
           /\ j # i => carts'[n].items[j].quantity = carts[n].items[j].quantity
           /\ j = i => /\ carts'[n].items[j].quantity <= Peak(n, j) + x
                       /\ carts[n].items[j].product = p => raise = x
  BY DEF Raised
<1>2. PICK f, h, rows : f = Peaks(n, p) /\ h = Peaks(n, p)'
        /\ rows = DOMAIN carts[n].items
  OBVIOUS
<1>3. /\ IsFiniteSet(rows)
      /\ \A j \in rows :
           /\ f[j] = IF carts[n].items[j].product = p THEN Peak(n, j) ELSE 0
           /\ Peak(n, j) \in Nat /\ carts[n].items[j].quantity <= Peak(n, j)
           /\ carts[n].items[j].quantity \in Nat
  BY <1>2, PeakIs DEF PeakFacts
<1>4. \A j \in rows : /\ h[j] = IF carts[n].items[j].product = p THEN Peak(n, j)' ELSE 0
                      /\ Peak(n, j)' \in Nat /\ carts'[n].items[j].quantity \in Nat
  BY <1>1, <1>2, ReachIsThen DEF PeakFacts
<1>5. \A j \in rows \ {i} : Peak(n, j)' <= Peak(n, j)
  <2>1. ASSUME NEW j \in rows \ {i} PROVE Peak(n, j)' <= Peak(n, j) + 0
    <3>1. /\ j \in DOMAIN carts[n].items /\ j \in DOMAIN carts'[n].items /\ 0 \in Nat
          /\ carts'[n].items[j].quantity <= Peak(n, j) + 0
      BY <1>1, <1>2, <1>3
    <3>2. QED
      BY <3>1, PeakWithin
  <2>2. QED
    BY <1>3, <2>1
<1>6. ASSUME i \in rows PROVE Peak(n, i)' <= Peak(n, i) + x
  <2>1. /\ i \in DOMAIN carts[n].items /\ i \in DOMAIN carts'[n].items
        /\ carts'[n].items[i].quantity <= Peak(n, i) + x
    BY <1>1, <1>2, <1>6
  <2>2. QED
    BY <2>1, PeakWithin
<1>7. /\ AtPeak(n, p) = SumOn(f, rows) /\ AtPeak(n, p)' = SumOn(h, rows)
      /\ \A j \in rows : f[j] \in Nat /\ h[j] \in Nat
      /\ \A j \in rows \ {i} : h[j] <= f[j]
  BY <1>1, <1>2, <1>3, <1>4, <1>5 DEF AtPeak
<1>8. CASE i \in rows /\ carts[n].items[i].product = p
  <2>1. h[i] <= f[i] + raise
    BY <1>1, <1>2, <1>3, <1>4, <1>6, <1>8
  <2>2. QED
    BY <1>3, <1>7, <1>8, <2>1, SumRises
<1>9. CASE ~ (i \in rows /\ carts[n].items[i].product = p)
  <2>1. \A j \in rows : f[j] \in Nat /\ h[j] \in Nat /\ h[j] <= f[j]
    BY <1>3, <1>4, <1>7, <1>9
  <2>2. SumOn(h, rows) <= SumOn(f, rows) /\ SumOn(h, rows) \in Nat
          /\ SumOn(f, rows) \in Nat
    BY <1>3, <2>1, SumAtMost, SumIsNat
  <2>3. QED
    BY <1>7, <2>2
<1>10. QED
  BY <1>8, <1>9

LEMMA PeaksGrow ==
  ASSUME TypeOK, TypeOK', NEW n \in DOMAIN carts, n \in DOMAIN carts', NEW p,
         Writers(n)' \subseteq Writers(n),
         \A d \in Writers(n)' : copy'[d].items = copy[d].items,
         NEW k, DOMAIN carts'[n].items = DOMAIN carts[n].items \cup {k},
         k \notin DOMAIN carts[n].items,
         \A j \in DOMAIN carts[n].items : carts'[n].items[j] = carts[n].items[j],
         \A d \in Writers(n)' : k \notin DOMAIN copy'[d].items,
         NEW raise \in Nat,
         raise = IF carts'[n].items[k].product = p THEN carts'[n].items[k].quantity ELSE 0
  PROVE  AtPeak(n, p)' <= AtPeak(n, p) + raise
<1>1. PICK f, h, rows, more : /\ f = Peaks(n, p) /\ h = Peaks(n, p)'
                              /\ rows = DOMAIN carts[n].items
                              /\ more = DOMAIN carts'[n].items
  OBVIOUS
<1>2. /\ IsFiniteSet(rows)
      /\ \A j \in rows :
           /\ f[j] = IF carts[n].items[j].product = p THEN Peak(n, j) ELSE 0
           /\ Peak(n, j) \in Nat /\ carts[n].items[j].quantity <= Peak(n, j)
           /\ carts[n].items[j].quantity \in Nat
  BY <1>1, PeakIs DEF PeakFacts
<1>3. \A j \in more :
        /\ h[j] = IF carts'[n].items[j].product = p THEN Peak(n, j)' ELSE 0
        /\ Peak(n, j)' \in Nat
  BY <1>1, ReachIsThen DEF PeakFacts
<1>4. \A j \in rows : Peak(n, j)' <= Peak(n, j)
  <2>1. ASSUME NEW j \in rows PROVE Peak(n, j)' <= Peak(n, j) + 0
    <3>1. /\ j \in DOMAIN carts[n].items /\ j \in DOMAIN carts'[n].items /\ 0 \in Nat
          /\ carts'[n].items[j].quantity <= Peak(n, j) + 0
      BY <1>1, <1>2
    <3>2. QED
      BY <3>1, PeakWithin
  <2>2. QED
    BY <1>2, <2>1
<1>5. Peak(n, k)' = carts'[n].items[k].quantity
  <2>1. k \in DOMAIN carts'[n].items
    OBVIOUS
  <2>2. QED
    BY <2>1, ReachIsThen DEF PeakFacts
<1>6. /\ AtPeak(n, p) = SumOn(f, rows) /\ AtPeak(n, p)' = SumOn(h, more)
      /\ \A j \in rows : f[j] \in Nat /\ h[j] \in Nat /\ h[j] <= f[j]
      /\ h[k] = raise /\ more = rows \cup {k} /\ k \notin rows
  BY <1>1, <1>2, <1>3, <1>4, <1>5 DEF AtPeak
<1>7. QED
  BY <1>2, <1>6, SumGrows

\* Unless it was noted, nobody who writes by position holds a cart together with
\* one who empties it, and nobody who sells it with another who sells it or takes
\* a row out.
WritersFree ==
  \A n \in DOMAIN carts :
    Writers(n) # {} => /\ Keepers(n) = {} /\ ~ Sold(n)
                       /\ \A d \in Holders(n) : Effect(d) \notin Emptying
SellersFree ==
  \A n \in DOMAIN carts : \A c, d \in Holders(n) :
    c # d /\ Effect(c) = "checkout" => Effect(d) \notin {"checkout", "remove"}

LEMMA WritersAreFree == PairsNoted /\ ~ Misplaced => WritersFree
<1> SUFFICES ASSUME PairsNoted, ~ Misplaced, NEW n \in DOMAIN carts, Writers(n) # {}
             PROVE  /\ Keepers(n) = {} /\ ~ Sold(n)
                    /\ \A d \in Holders(n) : Effect(d) \notin Emptying
  BY DEF WritersFree
<1>1. PICK c \in Writers(n) : TRUE
  OBVIOUS
<1>2. \A d \in Holders(n) : Effect(d) \notin Emptying
  BY <1>1, WritersAlone
<1>3. \A d \in Holders(n) : job[d].kind \notin {"remove", "checkout"}
  BY <1>2 DEF Effect, Emptying
<1>4. QED
  BY <1>2, <1>3 DEF Keepers, Sold

LEMMA SellersAreFree == PairsNoted /\ ~ Excused => SellersFree
<1> SUFFICES ASSUME PairsNoted, ~ Excused, NEW n \in DOMAIN carts, NEW c \in Holders(n),
                    NEW d \in Holders(n), c # d, Effect(c) = "checkout",
                    Effect(d) \in {"checkout", "remove"}
             PROVE  FALSE
  BY DEF SellersFree
<1>1. {Effect(c), Effect(d)} \in crossed
  BY Together
<1>2. {Effect(c), Effect(d)} \in {{"checkout"}, {"checkout", "remove"}}
  OBVIOUS
<1>3. QED
  BY <1>1, <1>2 DEF Excused

LEMMA FreeThen ==
  /\ PairsNoted' /\ ~ Misplaced' => WritersFree'
  /\ PairsNoted' /\ ~ Excused' => SellersFree'
  BY WritersAreFree, SellersAreFree, PTL

LEMMA ExcusedStays ==
  ASSUME crossed \subseteq crossed', Excused PROVE Excused'
  BY MisplacedStays DEF Excused

\* Of those that hold a cart after a step, only the one that moved may be new.
LEMMA OthersStay ==
  ASSUME TypeOK, \A d \in Calls : CallOK(d), NEW c \in Calls, Step(c), NEW n
  PROVE  /\ \A d \in Holders(n)' : d # c =>
              /\ d \in Holders(n) /\ copy'[d] = copy[d] /\ n \in DOMAIN carts
              /\ d \in Writers(n)' => d \in Writers(n)
              /\ d \in Keepers(n)' => d \in Keepers(n)
              /\ Effect(d)' = Effect(d)
         /\ \A d \in Holders(n) : d # c =>
              /\ d \in Holders(n)' /\ Effect(d)' = Effect(d)
              /\ d \in Writers(n) => d \in Writers(n)'
              /\ job[d].kind = "checkout" /\ pc[d] = "empty" =>
                   job'[d].kind = "checkout" /\ pc'[d] = "empty"
         /\ Writers(n)' \subseteq Holders(n)' /\ Keepers(n)' \subseteq Holders(n)'
<1>1. ASSUME NEW d \in Calls \ {c}
      PROVE  /\ Holding(d)' = Holding(d) /\ Effect(d)' = Effect(d)
             /\ copy'[d] = copy[d] /\ job'[d] = job[d] /\ pc'[d] = pc[d] /\ CallOK(d)
  BY OthersHold
<1>2. ASSUME NEW d \in Holders(n)', d # c
      PROVE  /\ d \in Holders(n) /\ copy'[d] = copy[d] /\ n \in DOMAIN carts
             /\ d \in Writers(n)' => d \in Writers(n)
             /\ d \in Keepers(n)' => d \in Keepers(n)
             /\ Effect(d)' = Effect(d)
  <2>1. d \in Calls \ {c} /\ Holding(d)' /\ copy'[d].cart = n
    BY <1>2 DEF Holders
  <2>2. d \in Holders(n) /\ n \in DOMAIN carts
    BY <1>1, <2>1 DEF Holders, CallOK
  <2>3. QED
    BY <1>1, <2>1, <2>2 DEF Writers, Keepers
<1>3. ASSUME NEW d \in Holders(n), d # c
      PROVE  /\ d \in Holders(n)' /\ Effect(d)' = Effect(d)
             /\ d \in Writers(n) => d \in Writers(n)'
             /\ job[d].kind = "checkout" /\ pc[d] = "empty" =>
                  job'[d].kind = "checkout" /\ pc'[d] = "empty"
  <2>1. d \in Calls \ {c} /\ Holding(d) /\ copy[d].cart = n
    BY <1>3 DEF Holders
  <2>2. d \in Holders(n)'
    BY <1>1, <2>1 DEF Holders
  <2>3. QED
    BY <1>1, <2>1, <2>2 DEF Writers
<1>4. Writers(n)' \subseteq Holders(n)' /\ Keepers(n)' \subseteq Holders(n)'
  BY DEF Writers, Keepers
<1>5. QED
  BY <1>2, <1>3, <1>4

\* Who holds less than before can make no more of it.
LEMMA LessToReach ==
  ASSUME TypeOK, TypeOK', NEW n \in DOMAIN carts, n \in DOMAIN carts', NEW p,
         WritersFree, carts'[n].items = carts[n].items,
         Writers(n)' \subseteq Writers(n), Keepers(n)' \subseteq Keepers(n),
         Sold(n) => Sold(n)',
         \A d \in Writers(n)' \cup Keepers(n)' : copy'[d].items = copy[d].items
  PROVE  Reach(n, p)' <= Reach(n, p)
<1>1. /\ Reach(n, p) \in Nat /\ AtPeak(n, p) \in Nat
      /\ InCart(carts[n].items, p) \in Nat /\ InCart(carts[n].items, p) <= AtPeak(n, p)
      /\ Writers(n) # {} => Reach(n, p) = AtPeak(n, p)
      /\ Writers(n) = {} => /\ ~ Sold(n) => InCart(carts[n].items, p) <= Reach(n, p)
                            /\ \A d \in Keepers(n) :
                                   InCart(copy[d].items, p) <= Reach(n, p)
  BY ReachIs DEF ReachFacts
<1>2. /\ Reach(n, p)' \in Nat
      /\ Writers(n)' # {} => Reach(n, p)' = AtPeak(n, p)'
      /\ Writers(n)' = {} =>
           \A m \in Nat : /\ ~ Sold(n)' => InCart(carts'[n].items, p) <= m
                          /\ \A d \in Keepers(n)' : InCart(copy'[d].items, p) <= m
                          => Reach(n, p)' <= m
  BY ReachIsThen DEF ReachFacts
<1>3. CASE Writers(n)' # {}
  <2>1. AtPeak(n, p)' <= AtPeak(n, p) + 0
    <3>1. PICK i : i \notin DOMAIN carts[n].items
      <4>1. DOMAIN carts[n].items \subseteq Nat
        BY CartsAre, RowsAre
      <4>2. -1 \notin DOMAIN carts[n].items
        BY <4>1
      <4>3. QED
        BY <4>2
    <3>2. /\ 0 \in Nat /\ Raised(n, i, 0, p, 0)
          /\ \A d \in Writers(n)' : copy'[d].items = copy[d].items
      BY <3>1 DEF Raised
    <3>3. QED
      BY <3>2, PeaksRise
  <2>2. QED
    BY <1>1, <1>2, <1>3, <2>1
<1>4. CASE Writers(n)' = {} /\ Writers(n) # {}
  <2>1. Keepers(n)' = {}
    BY <1>4 DEF WritersFree
  <2>2. Reach(n, p)' <= AtPeak(n, p)
    BY <1>1, <1>2, <1>4, <2>1
  <2>3. QED
    BY <1>1, <1>4, <2>2
<1>5. CASE Writers(n)' = {} /\ Writers(n) = {}
  <2>1. /\ ~ Sold(n)' => InCart(carts'[n].items, p) <= Reach(n, p)
        /\ \A d \in Keepers(n)' : InCart(copy'[d].items, p) <= Reach(n, p)
    BY <1>1, <1>5
  <2>2. QED
    BY <1>1, <1>2, <1>5, <2>1
<1>6. QED
  BY <1>3, <1>4, <1>5

LEMMA OthersReach ==
  ASSUME TypeOK, TypeOK', \A d \in Calls : CallOK(d), NEW c \in Calls, Step(c),
         WritersFree,
         NEW n \in DOMAIN carts, carts'[n].items = carts[n].items,
         c \notin Holders(n), c \notin Holders(n)', NEW p
  PROVE  Reach(n, p)' <= Reach(n, p)
<1>1. n \in DOMAIN carts'
  BY StepKeeps
<1>2. /\ Writers(n)' \subseteq Writers(n) /\ Keepers(n)' \subseteq Keepers(n)
      /\ \A d \in Writers(n)' \cup Keepers(n)' : copy'[d].items = copy[d].items
  BY OthersStay
<1>3. ASSUME Sold(n) PROVE Sold(n)'
  <2>1. PICK d \in Holders(n) : job[d].kind = "checkout" /\ pc[d] = "empty"
    BY <1>3 DEF Sold
  <2>2. d \in Holders(n)' /\ job'[d].kind = "checkout" /\ pc'[d] = "empty"
    BY <2>1, OthersStay
  <2>3. QED
    BY <2>2 DEF Sold
<1>4. QED
  BY <1>1, <1>2, <1>3, LessToReach

(* What that means step by step *)

LEMMA ReachLets ==
  ASSUME TypeOK, TypeOK', \A d \in Calls : CallOK(d), NEW c \in Calls, Step(c),
         WritersFree,
         ~ Excused', Lets(c), NEW n \in DOMAIN carts, NEW p
  PROVE  Reach(n, p)' <= Reach(n, p)
<1>1. n \in DOMAIN carts' /\ carts'[n].items = carts[n].items /\ job' = job
  BY DEF Lets, RowsStay
<1>2. ASSUME c \in Holders(n)'
      PROVE  /\ c \in Holders(n) /\ copy'[c] = copy[c]
             /\ c \in Writers(n)' => c \in Writers(n)
             /\ c \in Keepers(n)' => c \in Keepers(n)
  <2>1. /\ Holding(c) /\ copy'[c] = copy[c] /\ Effect(c)' = Effect(c) /\ pc[c] # "empty"
        /\ copy'[c].cart = n
    BY <1>2 DEF Lets, Holders
  <2>2. c \in Holders(n)
    BY <2>1 DEF Holders
  <2>3. QED
    BY <1>1, <2>1, <2>2 DEF Writers, Keepers
<1>3. /\ Writers(n)' \subseteq Writers(n) /\ Keepers(n)' \subseteq Keepers(n)
      /\ \A d \in Writers(n)' \cup Keepers(n)' : copy'[d].items = copy[d].items
  BY <1>2, OthersStay
<1>4. ASSUME Sold(n) PROVE Sold(n)'
  <2>1. PICK d \in Holders(n) : job[d].kind = "checkout" /\ pc[d] = "empty"
    BY <1>4 DEF Sold
  <2>2. d # c
    BY <2>1 DEF Lets, Excused
  <2>3. d \in Holders(n)' /\ job'[d].kind = "checkout" /\ pc'[d] = "empty"
    BY <2>1, <2>2, OthersStay
  <2>4. QED
    BY <2>3 DEF Sold
<1>5. QED
  BY <1>1, <1>3, <1>4, LessToReach

LEMMA ReachJoins ==
  ASSUME TypeOK, TypeOK', \A d \in Calls : CallOK(d), NEW c \in Calls, Step(c),
         WritersFree,
         WritersFree', SellersFree', NEW m \in DOMAIN carts, Joins(c, m), NEW p
  PROVE  \A n \in DOMAIN carts : Reach(n, p)' <= Reach(n, p)
<1>1. /\ DOMAIN carts' = DOMAIN carts
         /\ \A n \in DOMAIN carts : carts'[n].items = carts[n].items
      /\ job' = job /\ ~ Holding(c) /\ Holding(c)' /\ Effect(c)' = Effect(c)
      /\ copy'[c].cart = m /\ copy'[c].items = carts[m].items
      /\ pc'[c] = "empty" => job[c].kind # "checkout"
  BY DEF Joins, RowsStay
<1>2. ASSUME NEW n \in DOMAIN carts, n # m PROVE Reach(n, p)' <= Reach(n, p)
  <2>1. c \notin Holders(n) /\ c \notin Holders(n)' /\ carts'[n].items = carts[n].items
    BY <1>1, <1>2 DEF Holders
  <2>2. QED
    BY <2>1, OthersReach
<1> SUFFICES Reach(m, p)' <= Reach(m, p)
  BY <1>2
<1>3. c \in Holders(m)' /\ m \in DOMAIN carts' /\ carts'[m].items = carts[m].items
  BY <1>1 DEF Holders
<1>4. /\ \A d \in Writers(m)' \cup Keepers(m)' :
           d # c => copy'[d].items = copy[d].items /\ d \in Holders(m)
      /\ Writers(m) \subseteq Writers(m)'
      /\ \A d \in Writers(m)' : d # c => d \in Writers(m)
      /\ \A d \in Keepers(m)' : d # c => d \in Keepers(m)
  <2>1. c \notin Holders(m)
    BY <1>1 DEF Holders
  <2>2. c \notin Writers(m)
    BY <2>1 DEF Writers
  <2>3. Writers(m) \subseteq Holders(m)
    BY DEF Writers
  <2>4. QED
    BY <2>2, <2>3, OthersStay
<1>5. ASSUME NEW d \in Holders(m), job[d].kind = "checkout", pc[d] = "empty"
      PROVE  Sold(m)' /\ d \in Holders(m)' /\ d # c /\ Effect(d)' = "checkout"
  <2>1. d # c
    BY <1>1, <1>5 DEF Holders
  <2>2. d \in Holders(m)' /\ job'[d].kind = "checkout" /\ pc'[d] = "empty"
    BY <1>5, <2>1, OthersStay
  <2>3. QED
    BY <2>1, <2>2 DEF Sold, Effect
<1>6. Sold(m) => Sold(m)'
  BY <1>5 DEF Sold
<1>7. /\ Reach(m, p) \in Nat /\ AtPeak(m, p) \in Nat
      /\ InCart(carts[m].items, p) \in Nat /\ InCart(carts[m].items, p) <= AtPeak(m, p)
      /\ Writers(m) # {} => Reach(m, p) = AtPeak(m, p)
      /\ Keepers(m) = {} /\ ~ Sold(m) => Reach(m, p) = AtPeak(m, p)
      /\ Writers(m) = {} => /\ ~ Sold(m) => InCart(carts[m].items, p) <= Reach(m, p)
                            /\ \A d \in Keepers(m) :
                                   InCart(copy[d].items, p) <= Reach(m, p)
  BY ReachIs DEF ReachFacts
<1>8. /\ Reach(m, p)' \in Nat
      /\ Writers(m)' # {} => Reach(m, p)' = AtPeak(m, p)'
      /\ Writers(m)' = {} =>
           \A x \in Nat : /\ ~ Sold(m)' => InCart(carts'[m].items, p) <= x
                          /\ \A d \in Keepers(m)' : InCart(copy'[d].items, p) <= x
                          => Reach(m, p)' <= x
  BY <1>3, ReachIsThen DEF ReachFacts
<1>9. CASE c \in Writers(m)'
  <2>1. Keepers(m)' = {} /\ ~ Sold(m)'
          /\ \A d \in Holders(m)' : Effect(d)' \notin Emptying
    BY <1>3, <1>9 DEF WritersFree
  <2>2. ~ Sold(m)
    BY <1>6, <2>1
  <2>3. Keepers(m) = {}
    <3>1. SUFFICES ASSUME NEW d \in Keepers(m) PROVE FALSE
      OBVIOUS
    <3>2. d \in Holders(m) /\ job[d].kind \in {"remove", "checkout"} /\ d # c
      BY <1>1 DEF Keepers, Holders
    <3>3. d \in Holders(m)' /\ Effect(d)' = Effect(d)
      BY <3>2, OthersStay
    <3>4. Effect(d) \in Emptying
      BY <3>2 DEF Effect, Emptying
    <3>5. QED
      BY <2>1, <3>3, <3>4
  <2>4. Reach(m, p) = AtPeak(m, p) /\ Reach(m, p)' = AtPeak(m, p)'
    BY <1>7, <1>8, <1>9, <2>2, <2>3
  <2>5. AtPeak(m, p)' <= AtPeak(m, p)
    <3>1. PICK f, h, rows : /\ f = Peaks(m, p) /\ h = Peaks(m, p)'
                            /\ rows = DOMAIN carts[m].items
      OBVIOUS
    <3>2. /\ IsFiniteSet(rows)
          /\ \A j \in rows :
               /\ f[j] = IF carts[m].items[j].product = p THEN Peak(m, j) ELSE 0
               /\ Peak(m, j) \in Nat /\ carts[m].items[j].quantity <= Peak(m, j)
               /\ \A d \in Writers(m) : j \in DOMAIN copy[d].items =>
                    copy[d].items[j].quantity <= Peak(m, j)
      BY <3>1, PeakIs DEF PeakFacts
    <3>3. \A j \in rows :
            /\ h[j] = IF carts[m].items[j].product = p THEN Peak(m, j)' ELSE 0
            /\ Peak(m, j)' \in Nat
            /\ \/ Peak(m, j)' = carts[m].items[j].quantity
               \/ \E d \in Writers(m)' : /\ j \in DOMAIN copy'[d].items
                                         /\ Peak(m, j)' = copy'[d].items[j].quantity
      BY <1>3, <3>1, ReachIsThen DEF PeakFacts
    <3>4. ASSUME NEW j \in rows PROVE Peak(m, j)' <= Peak(m, j)
      <4>1. ASSUME NEW d \in Writers(m)', j \in DOMAIN copy'[d].items
            PROVE  copy'[d].items[j].quantity <= Peak(m, j)
        <5>1. CASE d = c
          BY <1>1, <3>2, <5>1
        <5>2. CASE d # c
          BY <1>4, <3>2, <4>1, <5>2
        <5>3. QED
          BY <5>1, <5>2
      <4>2. QED
        BY <3>2, <3>3, <4>1
    <3>5. \A j \in rows : f[j] \in Nat /\ h[j] \in Nat /\ h[j] <= f[j]
      BY <3>2, <3>3, <3>4
    <3>6. SumOn(h, rows) <= SumOn(f, rows)
      BY <3>2, <3>5, SumAtMost
    <3>7. QED
      BY <1>3, <3>1, <3>6 DEF AtPeak
  <2>6. QED
    BY <2>4, <2>5
<1>10. CASE c \in Keepers(m)'
  <2>1. Writers(m)' = {} /\ Writers(m) = {}
    BY <1>3, <1>4, <1>10 DEF WritersFree
  <2>2. job[c].kind \in {"remove", "checkout"} /\ Effect(c)' \in {"remove", "checkout"}
    BY <1>1, <1>10 DEF Keepers, Effect
  <2>3. ~ Sold(m)
    <3>1. SUFFICES ASSUME Sold(m) PROVE FALSE
      OBVIOUS
    <3>2. PICK d \in Holders(m) : job[d].kind = "checkout" /\ pc[d] = "empty"
      BY <3>1 DEF Sold
    <3>3. d \in Holders(m)' /\ d # c /\ Effect(d)' = "checkout"
      BY <1>5, <3>2
    <3>4. Effect(c)' \notin {"checkout", "remove"}
      BY <1>3, <3>3 DEF SellersFree
    <3>5. QED
      BY <2>2, <3>4
  <2>4. InCart(carts'[m].items, p) <= Reach(m, p)
    BY <1>3, <1>7, <2>1, <2>3
  <2>5. \A d \in Keepers(m)' : InCart(copy'[d].items, p) <= Reach(m, p)
    <3>1. ASSUME NEW d \in Keepers(m)' PROVE InCart(copy'[d].items, p) <= Reach(m, p)
      <4>1. CASE d = c
        BY <1>1, <1>3, <2>4, <4>1
      <4>2. CASE d # c
        BY <1>4, <1>7, <2>1, <4>2
      <4>3. QED
        BY <4>1, <4>2
    <3>2. QED
      BY <3>1
  <2>6. QED
    BY <1>7, <1>8, <2>1, <2>4, <2>5
<1>11. CASE c \notin Writers(m)' /\ c \notin Keepers(m)'
  <2>1. /\ Writers(m)' \subseteq Writers(m) /\ Keepers(m)' \subseteq Keepers(m)
        /\ \A d \in Writers(m)' \cup Keepers(m)' : copy'[d].items = copy[d].items
    BY <1>4, <1>11
  <2>2. QED
    BY <1>3, <1>6, <2>1, LessToReach
<1>12. QED
  BY <1>9, <1>10, <1>11

LEMMA ReachCreates ==
  ASSUME TypeOK, TypeOK', \A d \in Calls : CallOK(d), NEW c \in Calls, Step(c),
         WritersFree,
         NEW m, Creates(c, m), NEW p
  PROVE  /\ \A n \in DOMAIN carts : Reach(n, p)' <= Reach(n, p)
         /\ Reach(m, p)' = 0
<1>1. /\ DOMAIN carts' = DOMAIN carts \cup {m} /\ m \notin DOMAIN carts
      /\ \A n \in DOMAIN carts : carts'[n].items = carts[n].items
      /\ carts'[m].items = << >> /\ ~ Holding(c) /\ job' = job
      /\ Holding(c)' => copy'[c].cart = m /\ job[c].kind \in {"add", "clear", "sync"}
  BY DEF Creates
<1>2. ASSUME NEW n \in DOMAIN carts PROVE Reach(n, p)' <= Reach(n, p)
  <2>1. c \notin Holders(n) /\ c \notin Holders(n)'
    BY <1>1 DEF Holders
  <2>2. QED
    BY <1>1, <2>1, OthersReach
<1>3. \A d \in Holders(m)' : d = c
  BY <1>1, OthersStay
<1>4. Keepers(m)' = {} /\ ~ Sold(m)'
  <2>1. ASSUME NEW d \in Holders(m)' PROVE job'[d].kind \notin {"remove", "checkout"}
    <3>1. d = c /\ Holding(c)'
      BY <1>3, <2>1 DEF Holders
    <3>2. QED
      BY <1>1, <3>1
  <2>2. QED
    BY <2>1 DEF Keepers, Sold
<1>5. Reach(m, p)' = AtPeak(m, p)'
  <2>1. m \in DOMAIN carts'
    BY <1>1
  <2>2. QED
    BY <1>4, <2>1, ReachIsThen DEF ReachFacts
<1>6. AtPeak(m, p)' = 0
  <2>1. DOMAIN carts'[m].items = {}
    BY <1>1, NoRows
  <2>2. PICK h : h = Peaks(m, p)'
    OBVIOUS
  <2>3. AtPeak(m, p)' = SumOn(h, {})
    BY <2>1, <2>2 DEF AtPeak
  <2>4. QED
    BY <2>3, SumEmpty
<1>7. QED
  BY <1>2, <1>5, <1>6

\* Who has written lets go of the cart; the others hold what they held.
LEMMA ReachWrites ==
  ASSUME TypeOK, TypeOK', \A d \in Calls : CallOK(d), NEW c \in Calls, Step(c),
         WritersFree,
         NEW items, NEW subtotal, Writes(c, items, subtotal), NEW n, n = copy[c].cart,
         NEW p
  PROVE  /\ n \in DOMAIN carts /\ n \in DOMAIN carts' /\ DOMAIN carts' = DOMAIN carts
         /\ c \in Holders(n) /\ carts'[n].items = items
         /\ \A m \in DOMAIN carts \ {n} : Reach(m, p)' <= Reach(m, p)
         /\ Writers(n)' \subseteq Writers(n) /\ Keepers(n)' \subseteq Keepers(n)
         /\ \A d \in Writers(n)' \cup Keepers(n)' : copy'[d].items = copy[d].items
         /\ Sold(n) /\ Effect(c) # "checkout" => Sold(n)'
         /\ Sold(n)' => Sold(n)
<1>1. /\ n \in DOMAIN carts /\ n \in DOMAIN carts' /\ DOMAIN carts' = DOMAIN carts
      /\ c \in Holders(n) /\ carts'[n].items = items
      /\ \A m \in DOMAIN carts \ {n} : carts'[m] = carts[m]
  BY WritesIs
<1>2. ~ Holding(c)' /\ \A m : c \notin Holders(m)'
  BY DEF Writes, Holders
<1>3. ASSUME NEW m \in DOMAIN carts \ {n} PROVE Reach(m, p)' <= Reach(m, p)
  <2>1. c \notin Holders(m) /\ carts'[m].items = carts[m].items
    BY <1>1, <1>3 DEF Holders
  <2>2. QED
    BY <1>2, <2>1, OthersReach
<1>4. /\ Writers(n)' \subseteq Writers(n) /\ Keepers(n)' \subseteq Keepers(n)
      /\ \A d \in Writers(n)' \cup Keepers(n)' : copy'[d].items = copy[d].items
  BY <1>2, OthersStay
<1>5. ASSUME Sold(n), Effect(c) # "checkout" PROVE Sold(n)'
  <2>1. PICK d \in Holders(n) : job[d].kind = "checkout" /\ pc[d] = "empty"
    BY <1>5 DEF Sold
  <2>2. d # c
    BY <1>5, <2>1 DEF Effect
  <2>3. d \in Holders(n)' /\ job'[d].kind = "checkout" /\ pc'[d] = "empty"
    BY <2>1, <2>2, OthersStay
  <2>4. QED
    BY <2>3 DEF Sold
<1>6. ASSUME Sold(n)' PROVE Sold(n)
  <2>1. PICK d \in Holders(n)' : job'[d].kind = "checkout" /\ pc'[d] = "empty"
    BY <1>6 DEF Sold
  <2>2. d # c /\ d \in Calls
    BY <1>2, <2>1 DEF Holders
  <2>3. d \in Holders(n) /\ job[d].kind = "checkout" /\ pc[d] = "empty"
    <3>1. d \in Calls \ {c}
      BY <2>2
    <3>2. job'[d] = job[d] /\ pc'[d] = pc[d]
      BY <3>1, OthersHold
    <3>3. QED
      BY <2>1, <2>2, <3>2, OthersStay
  <2>4. QED
    BY <2>3 DEF Sold
<1>7. QED
  BY <1>1, <1>3, <1>4, <1>5, <1>6

\* What empties a cart or takes a row out makes no more of it.
LEMMA ReachTaken ==
  ASSUME TypeOK, TypeOK', \A d \in Calls : CallOK(d), NEW c \in Calls, Step(c),
         WritersFree,
         NEW items, NEW subtotal, Writes(c, items, subtotal), NEW n, n = copy[c].cart,
         NEW p,
         Effect(c) \in Emptying, ~ Sold(n)' => InCart(items, p) <= Reach(n, p)
  PROVE  Reach(n, p)' <= Reach(n, p)
<1>1. /\ n \in DOMAIN carts /\ n \in DOMAIN carts' /\ c \in Holders(n)
      /\ carts'[n].items = items
      /\ Writers(n)' \subseteq Writers(n) /\ Keepers(n)' \subseteq Keepers(n)
      /\ \A d \in Writers(n)' \cup Keepers(n)' : copy'[d].items = copy[d].items
  BY ReachWrites
<1>2. Writers(n) = {} /\ Writers(n)' = {}
  BY <1>1 DEF WritersFree
<1>3. /\ Reach(n, p) \in Nat
      /\ \A d \in Keepers(n) : InCart(copy[d].items, p) <= Reach(n, p)
  BY <1>1, <1>2, ReachIs DEF ReachFacts
<1>4. \A x \in Nat : /\ ~ Sold(n)' => InCart(carts'[n].items, p) <= x
                     /\ \A d \in Keepers(n)' : InCart(copy'[d].items, p) <= x
                     => Reach(n, p)' <= x
  BY <1>1, <1>2, ReachIsThen DEF ReachFacts
<1>5. /\ ~ Sold(n)' => InCart(carts'[n].items, p) <= Reach(n, p)
      /\ \A d \in Keepers(n)' : InCart(copy'[d].items, p) <= Reach(n, p)
  <2>1. ~ Sold(n)' => InCart(carts'[n].items, p) <= Reach(n, p)
    BY <1>1
  <2>2. ASSUME NEW d \in Keepers(n)' PROVE InCart(copy'[d].items, p) <= Reach(n, p)
    BY <1>1, <1>3, <2>2
  <2>3. QED
    BY <2>1, <2>2
<1>6. QED
  BY <1>3, <1>4, <1>5

\* Where a quantity is written by position, the peaks say it all.
LEMMA ReachSet ==
  ASSUME TypeOK, TypeOK', \A d \in Calls : CallOK(d), NEW c \in Calls, Step(c),
         WritersFree,
         NEW items, NEW subtotal, Writes(c, items, subtotal), NEW n, n = copy[c].cart,
         NEW p,
         Effect(c) \in {"add", "update"}
  PROVE  /\ c \in Writers(n)
         /\ Reach(n, p) = AtPeak(n, p) /\ Reach(n, p)' = AtPeak(n, p)'
<1>1. /\ n \in DOMAIN carts /\ n \in DOMAIN carts' /\ c \in Holders(n)
      /\ Keepers(n)' \subseteq Keepers(n)
      /\ Sold(n)' => Sold(n)
  BY ReachWrites
<1>2. c \in Writers(n)
  BY <1>1 DEF Writers
<1>3. Keepers(n) = {} /\ ~ Sold(n)
  BY <1>1, <1>2 DEF WritersFree
<1>4. Keepers(n)' = {} /\ ~ Sold(n)'
  BY <1>1, <1>3
<1>5. Reach(n, p) = AtPeak(n, p)
  BY <1>1, <1>3, ReachIs DEF ReachFacts
<1>6. Reach(n, p)' = AtPeak(n, p)'
  BY <1>1, <1>4, ReachIsThen DEF ReachFacts
<1>7. QED
  BY <1>2, <1>5, <1>6

LEMMA ReachAdds ==
  ASSUME TypeOK, TypeOK', \A d \in Calls : CallOK(d), NEW c \in Calls, Step(c),
         WritersFree,
         RowsInPlace, ~ Misplaced, RowsInPlace', ~ Misplaced',
         NEW r \in Products, NEW q \in Nat, Adds(c, r, q), NEW n, n = copy[c].cart,
         NEW p,
         NEW raise \in Nat, raise = IF r = p THEN q ELSE 0
  PROVE  Reach(n, p)' <= Reach(n, p) + raise
<1>1. PICK new, subtotal : Writes(c, new, subtotal) /\ Effect(c) = "add"
  BY DEF Adds
<1>2. /\ n \in DOMAIN carts /\ n \in DOMAIN carts'
      /\ Writers(n)' \subseteq Writers(n)
      /\ \A d \in Writers(n)' : copy'[d].items = copy[d].items
      /\ carts'[n].items = new
  BY <1>1, ReachWrites
<1>3. c \in Writers(n) /\ Reach(n, p) = AtPeak(n, p) /\ Reach(n, p)' = AtPeak(n, p)'
  BY <1>1, ReachSet
<1>4. PICK rows, items : rows = carts[n].items /\ items = copy[c].items
  OBVIOUS
<1>5. RowMore(rows, items, new, r, q) \/ QuantityMore(rows, items, new, r, q)
  <2>1. \/ RowMore(carts[copy[c].cart].items, copy[c].items, carts'[copy[c].cart].items, r, q)
        \/ QuantityMore(carts[copy[c].cart].items, copy[c].items,
                        carts'[copy[c].cart].items, r, q)
    BY AddedIs
  <2>2. QED
    BY <1>2, <1>4, <2>1
<1>6. CASE RowMore(rows, items, new, r, q)
  <2>1. PICK k : /\ DOMAIN new = DOMAIN rows \cup {k} /\ k \notin DOMAIN rows
                 /\ \A j \in DOMAIN rows : new[j] = rows[j]
                 /\ new[k].product = r /\ new[k].quantity = q
    BY <1>6 DEF RowMore
  <2>2. \A d \in Writers(n)' : k \notin DOMAIN copy'[d].items
    <3>1. \A d \in Writers(n) : \A j \in DOMAIN copy[d].items : j \in DOMAIN rows
      BY <1>2, <1>4 DEF RowsInPlace
    <3>2. QED
      BY <1>2, <2>1, <3>1
  <2>3. /\ DOMAIN carts'[n].items = DOMAIN carts[n].items \cup {k}
        /\ k \notin DOMAIN carts[n].items
        /\ \A j \in DOMAIN carts[n].items : carts'[n].items[j] = carts[n].items[j]
        /\ raise = IF carts'[n].items[k].product = p THEN carts'[n].items[k].quantity ELSE 0
    BY <1>2, <1>4, <2>1
  <2>4. AtPeak(n, p)' <= AtPeak(n, p) + raise
    BY <1>2, <2>2, <2>3, PeaksGrow
  <2>5. QED
    BY <1>3, <2>4
<1>7. CASE QuantityMore(rows, items, new, r, q)
  <2>1. PICK i \in DOMAIN items :
             /\ i \in DOMAIN rows /\ DOMAIN new = DOMAIN rows
             /\ rows[i].product = r /\ items[i].product = r
             /\ \A j \in DOMAIN rows :
                  /\ new[j].product = rows[j].product
                  /\ new[j].quantity = IF j = i THEN items[i].quantity + q
                                       ELSE rows[j].quantity
    BY <1>7 DEF QuantityMore
  <2>2. Peak(n, i) \in Nat /\ items[i].quantity \in Nat
          /\ items[i].quantity <= Peak(n, i)
    BY <1>2, <1>3, <1>4, <2>1, PeakIs DEF PeakFacts
  <2>3. Raised(n, i, q, p, raise)
    BY <1>2, <1>4, <2>1, <2>2 DEF Raised
  <2>4. AtPeak(n, p)' <= AtPeak(n, p) + raise
    BY <1>2, <2>3, PeaksRise
  <2>5. QED
    BY <1>3, <2>4
<1>8. QED
  BY <1>5, <1>6, <1>7

LEMMA ReachUpdates ==
  ASSUME TypeOK, TypeOK', \A d \in Calls : CallOK(d), NEW c \in Calls, Step(c),
         WritersFree,
         RowsInPlace, ~ Misplaced, Updates(c), NEW n, n = copy[c].cart, NEW p,
         NEW raise \in Nat,
         raise = IF job[c].product = p THEN asked'[p] - asked[p] ELSE 0
  PROVE  Reach(n, p)' <= Reach(n, p) + raise
<1>1. PICK i, q, items, old : /\ i = Find(copy[c].items, job[c].product)
                              /\ q = job[c].quantity /\ items = copy[c].items
                              /\ old = items[i].quantity
  OBVIOUS
<1>2. /\ Effect(c) = "update" /\ i \in DOMAIN items /\ items[i].product = job[c].product
      /\ job[c].product \in Products /\ q \in Nat /\ old \in Nat
      /\ asked' = [asked EXCEPT ![job[c].product] = IF q > old THEN @ + q - old ELSE @]
      /\ \E new, subtotal : Writes(c, new, subtotal)
  BY <1>1 DEF Updates
<1>3. PICK new, subtotal : Writes(c, new, subtotal)
  BY <1>2
<1>4. /\ n \in DOMAIN carts /\ n \in DOMAIN carts'
      /\ Writers(n)' \subseteq Writers(n)
      /\ \A d \in Writers(n)' : copy'[d].items = copy[d].items
  BY <1>3, ReachWrites
<1>5. c \in Writers(n) /\ Reach(n, p) = AtPeak(n, p) /\ Reach(n, p)' = AtPeak(n, p)'
  BY <1>2, <1>3, ReachSet
<1>6. LET rows == carts[n].items
          then == carts'[n].items
      IN  /\ i \in DOMAIN rows /\ DOMAIN then = DOMAIN rows
          /\ rows[i].product = job[c].product
          /\ \A j \in DOMAIN rows :
               /\ then[j].product = rows[j].product
               /\ then[j].quantity = IF j = i /\ q # old THEN q ELSE rows[j].quantity
  BY <1>1, UpdatedIs
<1>7. /\ Peak(n, i) \in Nat /\ old <= Peak(n, i)
      /\ carts[n].items[i].quantity <= Peak(n, i) /\ carts[n].items[i].quantity \in Nat
  BY <1>1, <1>2, <1>4, <1>5, <1>6, PeakIs DEF PeakFacts
<1>8. PICK x \in Nat : x = IF q > old THEN q - old ELSE 0
  <2>1. q \in Nat /\ old \in Nat
    BY <1>2
  <2>2. (IF q > old THEN q - old ELSE 0) \in Nat
    BY <2>1
  <2>3. QED
    BY <2>2
<1>9. job[c].product = p => raise = x
  BY <1>2, <1>8 DEF TypeOK
<1>10. Raised(n, i, x, p, raise)
  <2>1. q \in Nat /\ old \in Nat
    BY <1>2
  <2>2. carts'[n].items[i].quantity <= Peak(n, i) + x
    BY <1>6, <1>7, <1>8, <2>1
  <2>3. QED
    BY <1>6, <1>9, <2>2 DEF Raised
<1>11. AtPeak(n, p)' <= AtPeak(n, p) + raise
  BY <1>4, <1>10, PeaksRise
<1>12. QED
  BY <1>5, <1>11

(* What was ordered and what may be ordered stay covered by what was asked *)

Covered(p) == ordered[p] + SumOn(Reaches(p), DOMAIN carts) <= asked[p]

LEMMA ReachesAre ==
  ASSUME TypeOK, NEW p
  PROVE  /\ IsFiniteSet(DOMAIN carts)
         /\ \A n \in DOMAIN carts : Reaches(p)[n] = Reach(n, p) /\ Reach(n, p) \in Nat
         /\ SumOn(Reaches(p), DOMAIN carts) \in Nat
<1>1. /\ IsFiniteSet(DOMAIN carts)
      /\ \A n \in DOMAIN carts : Reaches(p)[n] = Reach(n, p) /\ Reach(n, p) \in Nat
  BY CartsAre, ReachIs DEF Reaches, ReachFacts
<1>2. \A n \in DOMAIN carts : Reaches(p)[n] \in Nat
  BY <1>1
<1>3. QED
  BY <1>1, <1>2, SumIsNat

\* One cart changes, and no more is ordered from it than it loses; or one comes
\* to be, which holds nothing.
LEMMA CoverMoves ==
  ASSUME TypeOK, TypeOK', NEW p \in Products, Covered(p), NEW n \in DOMAIN carts,
         DOMAIN carts' = DOMAIN carts,
         \A m \in DOMAIN carts \ {n} : Reach(m, p)' <= Reach(m, p),
         Reach(n, p)' + ordered'[p] + asked[p] <= Reach(n, p) + ordered[p] + asked'[p]
  PROVE  Covered(p)'
<1>1. PICK f, h, D : f = Reaches(p) /\ h = Reaches(p)' /\ D = DOMAIN carts
  OBVIOUS
<1>2. /\ IsFiniteSet(D) /\ SumOn(f, D) \in Nat
      /\ \A m \in D : f[m] = Reach(m, p) /\ f[m] \in Nat
  BY <1>1, ReachesAre
<1>3. \A m \in D : h[m] = Reach(m, p)' /\ h[m] \in Nat
  BY <1>1, ReachIsThen DEF Reaches, ReachFacts
<1>4. PICK R : R = D \ {n}
  OBVIOUS
<1>5. IsFiniteSet(R) /\ \A m \in R : f[m] \in Nat /\ h[m] \in Nat /\ h[m] <= f[m]
  BY <1>1, <1>2, <1>3, <1>4, FS_RemoveElement
<1>6. SumOn(h, R) <= SumOn(f, R) /\ SumOn(h, R) \in Nat /\ SumOn(f, R) \in Nat
  BY <1>5, SumAtMost, SumIsNat
<1>7. SumOn(f, D) = f[n] + SumOn(f, R)
  <2>1. n \in D /\ \A m \in D : f[m] \in Int
    BY <1>1, <1>2
  <2>2. QED
    BY <1>2, <1>4, <2>1, SumRemove
<1>8. SumOn(h, D) = h[n] + SumOn(h, R)
  <2>1. n \in D /\ \A m \in D : h[m] \in Int
    BY <1>1, <1>3
  <2>2. QED
    BY <1>2, <1>4, <2>1, SumRemove
<1>9. /\ ordered[p] \in Nat /\ asked[p] \in Nat /\ ordered'[p] \in Nat
         /\ asked'[p] \in Nat
      /\ f[n] = Reach(n, p) /\ f[n] \in Nat /\ h[n] = Reach(n, p)' /\ h[n] \in Nat
      /\ ordered[p] + SumOn(f, D) <= asked[p]
  BY <1>1, <1>2, <1>3 DEF TypeOK, Covered
<1>10. ordered'[p] + SumOn(h, D) <= asked'[p]
  BY <1>6, <1>7, <1>8, <1>9
<1>11. QED
  BY <1>1, <1>10 DEF Covered

LEMMA CoverStays ==
  ASSUME TypeOK, TypeOK', NEW p \in Products, Covered(p), ordered' = ordered,
         asked' = asked,
         NEW S, IsFiniteSet(S), DOMAIN carts' = DOMAIN carts \cup S,
         \A m \in DOMAIN carts : Reach(m, p)' <= Reach(m, p),
         \A m \in S \ DOMAIN carts : Reach(m, p)' = 0
  PROVE  Covered(p)'
<1>1. PICK f, h, D, E : /\ f = Reaches(p) /\ h = Reaches(p)' /\ D = DOMAIN carts
                        /\ E = DOMAIN carts'
  OBVIOUS
<1>2. /\ IsFiniteSet(D) /\ SumOn(f, D) \in Nat
      /\ \A m \in D : f[m] = Reach(m, p) /\ f[m] \in Nat
  BY <1>1, ReachesAre
<1>3. \A m \in E : h[m] = Reach(m, p)' /\ h[m] \in Nat
  BY <1>1, ReachIsThen DEF Reaches, ReachFacts
<1>4. IsFiniteSet(E) /\ D \in SUBSET E
  BY <1>1, <1>2, FS_Union
<1>5. SumOn(h, D) = SumOn(h, E)
  <2>1. (\A m \in E : h[m] \in Int) /\ \A m \in E \ D : h[m] = 0
    BY <1>1, <1>3
  <2>2. QED
    BY <1>4, <2>1, SumOutside
<1>6. \A m \in D : f[m] \in Nat /\ h[m] \in Nat /\ h[m] <= f[m]
  BY <1>1, <1>2, <1>3, <1>4
<1>7. SumOn(h, D) <= SumOn(f, D) /\ SumOn(h, D) \in Nat
  BY <1>2, <1>6, SumAtMost, SumIsNat
<1>8. ordered[p] \in Nat /\ asked[p] \in Nat /\ ordered[p] + SumOn(f, D) <= asked[p]
  BY <1>1 DEF TypeOK, Covered
<1>9. ordered'[p] + SumOn(h, E) <= asked'[p]
  BY <1>2, <1>5, <1>7, <1>8
<1>10. QED
  BY <1>1, <1>9 DEF Covered

LEMMA CoveredStep ==
  ASSUME TypeOK, TypeOK', \A d \in Calls : CallOK(d), NEW c \in Calls, Step(c),
         WritersFree, SellersFree, WritersFree', SellersFree',
         RowsInPlace, ~ Misplaced, RowsInPlace', ~ Misplaced', ~ Excused',
         NEW p \in Products, Covered(p)
  PROVE  Covered(p)'
<1>1. CASE Lets(c)
  <2>1. /\ ordered' = ordered /\ asked' = asked /\ DOMAIN carts' = DOMAIN carts \cup {}
        /\ IsFiniteSet({})
    BY <1>1, FS_EmptySet DEF Lets, RowsStay
  <2>2. \A m \in DOMAIN carts : Reach(m, p)' <= Reach(m, p)
    BY <1>1, ReachLets
  <2>3. QED
    BY <2>1, <2>2, CoverStays
<1>2. CASE \E m \in DOMAIN carts : Joins(c, m)
  <2>1. PICK m \in DOMAIN carts : Joins(c, m)
    BY <1>2
  <2>2. /\ ordered' = ordered /\ asked' = asked /\ DOMAIN carts' = DOMAIN carts \cup {}
        /\ IsFiniteSet({})
    BY <2>1, FS_EmptySet DEF Joins, RowsStay
  <2>3. \A n \in DOMAIN carts : Reach(n, p)' <= Reach(n, p)
    BY <2>1, ReachJoins
  <2>4. QED
    BY <2>2, <2>3, CoverStays
<1>3. CASE \E m : Creates(c, m)
  <2>1. PICK m : Creates(c, m)
    BY <1>3
  <2>2. /\ ordered' = ordered /\ asked' = asked /\ DOMAIN carts' = DOMAIN carts \cup {m}
        /\ IsFiniteSet({m})
    BY <2>1, FS_Singleton DEF Creates
  <2>3. /\ \A n \in DOMAIN carts : Reach(n, p)' <= Reach(n, p)
        /\ \A n \in {m} \ DOMAIN carts : Reach(n, p)' = 0
    BY <2>1, ReachCreates
  <2>4. QED
    BY <2>2, <2>3, CoverStays
<1>4. ASSUME NEW items, NEW subtotal, Writes(c, items, subtotal), NEW n,
             n = copy[c].cart
      PROVE  /\ n \in DOMAIN carts /\ n \in DOMAIN carts'
                /\ DOMAIN carts' = DOMAIN carts
             /\ \A m \in DOMAIN carts \ {n} : Reach(m, p)' <= Reach(m, p)
             /\ Reach(n, p) \in Nat /\ Reach(n, p)' \in Nat
             /\ ordered[p] \in Nat /\ ordered' = ordered /\ asked[p] \in Nat
                /\ asked'[p] \in Nat
             /\ Sold(n) /\ Effect(c) # "checkout" => Sold(n)'
             /\ Sold(n)' => Sold(n)
  <2>1. /\ n \in DOMAIN carts /\ n \in DOMAIN carts' /\ DOMAIN carts' = DOMAIN carts
        /\ \A m \in DOMAIN carts \ {n} : Reach(m, p)' <= Reach(m, p)
        /\ Sold(n) /\ Effect(c) # "checkout" => Sold(n)'
        /\ Sold(n)' => Sold(n)
    BY <1>4, ReachWrites
  <2>2. Reach(n, p) \in Nat /\ Reach(n, p)' \in Nat
    BY <2>1, ReachIs, ReachIsThen DEF ReachFacts
  <2>3. ordered[p] \in Nat /\ ordered' = ordered /\ asked[p] \in Nat
          /\ asked'[p] \in Nat
    BY <1>4 DEF TypeOK, Writes
  <2>4. QED
    BY <2>1, <2>2, <2>3
<1>5. PICK n : n = copy[c].cart
  OBVIOUS
<1>6. CASE \E r \in Products, q \in Nat : Adds(c, r, q)
  <2>1. PICK r \in Products, q \in Nat : Adds(c, r, q)
    BY <1>6
  <2>2. PICK items, subtotal : Writes(c, items, subtotal)
    BY <2>1 DEF Adds
  <2>3. PICK raise \in Nat : raise = IF r = p THEN q ELSE 0
    OBVIOUS
  <2>4. Reach(n, p)' <= Reach(n, p) + raise
    BY <1>5, <2>1, <2>3, ReachAdds
  <2>5. asked'[p] = asked[p] + raise
    <3>1. asked' = [asked EXCEPT ![r] = asked[r] + q]
      BY <2>1 DEF Adds
    <3>2. asked \in [Products -> Nat]
      BY DEF TypeOK
    <3>3. asked'[p] = IF r = p THEN asked[r] + q ELSE asked[p]
      BY <3>1, <3>2
    <3>4. asked[p] \in Nat
      BY <3>2
    <3>5. QED
      BY <2>3, <3>3, <3>4
  <2>6. /\ n \in DOMAIN carts /\ DOMAIN carts' = DOMAIN carts
        /\ \A m \in DOMAIN carts \ {n} : Reach(m, p)' <= Reach(m, p)
        /\ Reach(n, p) \in Nat /\ Reach(n, p)' \in Nat
        /\ ordered[p] \in Nat /\ ordered' = ordered /\ asked[p] \in Nat
    BY <1>4, <1>5, <2>2
  <2>7. Reach(n, p)' + ordered'[p] + asked[p] <= Reach(n, p) + ordered[p] + asked'[p]
    BY <2>4, <2>5, <2>6
  <2>8. QED
    BY <2>6, <2>7, CoverMoves
<1>7. CASE Updates(c)
  <2>1. PICK items, subtotal : Writes(c, items, subtotal)
    BY <1>7 DEF Updates
  <2>2. /\ n \in DOMAIN carts /\ DOMAIN carts' = DOMAIN carts
        /\ \A m \in DOMAIN carts \ {n} : Reach(m, p)' <= Reach(m, p)
        /\ Reach(n, p) \in Nat /\ Reach(n, p)' \in Nat
        /\ ordered[p] \in Nat /\ ordered' = ordered /\ asked[p] \in Nat
           /\ asked'[p] \in Nat
    BY <1>4, <1>5, <2>1
  <2>3. asked[p] <= asked'[p] /\ (job[c].product # p => asked'[p] = asked[p])
    <3>1. PICK q, old : /\ q \in Nat /\ old \in Nat
                        /\ asked' = [asked EXCEPT ![job[c].product] =
                                       IF q > old THEN @ + q - old ELSE @]
      BY <1>7 DEF Updates
    <3>2. PICK r, a : r = job[c].product /\ a = asked[r]
      OBVIOUS
    <3>3. asked' = [asked EXCEPT ![r] = IF q > old THEN a + q - old ELSE a]
      BY <3>1, <3>2
    <3>4. asked \in [Products -> Nat]
      BY DEF TypeOK
    <3>5. asked'[p] = IF r = p THEN (IF q > old THEN a + q - old ELSE a) ELSE asked[p]
      BY <3>3, <3>4
    <3>6. r = p => a = asked[p]
      BY <3>2
    <3>7. QED
      BY <2>2, <3>1, <3>2, <3>5, <3>6
  <2>4. PICK raise \in Nat :
            raise = IF job[c].product = p THEN asked'[p] - asked[p] ELSE 0
    <3>1. (IF job[c].product = p THEN asked'[p] - asked[p] ELSE 0) \in Nat
      BY <2>2, <2>3
    <3>2. QED
      BY <3>1
  <2>5. Reach(n, p)' <= Reach(n, p) + raise
    BY <1>5, <1>7, <2>4, ReachUpdates
  <2>6. Reach(n, p)' + ordered'[p] + asked[p] <= Reach(n, p) + ordered[p] + asked'[p]
    BY <2>2, <2>3, <2>4, <2>5
  <2>7. QED
    BY <2>2, <2>6, CoverMoves
<1>8. ASSUME NEW items, NEW subtotal, Writes(c, items, subtotal),
             Effect(c) \in Emptying,
             ~ Sold(n)' => InCart(items, p) <= Reach(n, p), asked' = asked
      PROVE  Covered(p)'
  <2>1. Reach(n, p)' <= Reach(n, p)
    BY <1>5, <1>8, ReachTaken
  <2>2. /\ n \in DOMAIN carts /\ DOMAIN carts' = DOMAIN carts
        /\ \A m \in DOMAIN carts \ {n} : Reach(m, p)' <= Reach(m, p)
        /\ Reach(n, p) \in Nat /\ Reach(n, p)' \in Nat
        /\ ordered[p] \in Nat /\ ordered' = ordered /\ asked[p] \in Nat
           /\ asked'[p] \in Nat
    BY <1>4, <1>5, <1>8
  <2>3. Reach(n, p)' + ordered'[p] + asked[p] <= Reach(n, p) + ordered[p] + asked'[p]
    BY <1>8, <2>1, <2>2
  <2>4. QED
    BY <2>2, <2>3, CoverMoves
<1>9. ASSUME c \in Holders(n), Effect(c) \in Emptying, n \in DOMAIN carts
      PROVE  /\ Writers(n) = {} /\ Reach(n, p) \in Nat
             /\ ~ Sold(n) => InCart(carts[n].items, p) <= Reach(n, p)
             /\ \A d \in Keepers(n) : InCart(copy[d].items, p) <= Reach(n, p)
  <2>1. Writers(n) = {}
    BY <1>9 DEF WritersFree
  <2>2. QED
    BY <1>9, <2>1, ReachIs DEF ReachFacts
<1>10. CASE Removes(c)
  <2>1. PICK r, items, subtotal : /\ r = job[c].product
          /\ items = Without(copy[c].items, r)
                                  /\ subtotal = Units(items)
    OBVIOUS
  <2>2. /\ Writes(c, items, subtotal) /\ Effect(c) \in Emptying /\ asked' = asked
        /\ job[c].kind = "remove" /\ pc[c] = "change"
    BY <1>10, <2>1 DEF Removes, Effect, Emptying
  <2>3. c \in Holders(n) /\ n \in DOMAIN carts
    BY <1>5, <2>2, WritesIs
  <2>4. c \in Keepers(n)
    BY <2>2, <2>3 DEF Keepers
  <2>5. InCart(copy[c].items, p) <= Reach(n, p) /\ Reach(n, p) \in Nat
    BY <1>9, <2>2, <2>3, <2>4
  <2>6. InCart(items, p) <= Reach(n, p)
    <3>1. PICK whole \in Seq(Row) : whole = copy[c].items
      BY CallsAre
    <3>2. \A s : InCart(Without(whole, r), s) = IF s = r THEN 0 ELSE InCart(whole, s)
      BY <3>1, WithoutIs
    <3>3. InCart(items, p) = IF p = r THEN 0 ELSE InCart(whole, p)
      BY <2>1, <3>1, <3>2
    <3>4. QED
      BY <2>5, <3>1, <3>3
  <2>7. QED
    BY <1>8, <2>2, <2>6
<1>11. CASE Empties(c)
  <2>1. PICK items : items = IF copy[c].items = << >> THEN carts[n].items ELSE << >>
    OBVIOUS
  <2>2. /\ Writes(c, items, 0) /\ Effect(c) \in Emptying /\ asked' = asked
        /\ job[c].kind = "checkout" => copy[c].items # << >>
    BY <1>5, <1>11, <2>1 DEF Empties, Emptying
  <2>3. c \in Holders(n) /\ n \in DOMAIN carts
    BY <1>5, <2>2, WritesIs
  <2>4. /\ Reach(n, p) \in Nat
        /\ ~ Sold(n) => InCart(carts[n].items, p) <= Reach(n, p)
    BY <1>9, <2>2, <2>3
  <2>5. ~ Sold(n)' => InCart(items, p) <= Reach(n, p)
    <3>1. CASE copy[c].items = << >>
      <4>1. Effect(c) # "checkout"
        BY <2>2, <3>1 DEF Effect
      <4>2. Sold(n) => Sold(n)'
        BY <1>4, <1>5, <2>2, <4>1
      <4>3. items = carts[n].items
        BY <2>1, <3>1
      <4>4. QED
        BY <2>4, <4>2, <4>3
    <3>2. CASE copy[c].items # << >>
      <4>1. InCart(items, p) = 0
        BY <2>1, <3>2, NoRows
      <4>2. QED
        BY <2>4, <4>1
    <3>3. QED
      BY <3>1, <3>2
  <2>6. QED
    BY <1>8, <2>2, <2>5
<1>12. CASE Sells(c)
  <2>1. /\ pc[c] = "sell" /\ pc'[c] = "empty" /\ job[c].kind = "checkout"
        /\ carts' = carts /\ job' = job /\ copy' = copy /\ asked' = asked
        /\ ordered' = [s \in Products |-> ordered[s] + InCart(copy[c].items, s)]
    BY <1>12 DEF Sells
  <2>2. n \in DOMAIN carts /\ c \in Holders(n) /\ Effect(c) = "checkout"
          /\ c \in Keepers(n)
    <3>1. Holding(c) /\ Effect(c) = "checkout" /\ CallOK(c)
      BY <2>1 DEF Holding, Effect
    <3>2. n \in DOMAIN carts /\ c \in Holders(n)
      BY <1>5, <3>1 DEF Holders, CallOK
    <3>3. QED
      BY <2>1, <3>1, <3>2 DEF Keepers
  <2>3. /\ Writers(n) = {} /\ Reach(n, p) \in Nat
        /\ InCart(copy[c].items, p) <= Reach(n, p)
    BY <1>9, <2>2 DEF Emptying
  <2>4. Effect(c)' = "checkout" /\ c \in Holders(n)' /\ Sold(n)'
    <3>1. Effect(c)' = "checkout" /\ Holding(c)'
      BY <2>1 DEF Effect, Holding
    <3>2. c \in Holders(n)'
      BY <1>5, <2>1, <3>1 DEF Holders
    <3>3. QED
      BY <2>1, <3>1, <3>2 DEF Sold
  <2>5. Writers(n)' = {}
    <3>1. n \in DOMAIN carts'
      BY <2>1, <2>2
    <3>2. QED
      BY <2>4, <3>1 DEF WritersFree
  <2>6. Keepers(n)' = {}
    <3>1. SUFFICES ASSUME NEW d \in Keepers(n)' PROVE FALSE
      OBVIOUS
    <3>2. /\ d \in Holders(n)' /\ job[d].kind \in {"remove", "checkout"}
             /\ pc'[d] # "empty"
      BY <2>1 DEF Keepers
    <3>3. d # c
      BY <2>1, <3>2
    <3>4. d \in Holders(n)
      BY <3>2, <3>3, OthersStay
    <3>5. Effect(d) \in {"remove", "checkout"}
      BY <3>2 DEF Effect
    <3>6. QED
      BY <2>2, <3>3, <3>4, <3>5 DEF SellersFree
  <2>7. Reach(n, p)' = 0
    <3>1. n \in DOMAIN carts'
      BY <2>1, <2>2
    <3>2. /\ Reach(n, p)' \in Nat
          /\ \A x \in Nat : /\ ~ Sold(n)' => InCart(carts'[n].items, p) <= x
                            /\ \A d \in Keepers(n)' : InCart(copy'[d].items, p) <= x
                            => Reach(n, p)' <= x
      BY <2>5, <3>1, ReachIsThen DEF ReachFacts
    <3>3. Reach(n, p)' <= 0
      BY <2>4, <2>6, <3>2
    <3>4. QED
      BY <3>2, <3>3
  <2>8. \A m \in DOMAIN carts \ {n} : Reach(m, p)' <= Reach(m, p)
    <3>1. ASSUME NEW m \in DOMAIN carts \ {n} PROVE Reach(m, p)' <= Reach(m, p)
      <4>1. /\ c \notin Holders(m) /\ c \notin Holders(m)'
            /\ carts'[m].items = carts[m].items
        BY <1>5, <2>1 DEF Holders
      <4>2. QED
        BY <4>1, OthersReach
    <3>2. QED
      BY <3>1
  <2>9. Reach(n, p)' + ordered'[p] + asked[p] <= Reach(n, p) + ordered[p] + asked'[p]
    <3>1. ordered[p] \in Nat /\ asked[p] \in Nat /\ InCart(copy[c].items, p) \in Nat
      BY CallsAre, RowsComeTo DEF TypeOK
    <3>2. ordered'[p] = ordered[p] + InCart(copy[c].items, p)
      BY <2>1
    <3>3. QED
      BY <2>1, <2>3, <2>7, <3>1, <3>2
  <2>10. QED
    BY <2>1, <2>2, <2>8, <2>9, CoverMoves
<1>13. QED
  BY <1>1, <1>2, <1>3, <1>6, <1>7, <1>10, <1>11, <1>12 DEF Step

LEMMA CoverStep ==
  ASSUME TypeOK, TypeOK', \A d \in Calls : CallOK(d), NEW c \in Calls, Step(c),
         PairsNoted, PairsNoted', RowsInPlace, RowsInPlace', OrdersCovered
  PROVE  OrdersCovered'
<1> SUFFICES ASSUME ~ Excused', NEW p \in Products PROVE Covered(p)'
  BY DEF OrdersCovered, Covered
<1>1. ~ Excused
  BY StepKeeps, ExcusedStays
<1>2. ~ Misplaced /\ ~ Misplaced'
  BY <1>1 DEF Excused
<1>3. WritersFree /\ SellersFree /\ WritersFree' /\ SellersFree'
  BY <1>1, <1>2, WritersAreFree, SellersAreFree, FreeThen
<1>4. Covered(p)
  BY <1>1 DEF OrdersCovered, Covered
<1>5. QED
  BY <1>2, <1>3, <1>4, CoveredStep
(* At the start, and altogether *)

\* At the start there is no cart, or one that holds what earlier calls added to
\* it; and nobody holds it.
LEMMA AtFirst ==
  ASSUME Init
  PROVE  /\ carts \in Seq(Cart)
         /\ \A n \in DOMAIN carts :
              /\ n = 1 /\ carts # << >>
              /\ \E list \in Earlier : /\ carts[n].items = Rows(list)
                                       /\ carts[n].subtotal = Len(list)
         /\ \A n : Holders(n) = {} /\ Writers(n) = {} /\ Keepers(n) = {} /\ ~ Sold(n)
<1>1. /\ carts \in Seq(Cart)
      /\ \A n \in DOMAIN carts :
           /\ n = 1 /\ carts # << >>
           /\ \E list \in Earlier : /\ carts[n].items = Rows(list)
                                    /\ carts[n].subtotal = Len(list)
  <2>1. CASE carts = << >>
    <3>1. << >> \in Seq(Cart) /\ DOMAIN << >> = {}
      BY EmptySeq
    <3>2. QED
      BY <2>1, <3>1
  <2>2. CASE carts # << >>
    <3>1. PICK list \in Earlier :
            carts = <<[user |-> FALSE, session |-> TRUE, items |-> Rows(list),
                       subtotal |-> Len(list)]>>
      BY <2>2 DEF Init
    <3>2. PICK cart : cart = [user |-> FALSE, session |-> TRUE, items |-> Rows(list),
                              subtotal |-> Len(list)]
      OBVIOUS
    <3>3. cart \in Cart /\ cart.items = Rows(list) /\ cart.subtotal = Len(list)
      BY <3>2, RowsOfList DEF Cart
    <3>4. carts = <<cart>> /\ <<cart>> \in Seq(Cart)
      BY <3>1, <3>2, <3>3
    <3>5. \A n \in DOMAIN carts : n = 1 /\ carts[n] = cart
      BY <3>4
    <3>6. QED
      BY <2>2, <3>3, <3>4, <3>5
  <2>3. QED
    BY <2>1, <2>2
<1>2. \A n : Holders(n) = {}
  BY DEF Init, Holders, Holding
<1>3. \A n : Writers(n) = {} /\ Keepers(n) = {} /\ ~ Sold(n)
  BY <1>2 DEF Writers, Keepers, Sold
<1>4. QED
  BY <1>1, <1>2, <1>3

LEMMA FirstType ==
  ASSUME Init
  PROVE  /\ TypeOK /\ \A c \in Calls : CallOK(c)
         /\ \A n \in DOMAIN carts :
              /\ n = 1 /\ carts # << >> /\ carts[n].items \in Seq(Row)
              /\ carts[n].subtotal = Units(carts[n].items) /\ ~ Broken(carts[n].items)
              /\ \A i, j \in DOMAIN carts[n].items :
                   carts[n].items[i].product = carts[n].items[j].product => i = j
<1>1. \A n \in DOMAIN carts :
        /\ n = 1 /\ carts # << >> /\ carts[n].items \in Seq(Row)
        /\ carts[n].subtotal = Units(carts[n].items) /\ ~ Broken(carts[n].items)
        /\ \A i, j \in DOMAIN carts[n].items :
             carts[n].items[i].product = carts[n].items[j].product => i = j
  <2> SUFFICES ASSUME NEW n \in DOMAIN carts
               PROVE  /\ n = 1 /\ carts # << >> /\ carts[n].items \in Seq(Row)
                      /\ carts[n].subtotal = Units(carts[n].items)
                      /\ ~ Broken(carts[n].items)
                      /\ \A i, j \in DOMAIN carts[n].items :
                           carts[n].items[i].product = carts[n].items[j].product => i = j
    OBVIOUS
  <2>1. PICK list \in Earlier : carts[n].items = Rows(list)
          /\ carts[n].subtotal = Len(list)
    BY AtFirst
  <2>2. n = 1 /\ carts # << >>
    BY AtFirst
  <2>3. PICK items : items = Rows(list)
    OBVIOUS
  <2>4. /\ items \in Seq(Row) /\ Units(items) = Len(list) /\ ~ Broken(items)
        /\ \A i, j \in DOMAIN items : items[i].product = items[j].product => i = j
    BY <2>3, RowsOfList
  <2>5. QED
    BY <2>1, <2>2, <2>3, <2>4
<1>2. \A n \in DOMAIN carts, p \in Products : InCart(carts[n].items, p) \in Nat
  BY <1>1, RowsComeTo
<1>3. basket \in [DOMAIN carts -> [Products -> Nat]]
  BY <1>2 DEF Init
<1>4. asked \in [Products -> Nat]
  <2>1. \A p \in Products :
          (IF carts = << >> THEN 0 ELSE InCart(carts[1].items, p)) \in Nat
    <3>1. carts # << >> => 1 \in DOMAIN carts
      BY AtFirst, LenProperties
    <3>2. QED
      BY <1>2, <3>1
  <2>2. QED
    BY <2>1 DEF Init
<1>5. carts \in Seq([user : BOOLEAN, session : BOOLEAN, items : Seq(Row), subtotal : Nat])
  BY AtFirst DEF Cart
<1>6. copy \in [Calls -> [cart : Nat, items : Seq(Row), subtotal : Nat]]
  BY NoCopyIs DEF Init, Copy
<1>7. /\ ordered \in [Products -> Nat] /\ pc \in [Calls -> Labels]
      /\ job \in [Calls -> Request]
  BY CartsAssumption DEF Init, Labels
<1>8. TypeOK
  BY <1>3, <1>4, <1>5, <1>6, <1>7 DEF TypeOK
<1>9. \A c \in Calls : CallOK(c)
  BY DEF Init, CallOK, Holding
<1>10. QED
  BY <1>1, <1>8, <1>9

LEMMA AtStart == ASSUME Init PROVE CartsInv
<1>1. TypeOK /\ \A c \in Calls : CallOK(c)
  BY FirstType
<1>2. PairsNoted
  BY AtFirst DEF PairsNoted
<1>3. RowsInPlace
  BY AtFirst, FirstType DEF RowsInPlace
<1>4. AloneIsExact
  <2> SUFFICES ASSUME NEW n \in DOMAIN carts
               PROVE  Exact(n) /\ Holders(n) = {}
    BY DEF AloneIsExact
  <2>1. /\ carts[n].subtotal = Units(carts[n].items)
        /\ \A i, j \in DOMAIN carts[n].items :
             carts[n].items[i].product = carts[n].items[j].product => i = j
    BY FirstType
  <2>2. \A p \in Products : InCart(carts[n].items, p) = basket[n][p]
    BY DEF Init
  <2>3. QED
    BY <2>1, <2>2, AtFirst DEF Exact
<1>5. OrdersCovered
  <2> SUFFICES ASSUME NEW p \in Products
               PROVE  ordered[p] + SumOn(Reaches(p), DOMAIN carts) <= asked[p]
    BY DEF OrdersCovered
  <2>1. ordered[p] = 0
    BY DEF Init
  <2>2. asked[p] \in Nat
    BY <1>1 DEF TypeOK
  <2>3. CASE carts = << >>
    <3>1. DOMAIN carts = {}
      BY <2>3, EmptySeq
    <3>2. SumOn(Reaches(p), DOMAIN carts) = 0
      BY <3>1, SumEmpty
    <3>3. QED
      BY <2>1, <2>2, <3>2
  <2>4. CASE carts # << >>
    <3>1. 1 \in DOMAIN carts /\ DOMAIN carts = {1}
      <4>1. 1 \in DOMAIN carts
        BY <2>4, AtFirst, LenProperties
      <4>2. \A n \in DOMAIN carts : n = 1
        BY AtFirst
      <4>3. QED
        BY <4>1, <4>2
    <3>2. Reach(1, p) = InCart(carts[1].items, p)
      <4>1. Writers(1) = {} /\ Keepers(1) = {} /\ ~ Sold(1)
        BY AtFirst
      <4>2. Reach(1, p) = AtPeak(1, p)
        BY <1>1, <3>1, <4>1, ReachIs DEF ReachFacts
      <4>3. AtPeak(1, p) = InCart(carts[1].items, p)
        BY <1>1, <3>1, <4>1, AtPeakIs
      <4>4. QED
        BY <4>2, <4>3
    <3>3. asked[p] = InCart(carts[1].items, p)
      BY <2>4 DEF Init
    <3>4. SumOn(Reaches(p), {1}) = Reach(1, p)
      <4>1. PICK f : f = Reaches(p)
        OBVIOUS
      <4>2. f[1] = Reach(1, p) /\ f[1] \in Int
        BY <1>1, <3>1, <4>1, ReachesAre
      <4>3. IsFiniteSet({1}) /\ {1} \ {1} = {}
        BY FS_Singleton
      <4>4. SumOn(f, {1}) = f[1] + SumOn(f, {1} \ {1})
        BY <4>2, <4>3, SumRemove
      <4>5. SumOn(f, {1} \ {1}) = 0
        BY <4>3, SumEmpty
      <4>6. QED
        BY <4>1, <4>2, <4>4, <4>5
    <3>5. QED
      BY <2>1, <2>2, <3>1, <3>2, <3>3, <3>4
  <2>5. QED
    BY <2>3, <2>4
<1>6. QED
  BY <1>1, <1>2, <1>3, <1>4, <1>5 DEF CartsInv

\* Between the steps of the calls nothing changes.
LEMMA Stutters == CartsInv /\ UNCHANGED vars => CartsInv'
<1> SUFFICES ASSUME CartsInv, UNCHANGED vars PROVE CartsInv'
  OBVIOUS
<1>1. TypeOK' /\ \A c \in Calls : CallOK(c)'
  BY DEF CartsInv, vars, TypeOK, CallOK, Holding
<1>2. /\ PairsNoted' /\ RowsInPlace' /\ AloneIsExact'
  BY DEF CartsInv, vars, PairsNoted, RowsInPlace, AloneIsExact, Exact, Holders,
     Writers,
         Holding, Effect, Misplaced
<1>3. OrdersCovered'
  <2>1. /\ carts' = carts /\ ordered' = ordered /\ pc' = pc /\ job' = job
        /\ copy' = copy /\ asked' = asked /\ crossed' = crossed
    BY DEF vars
  <2>2. \A n : Holders(n)' = Holders(n) /\ Writers(n)' = Writers(n)
    BY <2>1 DEF Writers, Holders, Holding, Effect
  <2>3. \A n : Keepers(n)' = Keepers(n) /\ Sold(n)' = Sold(n)
    BY <2>1, <2>2 DEF Keepers, Sold
  <2>4. \A n, p : Peaks(n, p)' = Peaks(n, p)
    BY <2>1, <2>2 DEF Peaks, Peak
  <2>5. \A n, p : Reach(n, p)' = Reach(n, p)
    BY <2>1, <2>2, <2>3, <2>4 DEF Reach
  <2>6. \A p : Reaches(p)' = Reaches(p)
    BY <2>1, <2>5 DEF Reaches
  <2>7. Excused' = Excused
    BY <2>1 DEF Excused, Misplaced
  <2>8. QED
    BY <2>1, <2>6, <2>7 DEF CartsInv, OrdersCovered
<1>4. QED
  BY <1>1, <1>2, <1>3 DEF CartsInv

\* The invariant of the carts: calls that hold one cart at once have been noted;
\* rows written by position are where they were unless a quantity was misplaced;
\* a cart that one call at a time has held is exact; and what was ordered, with
\* what the carts may come to hold, was asked for.
THEOREM CartsInvariant == Spec => []CartsInv
<1>1. Init => CartsInv
  BY AtStart
<1>2. CartsInv /\ [Next]_vars => CartsInv'
  <2> SUFFICES ASSUME CartsInv, [Next]_vars PROVE CartsInv'
    OBVIOUS
  <2>1. CASE UNCHANGED vars
    BY <2>1, Stutters
  <2>2. CASE Next
    <3>1. PICK c \in Calls : Call(c)
      BY <2>2 DEF Next
    <3>2. /\ TypeOK /\ (\A d \in Calls : CallOK(d))
          /\ PairsNoted /\ RowsInPlace /\ AloneIsExact /\ OrdersCovered
      BY DEF CartsInv
    <3>3. TypeOK' /\ (\A d \in Calls : CallOK(d)') /\ Step(c)
      BY <3>1, <3>2, Steps
    <3>4. PairsNoted'
      BY <3>2, <3>3, NotedStep
    <3>5. RowsInPlace'
      BY <3>2, <3>3, InPlaceStep
    <3>6. AloneIsExact'
      BY <3>2, <3>3, ExactStep
    <3>7. OrdersCovered'
      BY <3>2, <3>3, <3>4, <3>5, CoverStep
    <3>8. QED
      BY <3>3, <3>4, <3>5, <3>6, <3>7 DEF CartsInv
  <2>3. QED
    BY <2>1, <2>2
<1>3. QED
  BY <1>1, <1>2, PTL DEF Spec

\* Carts, calls and what is noted of them stay what they should be, in every
\* step of cartService.ts and checkoutCart.
THEOREM CartsTypeCorrect == Spec => []TypeOK
<1>1. CartsInv => TypeOK
  BY DEF CartsInv
<1>2. QED
  BY <1>1, CartsInvariant, PTL

\* A cart that one call at a time has held holds what its calls made of it, in
\* one row a product, and its subtotal is what its rows come to: whatever
\* getOrCreateCart made of the customer's first calls, and however often a save
\* failed.
THEOREM CartsSequentialIsExact == Spec => []SequentialIsExact
<1>1. CartsInv => SequentialIsExact
  <2> SUFFICES ASSUME CartsInv, crossed = {}, NEW n \in DOMAIN carts
               PROVE  /\ carts[n].subtotal = Units(carts[n].items)
                      /\ \A p \in Products :
                           /\ InCart(carts[n].items, p) = basket[n][p]
                           /\ Cardinality({i \in DOMAIN carts[n].items :
                                             carts[n].items[i].product = p}) <= 1
    BY DEF SequentialIsExact
  <2>1. /\ carts[n].subtotal = Units(carts[n].items)
        /\ \A p \in Products : InCart(carts[n].items, p) = basket[n][p]
        /\ \A i, j \in DOMAIN carts[n].items :
             carts[n].items[i].product = carts[n].items[j].product => i = j
    BY DEF CartsInv, AloneIsExact, Exact
  <2>2. ASSUME NEW p \in Products
        PROVE  Cardinality({i \in DOMAIN carts[n].items :
                              carts[n].items[i].product = p}) <= 1
    <3>1. PICK rows :
              rows = {i \in DOMAIN carts[n].items : carts[n].items[i].product = p}
      OBVIOUS
    <3>2. rows = {} \/ \E i \in rows : rows = {i}
      BY <2>1, <3>1
    <3>3. Cardinality(rows) = 0 \/ Cardinality(rows) = 1
      BY <3>2, FS_EmptySet, FS_Singleton
    <3>4. QED
      BY <3>1, <3>3
  <2>3. QED
    BY <2>1, <2>2
<1>2. QED
  BY <1>1, CartsInvariant, PTL

\* A row loses its product only when a quantity is written by position to a cart
\* that is emptied, or loses a row, at the same time.
THEOREM RowsBreakByEmptyingOnly == Spec => []BrokenByEmptying
<1>1. CartsInv => BrokenByEmptying
  BY DEF CartsInv, RowsInPlace, BrokenByEmptying
<1>2. QED
  BY <1>1, CartsInvariant, PTL

\* Nobody buys more of a product than was put into the carts, unless two calls
\* crossed in one of the ways Excused names: any number of calls of the pages, in
\* any order, with any number of carts.
THEOREM NothingIsOrderedTwice == Spec => []OrderedOnce
<1>1. CartsInv => OrderedOnce
  <2> SUFFICES ASSUME CartsInv, ~ Excused, NEW p \in Products
               PROVE  ~ (ordered[p] > asked[p])
    BY DEF OrderedOnce
  <2>1. /\ ordered[p] \in Nat /\ asked[p] \in Nat
        /\ SumOn(Reaches(p), DOMAIN carts) \in Nat
    BY ReachesAre DEF CartsInv, TypeOK
  <2>2. ordered[p] + SumOn(Reaches(p), DOMAIN carts) <= asked[p]
    BY DEF CartsInv, OrdersCovered
  <2>3. QED
    BY <2>1, <2>2
<1>2. QED
  BY <1>1, CartsInvariant, PTL
=============================================================================
