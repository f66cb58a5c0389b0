----------------------------- MODULE SumTheorems -----------------------------
(***************************************************************************)
(* What SumOn computes, proved for every finite set.  The library's        *)
(* induction theorems take an operator as a parameter; here induction is   *)
(* the existence of a minimal counterexample (WFMin), which does not.      *)
(***************************************************************************)
EXTENDS Sums, FiniteSets, FiniteSetTheorems, WellFoundedInduction, TLAPS

\* g satisfies the defining equation of SumOn for f, on every set of D.
IsSum(g, f, D) == \A T \in D : g[T] = IF T = {} THEN 0 ELSE f[Pick(T)] + g[T \ {Pick(T)}]

\* The same on every subset of S.
Solves(g, f, S) == IsSum(g, f, SUBSET S)

\* The subsets of S with at most n elements.
UpTo(S, n) == {T \in SUBSET S : Cardinality(T) <= n}

\* Pick takes its element from the set it is given.
LEMMA PickIn == ASSUME NEW S, S # {} PROVE Pick(S) \in S
  BY DEF Pick

\* A function satisfying the equation exists on the subsets of every size: by
\* the least size for which it would not.
LEMMA SumExists ==
  ASSUME NEW S, IsFiniteSet(S), NEW f \in [S -> Int], NEW n \in Nat
  PROVE  \E g \in [UpTo(S, n) -> Int] : IsSum(g, f, UpTo(S, n))
<1> DEFINE Has(k) == \E g \in [UpTo(S, k) -> Int] : IsSum(g, f, UpTo(S, k))
           Bad == {k \in Nat : ~ Has(k)}
<1>1. Has(0)
  <2>1. \A T \in UpTo(S, 0) : T = {}
    BY FS_Subset, FS_EmptySet, FS_CardinalityType DEF UpTo
  <2>2. [T \in UpTo(S, 0) |-> 0] \in [UpTo(S, 0) -> Int]
    OBVIOUS
  <2>3. IsSum([T \in UpTo(S, 0) |-> 0], f, UpTo(S, 0))
    BY <2>1 DEF IsSum
  <2> QED BY <2>2, <2>3
<1>2. \A k \in Nat : Has(k) => Has(k + 1)
  <2> SUFFICES ASSUME NEW k \in Nat, Has(k) PROVE Has(k + 1)
    OBVIOUS
  <2>1. PICK g \in [UpTo(S, k) -> Int] : IsSum(g, f, UpTo(S, k))
    OBVIOUS
  <2> DEFINE e(T) == IF T = {} THEN 0 ELSE f[Pick(T)] + g[T \ {Pick(T)}]
             h == [T \in UpTo(S, k + 1) |-> e(T)]
  <2>2. ASSUME NEW T \in UpTo(S, k + 1), T # {}
        PROVE  /\ Pick(T) \in S
               /\ T \ {Pick(T)} \in UpTo(S, k)
    <3>1. Pick(T) \in T /\ T \subseteq S BY <2>2, PickIn DEF UpTo
    <3>2. IsFiniteSet(T) /\ Cardinality(T) \in Nat /\ Cardinality(T) <= k + 1
      BY FS_Subset, FS_CardinalityType DEF UpTo
    <3>3. Cardinality(T \ {Pick(T)}) = Cardinality(T) - 1
      BY <3>1, <3>2, FS_RemoveElement
    <3> QED BY <3>1, <3>2, <3>3 DEF UpTo
  <2>3. h \in [UpTo(S, k + 1) -> Int]
    <3>1. ASSUME NEW T \in UpTo(S, k + 1) PROVE e(T) \in Int
      <4>1. CASE T = {}
        BY <4>1
      <4>2. CASE T # {}
        <5>1. f[Pick(T)] \in Int /\ g[T \ {Pick(T)}] \in Int
          BY <2>2, <4>2
        <5> QED BY <5>1, <4>2
      <4> QED BY <4>1, <4>2
    <3> HIDE DEF e
    <3> QED BY <3>1
  <2>4. ASSUME NEW T \in UpTo(S, k)  PROVE h[T] = g[T] /\ T \in UpTo(S, k+1)
    <3>1. T \in UpTo(S, k + 1) BY FS_Subset, FS_CardinalityType DEF UpTo
    <3> QED BY <3>1, <2>1 DEF IsSum
  <2>5. IsSum(h, f, UpTo(S, k + 1))
    <3> SUFFICES ASSUME NEW T \in UpTo(S, k + 1)
                 PROVE  h[T] = IF T = {} THEN 0 ELSE f[Pick(T)] + h[T \ {Pick(T)}]
      BY DEF IsSum
    <3>1. CASE T = {} BY <3>1
    <3>2. CASE T # {}
      <4>1. T \ {Pick(T)} \in UpTo(S, k) BY <3>2, <2>2
      <4>2. h[T \ {Pick(T)}] = g[T \ {Pick(T)}] BY <4>1, <2>4
      <4> HIDE DEF h
      <4> QED BY <3>2, <4>2 DEF h
    <3> QED BY <3>1, <3>2
  <2> HIDE DEF h
  <2> QED BY <2>3, <2>5
<1> HIDE DEF Has
<1>3. Bad = {}
  <2> SUFFICES ASSUME Bad # {} PROVE FALSE OBVIOUS
  <2>1. PICK m \in Bad : \A y \in Bad : ~ (<<y, m>> \in OpToRel(<, Nat))
    BY WFMin, NatLessThanWellFounded
  <2>2. m \in Nat /\ m # 0 BY <2>1, <1>1
  <2>3. m - 1 \in Nat /\ <<m - 1, m>> \in OpToRel(<, Nat)
    BY <2>2 DEF OpToRel
  <2>4. Has(m - 1) BY <2>1, <2>3
  <2>5. Has((m - 1) + 1) BY <2>3, <2>4, <1>2
  <2>6. (m - 1) + 1 = m BY <2>2
  <2>7. Has(m) BY <2>5, <2>6
  <2> QED BY <2>7, <2>1
<1> QED BY <1>3 DEF Has

\* Minimal counterexample: a smallest of some subsets of a finite set.
LEMMA SmallestSet ==
  ASSUME NEW S, IsFiniteSet(S), NEW Bad \in SUBSET (SUBSET S), Bad # {}
  PROVE  \E T \in Bad : \A U \in SUBSET T : U # T => U \notin Bad
<1>1. Bad \subseteq FiniteSubsetsOf(S)
  BY FS_Subset DEF FiniteSubsetsOf
<1>2. PICK T \in Bad : \A U \in Bad : ~ (<<U, T>> \in StrictSubsetOrdering(S))
  BY <1>1, WFMin, FS_StrictSubsetOrderingWellFounded
<1>3. QED
  BY <1>2 DEF StrictSubsetOrdering

\* The smallest bad set is empty, or is no longer bad without its picked element.
LEMMA MinimalSet ==
  ASSUME NEW S, IsFiniteSet(S), NEW Bad \in SUBSET (SUBSET S), Bad # {}
  PROVE  \E T \in Bad : T # {} => /\ Pick(T) \in T
                                  /\ T \ {Pick(T)} \in (SUBSET S) \ Bad
<1>1. PICK T \in Bad : \A U \in SUBSET T : U # T => U \notin Bad
  BY SmallestSet
<1>2. ASSUME T # {} PROVE Pick(T) \in T /\ T \ {Pick(T)} \in (SUBSET S) \ Bad
  <2>1. Pick(T) \in T
    BY <1>2, PickIn
  <2>2. T \ {Pick(T)} \in SUBSET T /\ T \ {Pick(T)} # T /\ T \subseteq S
    BY <2>1
  <2>3. QED
    BY <1>1, <2>1, <2>2
<1>3. QED
  BY <1>2

\* SumOn satisfies its own recursion equation.
LEMMA SumOnRecursion ==
  ASSUME NEW S, IsFiniteSet(S), NEW f, \A x \in S : f[x] \in Int
  PROVE  \E g : Solves(g, f, S) /\ SumOn(f, S) = g[S]
<1> DEFINE r == [x \in S |-> f[x]]
<1>1. UpTo(S, Cardinality(S)) = SUBSET S
  BY FS_Subset, FS_CardinalityType DEF UpTo
<1>2. Cardinality(S) \in Nat /\ r \in [S -> Int]
  BY FS_CardinalityType
<1>3. \E g \in [UpTo(S, Cardinality(S)) -> Int] : IsSum(g, r, UpTo(S, Cardinality(S)))
  BY <1>2, SumExists
<1>4. PICK g \in [SUBSET S -> Int] : IsSum(g, r, SUBSET S)
  BY <1>1, <1>3
<1>5. IsSum(g, f, SUBSET S)
  BY <1>4, PickIn DEF IsSum
<1> DEFINE F(h) == [T \in SUBSET S |-> IF T = {} THEN 0 ELSE f[Pick(T)] + h[T \ {Pick(T)}]]
           s == CHOOSE h : h = F(h)
<1>6. SumOn(f, S) = s[S]
  BY DEF SumOn
<1>7. g = F(g)
  BY <1>5 DEF IsSum
<1>8. s = F(s)
  BY <1>7
<1>9. Solves(s, f, S)
  <2> HIDE DEF s
  <2> QED BY <1>8 DEF IsSum, Solves
<1> QED BY <1>6, <1>9

\* The equation has one solution, whatever larger set it is solved on.
LEMMA SumUnique ==
  ASSUME NEW S, NEW R, NEW f, NEW h, NEW g1, NEW g2, IsFiniteSet(S),
         S \subseteq R, \A x \in S : f[x] = h[x],
         Solves(g1, f, S), Solves(g2, h, R)
  PROVE  \A T \in SUBSET S : g1[T] = g2[T]
<1> DEFINE Bad == {T \in SUBSET S : g1[T] # g2[T]}
<1> SUFFICES ASSUME Bad # {} PROVE FALSE
  OBVIOUS
<1>1. PICK T \in Bad : T # {} => /\ Pick(T) \in T
                                /\ T \ {Pick(T)} \in (SUBSET S) \ Bad
  BY MinimalSet
<1>2. T # {} => g1[T \ {Pick(T)}] = g2[T \ {Pick(T)}] /\ f[Pick(T)] = h[Pick(T)]
  BY <1>1
<1>3. /\ g1[T] = IF T = {} THEN 0 ELSE f[Pick(T)] + g1[T \ {Pick(T)}]
      /\ g2[T] = IF T = {} THEN 0 ELSE h[Pick(T)] + g2[T \ {Pick(T)}]
  BY <1>1 DEF IsSum, Solves
<1>4. g1[T] = g2[T]
  BY <1>2, <1>3
<1>5. QED
  BY <1>1, <1>4

\* A sum depends only on what the function is on the set.
LEMMA SumAgree ==
  ASSUME NEW S, IsFiniteSet(S), NEW f, NEW h,
         \A x \in S : f[x] \in Int /\ f[x] = h[x]
  PROVE  SumOn(f, S) = SumOn(h, S)
<1>1. PICK g1 : Solves(g1, f, S) /\ SumOn(f, S) = g1[S]
  BY SumOnRecursion
<1>2. PICK g2 : Solves(g2, h, S) /\ SumOn(h, S) = g2[S]
  <2>1. \A x \in S : h[x] \in Int
    OBVIOUS
  <2>2. QED
    BY <2>1, SumOnRecursion
<1>3. S \subseteq S /\ \A x \in S : f[x] = h[x]
  OBVIOUS
<1>4. \A T \in SUBSET S : g1[T] = g2[T]
  BY <1>1, <1>2, <1>3, SumUnique
<1>5. QED
  BY <1>1, <1>2, <1>4

\* The sum over nothing, and the sum in terms of one without the picked element.
LEMMA SumPick ==
  ASSUME NEW S, IsFiniteSet(S), NEW f, \A x \in S : f[x] \in Int
  PROVE  SumOn(f, S) = IF S = {} THEN 0 ELSE f[Pick(S)] + SumOn(f, S \ {Pick(S)})
<1>1. PICK g : Solves(g, f, S) /\ SumOn(f, S) = g[S]
  BY SumOnRecursion
<1>2. g[S] = IF S = {} THEN 0 ELSE f[Pick(S)] + g[S \ {Pick(S)}]
  BY <1>1 DEF IsSum, Solves
<1> DEFINE R == S \ {Pick(S)}
<1>3. SumOn(f, R) = g[R]
  <2>1. IsFiniteSet(R) /\ \A x \in R : f[x] \in Int
    BY FS_Subset
  <2> HIDE DEF R
  <2>2. PICK g1 : Solves(g1, f, R) /\ SumOn(f, R) = g1[R]
    BY <2>1, SumOnRecursion
  <2>3. R \subseteq S /\ \A x \in R : f[x] = f[x]
    BY DEF R
  <2>4. \A T \in SUBSET R : g1[T] = g[T]
    BY <1>1, <2>1, <2>2, <2>3, SumUnique
  <2>5. QED
    BY <2>2, <2>4
<1>4. QED
  BY <1>1, <1>2, <1>3
LEMMA SumEmpty == \A f : SumOn(f, {}) = 0
BY SumPick, FS_EmptySet

\* The reduce over the stock of every branch row is an integer.
THEOREM SumIsInt ==
  ASSUME NEW S, IsFiniteSet(S), NEW f, \A x \in S : f[x] \in Int
  PROVE  SumOn(f, S) \in Int
<1> DEFINE Bad == {T \in SUBSET S : SumOn(f, T) \notin Int}
<1> SUFFICES ASSUME Bad # {} PROVE FALSE
  OBVIOUS
<1>1. PICK T \in Bad : T # {} => /\ Pick(T) \in T
                                /\ T \ {Pick(T)} \in (SUBSET S) \ Bad
  BY MinimalSet
<1>2. SumOn(f, T) = IF T = {} THEN 0 ELSE f[Pick(T)] + SumOn(f, T \ {Pick(T)})
  <2>1. IsFiniteSet(T) /\ \A x \in T : f[x] \in Int
    BY <1>1, FS_Subset
  <2>2. QED
    BY <2>1, SumPick
<1>3. T # {} => f[Pick(T)] \in Int /\ SumOn(f, T \ {Pick(T)}) \in Int
  BY <1>1
<1>4. QED
  BY <1>1, <1>2, <1>3

\* Any element of the set may be taken out of the sum first.
THEOREM SumRemove ==
  ASSUME NEW S, IsFiniteSet(S), NEW f, \A x \in S : f[x] \in Int, NEW y \in S
  PROVE  SumOn(f, S) = f[y] + SumOn(f, S \ {y})
<1> DEFINE Bad == {T \in SUBSET S : \E z \in T : SumOn(f, T) # f[z] + SumOn(f, T \ {z})}
<1>1. Bad = {}
  <2> SUFFICES ASSUME Bad # {} PROVE FALSE
    OBVIOUS
  <2>1. PICK T \in Bad : \A U \in SUBSET T : U # T => U \notin Bad
    <3>1. Bad \in SUBSET (SUBSET S)
      OBVIOUS
    <3> HIDE DEF Bad
    <3>2. QED
      BY <3>1, SmallestSet
  <2>2. PICK z \in T : SumOn(f, T) # f[z] + SumOn(f, T \ {z})
    BY <2>1
  <2>3. T \subseteq S /\ IsFiniteSet(T)
    BY <2>1, FS_Subset
  <2> HIDE DEF Bad
  <2> DEFINE p == Pick(T)
  <2>4. p \in T /\ SumOn(f, T) = f[p] + SumOn(f, T \ {p})
    BY <2>2, <2>3, PickIn, SumPick
  <2> HIDE DEF p
  <2>5. p # z
    BY <2>2, <2>4
  <2>6. \A U \in SUBSET S : IsFiniteSet(U) /\ SumOn(f, U) \in Int
    BY SumIsInt, FS_Subset
  <2> DEFINE R == (T \ {p}) \ {z}
  <2>7. SumOn(f, T \ {p}) = f[z] + SumOn(f, R)
    BY <2>1, <2>3, <2>4, <2>5 DEF Bad
  <2>8. SumOn(f, T \ {z}) = f[p] + SumOn(f, R)
    <3>1. (T \ {z}) \ {p} = R
      OBVIOUS
    <3>2. SumOn(f, T \ {z}) = f[p] + SumOn(f, (T \ {z}) \ {p})
      BY <2>1, <2>2, <2>3, <2>4, <2>5 DEF Bad
    <3>3. QED
      BY <3>1, <3>2
  <2>9. f[p] \in Int /\ f[z] \in Int /\ SumOn(f, R) \in Int
    BY <2>2, <2>3, <2>4, <2>6
  <2> HIDE DEF R
  <2>10. QED
    BY <2>2, <2>4, <2>7, <2>8, <2>9
<1>2. QED
  BY <1>1

\* What a subset comes to is no more than what the set does.
THEOREM SumWithin ==
  ASSUME NEW S, IsFiniteSet(S), NEW f, \A x \in S : f[x] \in Nat, NEW T \in SUBSET S
  PROVE  SumOn(f, T) <= SumOn(f, S)
<1> DEFINE Bad == {U \in SUBSET S : T \subseteq U /\ ~ (SumOn(f, T) <= SumOn(f, U))}
<1>1. Bad = {}
  <2> SUFFICES ASSUME Bad # {} PROVE FALSE
    OBVIOUS
  <2>1. PICK U \in Bad : \A V \in SUBSET U : V # U => V \notin Bad
    <3>1. Bad \in SUBSET (SUBSET S)
      OBVIOUS
    <3> HIDE DEF Bad
    <3>2. QED
      BY <3>1, SmallestSet
  <2>2. /\ U \subseteq S /\ T \subseteq U
        /\ ~ (SumOn(f, T) <= SumOn(f, U))
    BY <2>1
  <2>3. \A V \in SUBSET S : IsFiniteSet(V) /\ SumOn(f, V) \in Int
    <3>1. ASSUME NEW V \in SUBSET S PROVE IsFiniteSet(V) /\ SumOn(f, V) \in Int
      <4>1. IsFiniteSet(V) /\ \A x \in V : f[x] \in Int
        BY FS_Subset
      <4>2. QED
        BY <4>1, SumIsInt
    <3>2. QED
      BY <3>1
  <2>4. PICK y \in U : y \notin T
    BY <2>2, <2>3
  <2>5. SumOn(f, T) <= SumOn(f, U \ {y})
    BY <2>1, <2>2, <2>4
  <2>6. SumOn(f, U) = f[y] + SumOn(f, U \ {y})
    <3>1. IsFiniteSet(U) /\ \A x \in U : f[x] \in Int
      BY <2>2, <2>3
    <3>2. QED
      BY <3>1, SumRemove
  <2>7. f[y] \in Nat /\ SumOn(f, T) \in Int /\ SumOn(f, U \ {y}) \in Int
    BY <2>2, <2>3, <2>4
  <2>8. QED
    BY <2>2, <2>5, <2>6, <2>7
<1>2. QED
  BY <1>1

\* What nobody contributes to is nothing.
LEMMA SumZero ==
  ASSUME NEW S, IsFiniteSet(S), NEW f, \A x \in S : f[x] = 0
  PROVE  SumOn(f, S) = 0
<1> DEFINE Bad == {T \in SUBSET S : SumOn(f, T) # 0}
<1> SUFFICES ASSUME Bad # {} PROVE FALSE
  OBVIOUS
<1>1. PICK T \in Bad : T # {} => /\ Pick(T) \in T
                                /\ T \ {Pick(T)} \in (SUBSET S) \ Bad
  BY MinimalSet
<1>2. SumOn(f, T) = IF T = {} THEN 0 ELSE f[Pick(T)] + SumOn(f, T \ {Pick(T)})
  <2>1. IsFiniteSet(T) /\ \A x \in T : f[x] \in Int
    BY <1>1, FS_Subset
  <2>2. QED
    BY <2>1, SumPick
<1>3. T # {} => f[Pick(T)] = 0 /\ SumOn(f, T \ {Pick(T)}) = 0
  BY <1>1
<1>4. QED
  BY <1>1, <1>2, <1>3

\* What at most one contributes to, and that one no more than once.
THEOREM SumAtMostOne ==
  ASSUME NEW S, IsFiniteSet(S), NEW f, \A x \in S : f[x] \in {0, 1},
         \A x, y \in S : f[x] = 1 /\ f[y] = 1 => x = y
  PROVE  SumOn(f, S) <= 1
<1>1. CASE \A x \in S : f[x] = 0
  BY <1>1, SumZero
<1>2. CASE \E x \in S : f[x] = 1
  <2>1. PICK x \in S : f[x] = 1
    BY <1>2
  <2>2. SumOn(f, S) = f[x] + SumOn(f, S \ {x})
    <3>1. \A y \in S : f[y] \in Int
      OBVIOUS
    <3>2. QED
      BY <3>1, SumRemove
  <2>3. SumOn(f, S \ {x}) = 0
    <3>1. IsFiniteSet(S \ {x}) /\ \A y \in S \ {x} : f[y] = 0
      BY <2>1, FS_Subset
    <3>2. QED
      BY <3>1, SumZero
  <2>4. QED
    BY <2>1, <2>2, <2>3
<1>3. QED
  BY <1>1, <1>2

\* Changing one row changes the sum by the difference: what an adjustment of a
\* single branch does to the total of the product.
THEOREM SumUpdate ==
  ASSUME NEW S, IsFiniteSet(S), NEW f \in [S -> Int], NEW x \in S, NEW v \in Int
  PROVE  SumOn([f EXCEPT ![x] = v], S) = SumOn(f, S) + (v - f[x])
<1> DEFINE h == [f EXCEPT ![x] = v]
<1>1. h \in [S -> Int] OBVIOUS
<1>2. PICK g1 : Solves(g1, f, S) /\ SumOn(f, S) = g1[S]
  BY SumOnRecursion
<1>3. PICK g2 : Solves(g2, h, S) /\ SumOn(h, S) = g2[S]
  BY <1>1, SumOnRecursion
<1> DEFINE Off(T) == IF x \in T THEN v - f[x] ELSE 0
           Bad == {T \in SUBSET S : ~ (g1[T] \in Int /\ g2[T] = g1[T] + Off(T))}
<1>4. Bad = {}
  <2> SUFFICES ASSUME Bad # {} PROVE FALSE
    OBVIOUS
  <2>1. PICK T \in Bad : T # {} => /\ Pick(T) \in T
                                  /\ T \ {Pick(T)} \in (SUBSET S) \ Bad
    BY MinimalSet
  <2> T \in SUBSET S
    BY <2>1
  <2>2. CASE T = {}
    <3>1. g1[T] = 0 /\ g2[T] = 0
      BY <1>2, <1>3, <2>2 DEF IsSum, Solves
    <3>2. Off(T) = 0
      BY <2>2
    <3> QED BY <2>1, <3>1, <3>2
  <2>3. CASE T # {}
    <3> DEFINE p == Pick(T)
               R == T \ {p}
    <3>1. p \in T /\ p \in S /\ R \in SUBSET S /\ g1[R] \in Int /\ g2[R] = g1[R] + Off(R)
      BY <2>1, <2>3
    <3>2. g1[T] = f[p] + g1[R] /\ g2[T] = h[p] + g2[R]
      BY <1>2, <1>3, <2>3, <2>1 DEF IsSum, Solves
    <3> HIDE DEF p
    <3>3. CASE p = x
      BY <3>1, <3>2, <3>3, <2>1
    <3>4. CASE p # x
      BY <3>1, <3>2, <3>4, <2>1
    <3> QED BY <3>3, <3>4
  <2> QED BY <2>2, <2>3
<1> QED BY <1>2, <1>3, <1>4

\* Two sums in one.
THEOREM SumPlus ==
  ASSUME NEW S, IsFiniteSet(S), NEW f, NEW g, NEW h,
         \A x \in S : f[x] \in Int /\ g[x] \in Int /\ h[x] = f[x] + g[x]
  PROVE  SumOn(h, S) = SumOn(f, S) + SumOn(g, S)
<1> DEFINE Bad == {T \in SUBSET S : ~ (SumOn(h, T) = SumOn(f, T) + SumOn(g, T))}
<1> SUFFICES ASSUME Bad # {} PROVE FALSE
  OBVIOUS
<1>1. PICK T \in Bad : T # {} => /\ Pick(T) \in T
                                /\ T \ {Pick(T)} \in (SUBSET S) \ Bad
  BY MinimalSet
<1>2. IsFiniteSet(T) /\ \A x \in T : f[x] \in Int /\ g[x] \in Int /\ h[x] \in Int
  BY <1>1, FS_Subset
<1>3. /\ SumOn(f, T) = IF T = {} THEN 0 ELSE f[Pick(T)] + SumOn(f, T \ {Pick(T)})
      /\ SumOn(g, T) = IF T = {} THEN 0 ELSE g[Pick(T)] + SumOn(g, T \ {Pick(T)})
      /\ SumOn(h, T) = IF T = {} THEN 0 ELSE h[Pick(T)] + SumOn(h, T \ {Pick(T)})
  BY <1>2, SumPick
<1>4. CASE T = {}
  BY <1>1, <1>3, <1>4
<1>5. CASE T # {}
  <2> DEFINE p == Pick(T)
             R == T \ {p}
  <2>1. SumOn(h, R) = SumOn(f, R) + SumOn(g, R)
    BY <1>1, <1>5
  <2>2. /\ SumOn(f, R) \in Int /\ SumOn(g, R) \in Int
        /\ f[p] \in Int /\ g[p] \in Int /\ h[p] = f[p] + g[p]
    <3>1. IsFiniteSet(R) /\ \A x \in R : f[x] \in Int /\ g[x] \in Int
      BY <1>2, FS_Subset
    <3>2. p \in S
      BY <1>1, <1>5
    <3> QED BY <3>1, <3>2, SumIsInt
  <2>3. SumOn(h, T) = SumOn(f, T) + SumOn(g, T)
    BY <1>3, <1>5, <2>1, <2>2
  <2> QED BY <1>1, <2>3
<1> QED BY <1>4, <1>5

\* What is nothing outside a subset comes to what it does on the subset.
THEOREM SumOutside ==
  ASSUME NEW S, IsFiniteSet(S), NEW f, \A x \in S : f[x] \in Int,
         NEW T \in SUBSET S, \A x \in S \ T : f[x] = 0
  PROVE  SumOn(f, T) = SumOn(f, S)
<1> DEFINE Bad == {U \in SUBSET S : T \subseteq U /\ ~ (SumOn(f, T) = SumOn(f, U))}
<1> SUFFICES ASSUME Bad # {} PROVE FALSE
  OBVIOUS
<1>1. PICK U \in Bad : \A V \in SUBSET U : V # U => V \notin Bad
  <2>1. Bad \in SUBSET (SUBSET S)
    OBVIOUS
  <2> HIDE DEF Bad
  <2>2. QED
    BY <2>1, SmallestSet
<1>2. U \subseteq S /\ T \subseteq U /\ ~ (SumOn(f, T) = SumOn(f, U))
  BY <1>1
<1>3. PICK y \in U : y \notin T
  BY <1>2
<1>4. SumOn(f, T) = SumOn(f, U \ {y})
  BY <1>1, <1>2, <1>3
<1>5. IsFiniteSet(U) /\ \A x \in U : f[x] \in Int
  BY <1>2, FS_Subset
<1>6. SumOn(f, U) = f[y] + SumOn(f, U \ {y})
  BY <1>5, SumRemove
<1>7. SumOn(f, U \ {y}) \in Int
  <2>1. IsFiniteSet(U \ {y}) /\ \A x \in U \ {y} : f[x] \in Int
    BY <1>5, FS_Subset
  <2> QED BY <2>1, SumIsInt
<1>8. f[y] = 0
  BY <1>2, <1>3
<1> QED BY <1>2, <1>4, <1>6, <1>7, <1>8

\* Two functions that differ in one place, and their sums.
THEOREM SumDiffers ==
  ASSUME NEW S, IsFiniteSet(S), NEW f, NEW h, NEW x \in S,
         \A y \in S : f[y] \in Int /\ h[y] \in Int,
         \A y \in S \ {x} : h[y] = f[y]
  PROVE  SumOn(h, S) = SumOn(f, S) + (h[x] - f[x])
<1>1. SumOn(f, S) = f[x] + SumOn(f, S \ {x}) /\ SumOn(h, S) = h[x] + SumOn(h, S \ {x})
  BY SumRemove
<1>2. IsFiniteSet(S \ {x})
  BY FS_Subset
<1>3. SumOn(f, S \ {x}) = SumOn(h, S \ {x})
  BY <1>2, SumAgree
<1>4. SumOn(f, S \ {x}) \in Int
  BY <1>2, SumIsInt
<1> QED BY <1>1, <1>3, <1>4

\* A sum of naturals is one.
THEOREM SumIsNat ==
  ASSUME NEW S, IsFiniteSet(S), NEW f, \A x \in S : f[x] \in Nat
  PROVE  SumOn(f, S) \in Nat
<1>1. SumOn(f, S) \in Int
  BY SumIsInt
<1>2. SumOn(f, {}) <= SumOn(f, S)
  BY SumWithin
<1>3. QED
  BY <1>1, <1>2, SumEmpty

\* What is nowhere larger does not come to more.
THEOREM SumAtMost ==
  ASSUME NEW S, IsFiniteSet(S), NEW f, NEW h,
         \A x \in S : f[x] \in Nat /\ h[x] \in Nat /\ f[x] <= h[x]
  PROVE  SumOn(f, S) <= SumOn(h, S)
<1> DEFINE d == [x \in S |-> h[x] - f[x]]
<1>1. \A x \in S : d[x] \in Nat /\ h[x] = f[x] + d[x]
  OBVIOUS
<1> HIDE DEF d
<1>2. SumOn(h, S) = SumOn(f, S) + SumOn(d, S)
  BY <1>1, SumPlus
<1>3. SumOn(f, S) \in Nat /\ SumOn(d, S) \in Nat
  BY <1>1, SumIsNat
<1>4. QED
  BY <1>2, <1>3

\* A sum of ones counts.
THEOREM SumCounts ==
  ASSUME NEW S, IsFiniteSet(S), NEW f, \A x \in S : f[x] = 1
  PROVE  SumOn(f, S) = Cardinality(S)
<1> DEFINE Bad == {T \in SUBSET S : SumOn(f, T) # Cardinality(T)}
<1> SUFFICES ASSUME Bad # {} PROVE FALSE
  OBVIOUS
<1>1. PICK T \in Bad : T # {} => /\ Pick(T) \in T
                                /\ T \ {Pick(T)} \in (SUBSET S) \ Bad
  BY MinimalSet
<1>2. IsFiniteSet(T) /\ \A x \in T : f[x] = 1 /\ f[x] \in Int
  BY <1>1, FS_Subset
<1>3. SumOn(f, T) = IF T = {} THEN 0 ELSE f[Pick(T)] + SumOn(f, T \ {Pick(T)})
  BY <1>2, SumPick
<1>4. CASE T = {}
  BY <1>1, <1>3, <1>4, FS_EmptySet
<1>5. CASE T # {}
  <2>1. SumOn(f, T \ {Pick(T)}) = Cardinality(T \ {Pick(T)})
    BY <1>1, <1>5
  <2>2. Cardinality(T \ {Pick(T)}) = Cardinality(T) - 1 /\ Cardinality(T) \in Nat
    BY <1>1, <1>2, <1>5, FS_RemoveElement, FS_CardinalityType
  <2>3. f[Pick(T)] = 1
    BY <1>1, <1>2, <1>5
  <2>4. QED
    BY <1>1, <1>3, <1>5, <2>1, <2>2, <2>3
<1>6. QED
  BY <1>4, <1>5

\* The same terms under other names come to the same.
THEOREM SumRenamed ==
  ASSUME NEW S, IsFiniteSet(S), NEW f, \A x \in S : f[x] \in Int,
         NEW T, IsFiniteSet(T), NEW h, NEW g, \A k \in T : g[k] \in S /\ h[k] = f[g[k]],
         \A k, l \in T : g[k] = g[l] => k = l,
         \A x \in S : \E k \in T : x = g[k]
  PROVE  SumOn(h, T) = SumOn(f, S)
<1> DEFINE Image(U) == {g[k] : k \in U}
           Bad == {U \in SUBSET T : SumOn(h, U) # SumOn(f, Image(U))}
<1>1. Image(T) = S
  OBVIOUS
<1>2. SUFFICES ASSUME Bad # {} PROVE FALSE
  BY <1>1
<1>3. PICK U \in Bad : U # {} => /\ Pick(U) \in U
                                /\ U \ {Pick(U)} \in (SUBSET T) \ Bad
  BY <1>2, MinimalSet
<1>4. /\ IsFiniteSet(U) /\ (\A k \in U : h[k] \in Int)
      /\ Image(U) \in SUBSET S /\ IsFiniteSet(Image(U))
  <2>1. IsFiniteSet(U) /\ (\A k \in U : h[k] \in Int)
    BY <1>3, FS_Subset
  <2>2. Image(U) \in SUBSET S
    BY <1>3
  <2>3. QED
    BY <2>1, <2>2, FS_Subset
<1>5. SumOn(h, U) = IF U = {} THEN 0 ELSE h[Pick(U)] + SumOn(h, U \ {Pick(U)})
  BY <1>4, SumPick
<1>6. CASE U = {}
  <2>1. Image(U) = {}
    BY <1>6
  <2>2. QED
    BY <1>3, <1>5, <1>6, <2>1, SumEmpty
<1>7. CASE U # {}
  <2>1. PICK k \in U : k = Pick(U)
    BY <1>3, <1>7
  <2>2. k \in T /\ U \ {k} \in SUBSET T /\ SumOn(h, U \ {k}) = SumOn(f, Image(U \ {k}))
    BY <1>3, <1>7, <2>1
  <2>3. Image(U \ {k}) = Image(U) \ {g[k]}
    BY <1>3, <2>1
  <2>4. g[k] \in Image(U) /\ \A x \in Image(U) : f[x] \in Int
    BY <1>4, <2>1
  <2>5. SumOn(f, Image(U)) = f[g[k]] + SumOn(f, Image(U) \ {g[k]})
    BY <1>4, <2>4, SumRemove
  <2>6. QED
    BY <1>3, <1>5, <1>7, <2>1, <2>2, <2>3, <2>5
<1>8. QED
  BY <1>6, <1>7
=============================================================================
