------------------------- MODULE StockReplayProofs -------------------------
(***************************************************************************)
(* What the sum of a replay comes to.  MapThenSumSet takes the elements of *)
(* a set one after the other in an order that CHOOSE fixes; the lemmas say *)
(* that such a sum exists for every finite set, that the order does not    *)
(* matter, and what one more movement of the ledger adds to the stock.     *)
(* Inductions on the size of a set are by a counterexample of least size.  *)
(***************************************************************************)
EXTENDS StockReplay, FiniteSetTheorems, WellFoundedInduction, SequenceTheorems, TLAPS

-----------------------------------------------------------------------------
(* Sums over finite sets *)

\* Among sets of subsets of a finite set there is a smallest one.
LEMMA LeastSet ==
  ASSUME NEW S, IsFiniteSet(S), NEW B \in SUBSET SUBSET S, B # {}
  PROVE  \E T \in B : \A R \in B : Cardinality(T) <= Cardinality(R)
<1> DEFINE sizes == {n \in Nat : \E T \in B : n = Cardinality(T)}
<1>1. \A T \in B : Cardinality(T) \in Nat
  BY FS_Subset, FS_CardinalityType
<1>2. sizes # {} /\ sizes \subseteq Nat
  BY <1>1
<1> HIDE DEF sizes
<1>3. PICK n \in sizes : \A m \in sizes : ~(<<m, n>> \in OpToRel(<, Nat))
  BY <1>2, NatLessThanWellFounded, WFMin, ZenonT(30)
<1>4. \A m \in sizes : ~(m < n)
  BY <1>2, <1>3 DEF OpToRel
<1>5. \A m \in sizes : n <= m
  BY <1>2, <1>4
<1> QED BY <1>1, <1>5 DEF sizes

LEMMA SmallerWithout ==
  ASSUME NEW S, IsFiniteSet(S), NEW U \in SUBSET S, NEW v \in U
  PROVE  ~(Cardinality(U) <= Cardinality(U \ {v}))
<1>1. IsFiniteSet(U) /\ Cardinality(U) \in Nat
  BY FS_Subset, FS_CardinalityType
<1>2. Cardinality(U \ {v}) = Cardinality(U) - 1
  BY <1>1, FS_RemoveElement
<1> QED BY <1>1, <1>2

Taken(s) == CHOOSE x \in s : TRUE

\* g gives each subset of S the sum of its weights, added up one after the other.
Adds(w, S, g) ==
  g = [s \in SUBSET S |->
         IF s = {} THEN 0 ELSE w[Taken(s)] + g[s \ {Taken(s)}]]

Sums(w, S, g) ==
  /\ IsFiniteSet(S)
  /\ \A x \in S : w[x] \in Int
  /\ g \in [SUBSET S -> Int]
  /\ Adds(w, S, g)

LEMMA TakenIn == ASSUME NEW s, s # {} PROVE Taken(s) \in s
BY DEF Taken

LEMMA SumOf ==
  ASSUME NEW S, NEW w, NEW g, Adds(w, S, g), NEW T \in SUBSET S
  PROVE  g[T] = IF T = {} THEN 0 ELSE w[Taken(T)] + g[T \ {Taken(T)}]
BY DEF Adds

LEMMA SumsExist ==
  ASSUME NEW S, IsFiniteSet(S), NEW w, \A x \in S : w[x] \in Int
  PROVE  \E g : Sums(w, S, g)
<1> DEFINE Right(g, s) == IF s = {} THEN 0 ELSE w[Taken(s)] + g[s \ {Taken(s)}]
           UpTo(g, n) == \A s \in SUBSET S : Cardinality(s) <= n => g[s] = Right(g, s)
           Good(n) == \E g \in [SUBSET S -> Int] : UpTo(g, n)
           bad == {n \in Nat : ~Good(n)}
<1>1. \A s \in SUBSET S : /\ Cardinality(s) \in Nat
                          /\ Cardinality(s) <= Cardinality(S)
                          /\ Cardinality(s) = 0 => s = {}
                          /\ s # {} => Cardinality(s \ {Taken(s)}) = Cardinality(s) - 1
  BY FS_Subset, FS_CardinalityType, FS_EmptySet, FS_RemoveElement, TakenIn
<1>2. ASSUME NEW g \in [SUBSET S -> Int], NEW s \in SUBSET S
      PROVE  Right(g, s) \in Int
  BY TakenIn
<1>3. bad = {}
  <2> SUFFICES ASSUME bad # {} PROVE FALSE
    OBVIOUS
  <2>1. bad \subseteq Nat
    OBVIOUS
  <2> HIDE DEF bad
  <2>2. PICK n \in bad : \A m \in bad : ~(<<m, n>> \in OpToRel(<, Nat))
    BY <2>1, NatLessThanWellFounded, WFMin
  <2>3. n \in Nat /\ \A m \in bad : ~(m < n)
    BY <2>1, <2>2 DEF OpToRel
  <2>4. Good(0)
    <3> DEFINE zero == [s \in SUBSET S |-> 0]
    <3>1. zero \in [SUBSET S -> Int]
      OBVIOUS
    <3>2. ASSUME NEW s \in SUBSET S, Cardinality(s) <= 0
          PROVE  zero[s] = Right(zero, s)
      <4>1. Cardinality(s) \in Nat /\ (Cardinality(s) = 0 => s = {})
        BY <1>1
      <4>2. s = {}
        BY <3>2, <4>1
      <4> QED BY <4>2
    <3> QED BY <3>1, <3>2
  <2>a. n # 0
    BY <2>2, <2>4 DEF bad
  <2>5. n - 1 \in Nat /\ n - 1 \notin bad
    BY <2>3, <2>a
  <2>6. PICK g \in [SUBSET S -> Int] : UpTo(g, n - 1)
    BY <2>5 DEF bad
  <2> DEFINE h == [s \in SUBSET S |-> Right(g, s)]
  <2>7. h \in [SUBSET S -> Int]
    BY <1>2
  <2>8. ASSUME NEW s \in SUBSET S, Cardinality(s) <= n
        PROVE  h[s] = Right(h, s)
    <3>1. CASE s = {}
      BY <3>1
    <3>2. CASE s # {}
      <4> DEFINE r == s \ {Taken(s)}
      <4>1. r \in SUBSET S /\ Cardinality(r) <= n - 1
        BY <1>1, <2>3, <2>8, <3>2
      <4>2. g[r] = h[r]
        BY <2>6, <4>1
      <4> QED BY <3>2, <4>2
    <3> QED BY <3>1, <3>2
  <2>9. Good(n)
    BY <2>7, <2>8
  <2> QED BY <2>2, <2>9 DEF bad
<1>4. PICK g \in [SUBSET S -> Int] : UpTo(g, Cardinality(S))
  BY <1>1, <1>3
<1>5. \A s \in SUBSET S : g[s] = Right(g, s)
  BY <1>1, <1>4
<1> QED BY <1>5 DEF Sums, Adds

\* The order does not matter: any element may be taken first.
LEMMA SumTake ==
  ASSUME NEW S, NEW w, NEW g, Sums(w, S, g), NEW T \in SUBSET S, NEW x \in T
  PROVE  g[T] = w[x] + g[T \ {x}]
<1>0. /\ IsFiniteSet(S) /\ (\A i \in S : w[i] \in Int) /\ g \in [SUBSET S -> Int]
      /\ Adds(w, S, g)
  BY DEF Sums
<1> DEFINE B == {U \in SUBSET S : \E y \in U : g[U] # w[y] + g[U \ {y}]}
<1> SUFFICES ASSUME B # {} PROVE FALSE
  OBVIOUS
<1>1. PICK U \in B : \A R \in B : Cardinality(U) <= Cardinality(R)
  <2>1. B \in SUBSET SUBSET S
    OBVIOUS
  <2> HIDE DEF B
  <2> QED BY <1>0, <2>1, LeastSet
<1>2. PICK y \in U : g[U] # w[y] + g[U \ {y}]
  OBVIOUS
<1> DEFINE z == Taken(U)
<1>3. z \in U /\ g[U] = w[z] + g[U \ {z}]
  BY <1>0, <1>2, TakenIn, SumOf
<1>4. z # y
  BY <1>2, <1>3
<1>5. ASSUME NEW v \in U PROVE U \ {v} \in SUBSET S /\ U \ {v} \notin B
  <2>1. U \in SUBSET S /\ U \ {v} \in SUBSET S
    OBVIOUS
  <2> HIDE DEF B
  <2>2. ~(Cardinality(U) <= Cardinality(U \ {v}))
    BY <1>0, <2>1, SmallerWithout
  <2> QED BY <1>1, <2>1, <2>2
<1>6. g[U \ {z}] = w[y] + g[(U \ {z}) \ {y}]
  BY <1>2, <1>3, <1>4, <1>5
<1>7. g[U \ {y}] = w[z] + g[(U \ {y}) \ {z}]
  BY <1>2, <1>3, <1>4, <1>5
<1>8. (U \ {z}) \ {y} = (U \ {y}) \ {z}
  OBVIOUS
<1>9. w[y] \in Int /\ w[z] \in Int /\ g[(U \ {y}) \ {z}] \in Int
  BY <1>0, <1>2, <1>3
<1>10. w[z] + (w[y] + g[(U \ {y}) \ {z}]) = w[y] + (w[z] + g[(U \ {y}) \ {z}])
  BY <1>9
<1> QED BY <1>2, <1>3, <1>6, <1>7, <1>8, <1>10

\* A sum depends on nothing but the weights of the elements summed.
LEMMA SumsAgree ==
  ASSUME NEW S, IsFiniteSet(S), NEW R, NEW w, NEW v, NEW g, NEW h,
         Adds(w, S, g), Adds(v, R, h),
         NEW T \in SUBSET (S \cap R), \A i \in T : w[i] = v[i]
  PROVE  g[T] = h[T]
<1> DEFINE B == {U \in SUBSET S : U \subseteq R /\ (\A i \in U : w[i] = v[i]) /\ g[U] # h[U]}
<1> SUFFICES ASSUME B # {} PROVE FALSE
  OBVIOUS
<1>1. PICK U \in B : \A Q \in B : Cardinality(U) <= Cardinality(Q)
  <2>1. B \in SUBSET SUBSET S
    OBVIOUS
  <2> HIDE DEF B
  <2> QED BY <2>1, LeastSet
<1> DEFINE z == Taken(U)
<1>2. /\ g[U] = IF U = {} THEN 0 ELSE w[z] + g[U \ {z}]
      /\ h[U] = IF U = {} THEN 0 ELSE v[z] + h[U \ {z}]
  <2>1. U \in SUBSET S /\ U \in SUBSET R
    OBVIOUS
  <2> HIDE DEF B
  <2>2. g[U] = IF U = {} THEN 0 ELSE w[z] + g[U \ {z}]
    BY <2>1, SumOf
  <2>3. h[U] = IF U = {} THEN 0 ELSE v[z] + h[U \ {z}]
    BY <2>1, SumOf
  <2> QED BY <2>2, <2>3
<1>3. U # {} /\ z \in U
  BY <1>2, TakenIn
<1>5. U \ {z} \notin B
  <2>1. U \in SUBSET S
    OBVIOUS
  <2> HIDE DEF B
  <2>2. ~(Cardinality(U) <= Cardinality(U \ {z}))
    BY <1>3, <2>1, SmallerWithout
  <2> QED BY <1>1, <2>2
<1>6. g[U \ {z}] = h[U \ {z}]
  BY <1>5
<1> QED BY <1>2, <1>3, <1>6

-----------------------------------------------------------------------------
(* Totals *)

LEMMA TotalIsSum ==
  ASSUME NEW W, IsFiniteSet(W), NEW f, \A x \in W : f[x] \in Int
  PROVE  \E g : Sums(f, W, g) /\ Total(f, W) = g[W]
<1>1. PICK g : Sums(f, W, g)
  BY SumsExist
<1> DEFINE it == CHOOSE h : h = [s \in SUBSET W |->
                                   IF s = {} THEN 0
                                   ELSE f[Taken(s)] + h[s \ {Taken(s)}]]
<1>2. Total(f, W) = it[W]
  BY DEF Total, MapThenSumSet, MapThenFoldSet, Taken
<1>3. Adds(f, W, it)
  BY <1>1 DEF Sums, Adds
<1> HIDE DEF it
<1>4. W \in SUBSET (W \cap W) /\ Adds(f, W, g)
  BY <1>1 DEF Sums
<1>5. it[W] = g[W]
  BY <1>3, <1>4, SumsAgree
<1> QED BY <1>1, <1>2, <1>5

LEMMA TotalEmpty ==
  ASSUME NEW f
  PROVE  Total(f, {}) = 0
<1>1. PICK g : Sums(f, {}, g) /\ Total(f, {}) = g[{}]
  BY TotalIsSum, FS_EmptySet
<1>2. Adds(f, {}, g) /\ {} \in SUBSET {}
  BY <1>1 DEF Sums
<1>3. g[{}] = 0
  BY <1>2, SumOf
<1> QED BY <1>1, <1>3

\* Any element may be taken out of a total.
LEMMA TotalTake ==
  ASSUME NEW W, IsFiniteSet(W), NEW f, \A x \in W : f[x] \in Int, NEW x \in W
  PROVE  /\ Total(f, W) = f[x] + Total(f, W \ {x})
         /\ Total(f, W) \in Int /\ Total(f, W \ {x}) \in Int
<1> DEFINE R == W \ {x}
<1>1. PICK g : Sums(f, W, g) /\ Total(f, W) = g[W]
  BY TotalIsSum
<1>2. IsFiniteSet(R)
  BY FS_RemoveElement
<1>3. PICK h : Sums(f, R, h) /\ Total(f, R) = h[R]
  BY <1>2, TotalIsSum
<1>4. Adds(f, W, g) /\ Adds(f, R, h) /\ R \in SUBSET (W \cap R)
  BY <1>1, <1>3 DEF Sums
<1>5. g[R] = h[R]
  BY <1>4, SumsAgree
<1>6. W \in SUBSET W /\ R \in SUBSET W
  OBVIOUS
<1>7. g[W] = f[x] + g[R]
  BY <1>1, <1>6, SumTake
<1>8. g[W] \in Int /\ g[R] \in Int
  BY <1>1, <1>6 DEF Sums
<1> QED BY <1>1, <1>3, <1>5, <1>7, <1>8

LEMMA TotalTyped ==
  ASSUME NEW W, IsFiniteSet(W), NEW f, \A x \in W : f[x] \in Int
  PROVE  Total(f, W) \in Int
<1>1. CASE W = {}
  BY <1>1, TotalEmpty
<1>2. CASE W # {}
  BY <1>2, TotalTake
<1> QED BY <1>1, <1>2

LEMMA TotalAgree ==
  ASSUME NEW W, IsFiniteSet(W), NEW f, NEW v, \A x \in W : f[x] \in Int /\ v[x] = f[x]
  PROVE  Total(v, W) = Total(f, W)
<1>1. PICK g : Sums(f, W, g) /\ Total(f, W) = g[W]
  BY TotalIsSum
<1>2. PICK h : Sums(v, W, h) /\ Total(v, W) = h[W]
  BY TotalIsSum
<1>3. W \in SUBSET (W \cap W) /\ Adds(f, W, g) /\ Adds(v, W, h)
  BY <1>1, <1>2 DEF Sums
<1>4. g[W] = h[W]
  BY <1>3, SumsAgree
<1> QED BY <1>1, <1>2, <1>4

\* The total of sums is the sum of the totals.
LEMMA TotalAdds ==
  ASSUME NEW W, IsFiniteSet(W), NEW f, NEW v, NEW u,
         \A x \in W : f[x] \in Int /\ v[x] \in Int /\ u[x] = f[x] + v[x]
  PROVE  Total(u, W) = Total(f, W) + Total(v, W)
<1> DEFINE B == {U \in SUBSET W : Total(u, U) # Total(f, U) + Total(v, U)}
<1> SUFFICES ASSUME B # {} PROVE FALSE
  OBVIOUS
<1>1. PICK U \in B : \A R \in B : Cardinality(U) <= Cardinality(R)
  <2>1. B \in SUBSET SUBSET W
    OBVIOUS
  <2> HIDE DEF B
  <2> QED BY <2>1, LeastSet
<1>2. U \in SUBSET W /\ Total(u, U) # Total(f, U) + Total(v, U)
  OBVIOUS
<1> HIDE DEF B
<1>3. U # {}
  <2>1. Total(u, {}) = 0 /\ Total(f, {}) = 0 /\ Total(v, {}) = 0
    BY TotalEmpty
  <2> QED BY <1>2, <2>1
<1>4. PICK x \in U : TRUE
  BY <1>3
<1>5. IsFiniteSet(U) /\ \A y \in U : f[y] \in Int /\ v[y] \in Int /\ u[y] \in Int
  BY <1>2, FS_Subset
<1>6. U \ {x} \notin B
  <2>1. ~(Cardinality(U) <= Cardinality(U \ {x}))
    BY <1>2, SmallerWithout
  <2> QED BY <1>1, <2>1
<1>7. Total(u, U \ {x}) = Total(f, U \ {x}) + Total(v, U \ {x})
  BY <1>2, <1>6 DEF B
<1>8. /\ Total(f, U) = f[x] + Total(f, U \ {x}) /\ Total(f, U \ {x}) \in Int
      /\ Total(v, U) = v[x] + Total(v, U \ {x}) /\ Total(v, U \ {x}) \in Int
      /\ Total(u, U) = u[x] + Total(u, U \ {x})
  BY <1>5, TotalTake
<1>9. f[x] \in Int /\ v[x] \in Int /\ u[x] = f[x] + v[x]
  BY <1>2
<1> QED BY <1>2, <1>7, <1>8, <1>9

\* Terms that are zero may be left out.
LEMMA TotalSupport ==
  ASSUME NEW W, IsFiniteSet(W), NEW V \in SUBSET W, NEW f,
         \A x \in W : f[x] \in Int, \A x \in W \ V : f[x] = 0
  PROVE  Total(f, W) = Total(f, V)
<1> DEFINE B == {U \in SUBSET W : Total(f, U) # Total(f, U \cap V)}
<1>1. ASSUME B # {} PROVE FALSE
  <2>1. PICK U \in B : \A R \in B : Cardinality(U) <= Cardinality(R)
    <3>1. B \in SUBSET SUBSET W
      OBVIOUS
    <3> HIDE DEF B
    <3> QED BY <1>1, <3>1, LeastSet
  <2>2. U \in SUBSET W /\ Total(f, U) # Total(f, U \cap V)
    OBVIOUS
  <2> HIDE DEF B
  <2>3. PICK x \in U : x \notin V
    <3>1. U # U \cap V
      BY <2>2
    <3> QED BY <3>1
  <2>4. IsFiniteSet(U) /\ \A y \in U : f[y] \in Int
    BY <2>2, FS_Subset
  <2>5. U \ {x} \notin B
    <3>1. ~(Cardinality(U) <= Cardinality(U \ {x}))
      BY <2>2, SmallerWithout
    <3> QED BY <2>1, <3>1
  <2>6. (U \ {x}) \cap V = U \cap V
    BY <2>3
  <2>7. Total(f, U \ {x}) = Total(f, U \cap V)
    <3>1. Total(f, U \ {x}) = Total(f, (U \ {x}) \cap V)
      BY <2>2, <2>5 DEF B
    <3> QED BY <2>6, <3>1
  <2>8. Total(f, U) = f[x] + Total(f, U \ {x}) /\ Total(f, U \ {x}) \in Int
    BY <2>4, TotalTake
  <2>9. f[x] = 0
    BY <2>2, <2>3
  <2>10. Total(f, U) = Total(f, U \ {x})
    BY <2>8, <2>9
  <2> QED BY <2>2, <2>7, <2>10
<1>2. W \cap V = V
  OBVIOUS
<1> QED BY <1>1, <1>2

\* A total of which all terms but one are zero.
LEMMA TotalOfOne ==
  ASSUME NEW W, IsFiniteSet(W), NEW f, NEW x, f[x] \in Int,
         \A y \in W \ {x} : f[y] = 0
  PROVE  Total(f, W) = IF x \in W THEN f[x] ELSE 0
<1> DEFINE V == W \cap {x}
<1>1. V \in SUBSET W /\ (\A y \in W : f[y] \in Int) /\ \A y \in W \ V : f[y] = 0
  OBVIOUS
<1>2. Total(f, W) = Total(f, V)
  <2> HIDE DEF V
  <2> QED BY <1>1, TotalSupport
<1>3. CASE x \in W
  <2>1. V = {x} /\ x \in {x} /\ IsFiniteSet({x}) /\ \A y \in {x} : f[y] \in Int
    BY <1>3, FS_Singleton
  <2>2. Total(f, {x}) = f[x] + Total(f, {x} \ {x})
    BY <2>1, TotalTake
  <2>3. {x} \ {x} = {}
    OBVIOUS
  <2>4. Total(f, {x}) = f[x] + 0
    BY <2>2, <2>3, TotalEmpty
  <2>5. f[x] + 0 = f[x]
    OBVIOUS
  <2> HIDE DEF V
  <2> QED BY <1>2, <1>3, <2>1, <2>4, <2>5
<1>4. CASE x \notin W
  <2>1. V = {}
    BY <1>4
  <2> QED BY <1>2, <1>4, <2>1, TotalEmpty
<1> QED BY <1>3, <1>4

-----------------------------------------------------------------------------
(* The stock of a position *)

LEMMA NumbersFinite ==
  ASSUME NEW b \in Books
  PROVE  IsFiniteSet(Numbers(b))
<1> DEFINE sets == {{q} \X (1..Len(b[q])) : q \in Partitions}
           of == [q \in Partitions |-> {q} \X (1..Len(b[q]))]
<1>1. of \in Surjection(Partitions, sets)
  BY DEF Surjection
<1>2. IsFiniteSet(sets)
  BY <1>1, FiniteAssumption, FS_Surjection
<1>3. ASSUME NEW q \in Partitions PROVE IsFiniteSet({q} \X (1..Len(b[q])))
  <2>1. Len(b[q]) \in Int
    BY LenProperties DEF Books
  <2>2. IsFiniteSet(1..Len(b[q])) /\ IsFiniteSet({q})
    BY <2>1, 1 \in Int, FS_Interval, FS_Singleton
  <2> QED BY <2>2, FS_Product
<1> QED BY <1>2, <1>3, FS_UNION DEF Numbers

LEMMA AtTyped ==
  ASSUME NEW b \in Books, NEW i \in Numbers(b)
  PROVE  At(b, i) \in Line \cup {None}
<1>1. PICK q \in Partitions : i \in {q} \X (1..Len(b[q]))
  BY DEF Numbers
<1>2. b[q] \in Seq(Line \cup {None}) /\ i[1] = q /\ i[2] \in 1..Len(b[q])
  BY <1>1 DEF Books
<1> DEFINE T == Line \cup {None}
<1> HIDE DEF T
<1>3. ASSUME NEW s \in Seq(T), NEW n \in 1..Len(s) PROVE s[n] \in T
  BY <1>3
<1> QED BY <1>2, <1>3 DEF At, T

LEMMA EffectTyped ==
  ASSUME NEW line \in Line, NEW p \in Positions
  PROVE  Effect(line, p) \in Int
<1>1. line.quantity \in Nat
  BY QuantityAssumption DEF Line
<1> QED BY <1>1 DEF Effect

LEMMA MentionsFinite ==
  ASSUME NEW b \in Books, NEW p \in Positions
  PROVE  /\ IsFiniteSet(Mentions(b, p))
         /\ \A i \in Mentions(b, p) : Effect(At(b, i), p) \in Int
<1>1. Mentions(b, p) \in SUBSET Numbers(b)
  BY DEF Mentions
<1>2. IsFiniteSet(Mentions(b, p))
  BY <1>1, NumbersFinite, FS_Subset
<1>3. ASSUME NEW i \in Mentions(b, p) PROVE Effect(At(b, i), p) \in Int
  <2>1. At(b, i) \in Line
    BY AtTyped DEF Mentions
  <2> QED BY <2>1, EffectTyped
<1> QED BY <1>2, <1>3

\* What each movement that names p does to it.
Effects(b, p) == [i \in Mentions(b, p) |-> Effect(At(b, i), p)]

LEMMA StockIsSum ==
  ASSUME NEW b \in Books, NEW p \in Positions
  PROVE  \E g : /\ Sums(Effects(b, p), Mentions(b, p), g)
                /\ Stock(b, p) = g[Mentions(b, p)]
<1> DEFINE S == Mentions(b, p)
           w == Effects(b, p)
           Fold(g) == g = [s \in SUBSET S |->
                             IF s = {} THEN 0
                             ELSE Effect(At(b, Taken(s)), p) + g[s \ {Taken(s)}]]
<1>1. IsFiniteSet(S) /\ \A i \in S : w[i] \in Int
  BY MentionsFinite DEF Effects
<1>2. PICK g : Sums(w, S, g)
  BY <1>1, SumsExist
<1>3. ASSUME NEW h PROVE Fold(h) <=> Adds(w, S, h)
  <2>1. \A s \in SUBSET S : s # {} => w[Taken(s)] = Effect(At(b, Taken(s)), p)
    BY TakenIn DEF Effects
  <2> HIDE DEF w
  <2>2. [s \in SUBSET S |->
           IF s = {} THEN 0 ELSE Effect(At(b, Taken(s)), p) + h[s \ {Taken(s)}]]
        = [s \in SUBSET S |->
             IF s = {} THEN 0 ELSE w[Taken(s)] + h[s \ {Taken(s)}]]
    BY <2>1
  <2> QED BY <2>2 DEF Adds
<1> DEFINE it == CHOOSE h : Fold(h)
<1>4. Stock(b, p) = it[S]
  BY DEF Stock, MapThenSumSet, MapThenFoldSet, Taken
<1>5. Adds(w, S, it)
  BY <1>2, <1>3 DEF Sums
<1> HIDE DEF it, w, S
<1>6. S \in SUBSET (S \cap S) /\ Adds(w, S, g)
  BY <1>2 DEF Sums
<1>7. it[S] = g[S]
  BY <1>1, <1>5, <1>6, SumsAgree
<1> QED BY <1>2, <1>4, <1>7 DEF w, S

LEMMA StockTyped ==
  ASSUME NEW b \in Books, NEW p \in Positions
  PROVE  /\ Stock(b, p) \in Int
         /\ Mentions(b, p) = {} => Stock(b, p) = 0
<1> DEFINE S == Mentions(b, p)
<1>1. PICK g : Sums(Effects(b, p), S, g) /\ Stock(b, p) = g[S]
  BY StockIsSum
<1>2. S \in SUBSET S
  OBVIOUS
<1> HIDE DEF S
<1>3. g[S] \in Int
  BY <1>1, <1>2 DEF Sums
<1>4. Adds(Effects(b, p), S, g)
  BY <1>1 DEF Sums
<1>5. S = {} => g[S] = 0
  BY <1>2, <1>4, SumOf
<1> QED BY <1>1, <1>3, <1>5 DEF S

\* The stock of a position depends on nothing but the movements that name it.
LEMMA StockSame ==
  ASSUME NEW b \in Books, NEW later \in Books, NEW p \in Positions,
         Mentions(later, p) = Mentions(b, p),
         \A i \in Mentions(b, p) : At(later, i) = At(b, i)
  PROVE  Stock(later, p) = Stock(b, p)
<1> DEFINE S == Mentions(b, p)
           w == Effects(b, p)
           v == Effects(later, p)
<1>1. PICK g : Sums(w, S, g) /\ Stock(b, p) = g[S]
  BY StockIsSum
<1>2. PICK h : Sums(v, S, h) /\ Stock(later, p) = h[S]
  BY StockIsSum
<1>3. S \in SUBSET (S \cap S) /\ \A i \in S : w[i] = v[i]
  BY DEF Effects
<1> HIDE DEF S, w, v
<1> QED BY <1>1, <1>2, <1>3, SumsAgree DEF Sums

\* One more movement that names it adds its effect.
LEMMA StockOneMore ==
  ASSUME NEW b \in Books, NEW later \in Books, NEW p \in Positions,
         NEW k, k \notin Mentions(b, p),
         Mentions(later, p) = Mentions(b, p) \cup {k},
         \A i \in Mentions(b, p) : At(later, i) = At(b, i)
  PROVE  Stock(later, p) = Stock(b, p) + Effect(At(later, k), p)
<1> DEFINE S == Mentions(b, p)
           R == Mentions(later, p)
           w == Effects(b, p)
           v == Effects(later, p)
<1>1. PICK g : Sums(w, S, g) /\ Stock(b, p) = g[S]
  BY StockIsSum
<1>2. PICK h : Sums(v, R, h) /\ Stock(later, p) = h[R]
  BY StockIsSum
<1>3. /\ S \in SUBSET (S \cap R) /\ \A i \in S : w[i] = v[i]
      /\ R \in SUBSET R /\ k \in R /\ R \ {k} = S
      /\ v[k] = Effect(At(later, k), p)
  BY DEF Effects
<1> HIDE DEF S, R, w, v
<1>4. g[S] = h[S]
  BY <1>1, <1>2, <1>3, SumsAgree DEF Sums
<1>5. h[R] = v[k] + h[R \ {k}]
  BY <1>2, <1>3, SumTake, SMTT(30)
<1>6. v[k] \in Int /\ h[S] \in Int
  <2>1. S \in SUBSET R
    BY <1>3
  <2> QED BY <1>2, <1>3, <2>1 DEF Sums
<1>7. v[k] + h[S] = h[S] + v[k]
  BY <1>6
<1>8. Stock(later, p) = h[S] + v[k]
  BY <1>2, <1>3, <1>5, <1>7
<1> QED BY <1>1, <1>3, <1>4, <1>8

LEMMA EffectUnnamed ==
  ASSUME NEW line \in Line, NEW p \in Positions, p \notin Named(line)
  PROVE  Effect(line, p) = 0
BY NullAssumption DEF Effect, Named

-----------------------------------------------------------------------------
(* A posting *)

\* The book with one more movement in partition q, after a number that a failed
\* posting left empty or not.
Posted(b, q, line, later) ==
  \E more \in {<<line>>, <<None, line>>} : later = [b EXCEPT ![q] = @ \o more]

LEMMA PostedBook ==
  ASSUME NEW b \in Books, NEW q \in Partitions, NEW line \in Line, NEW later,
         Posted(b, q, line, later)
  PROVE  LET k == <<q, Len(later[q])>>
         IN  /\ later \in Books
             /\ \A i \in Numbers(b) : i \in Numbers(later) /\ At(later, i) = At(b, i)
             /\ k \in Numbers(later) \ Numbers(b)
             /\ At(later, k) = line
             /\ \A i \in Numbers(later) :
                  i \in Numbers(b) \/ i = k \/ At(later, i) = None
<1> DEFINE T == Line \cup {None}
           k == <<q, Len(later[q])>>
<1>1. PICK more \in {<<line>>, <<None, line>>} : later = [b EXCEPT ![q] = @ \o more]
  BY DEF Posted
<1>2. /\ more \in Seq(T) /\ Len(more) \in 1..2 /\ more[Len(more)] = line
      /\ \A n \in 1..(Len(more) - 1) : more[n] = None
  <2>1. CASE more = <<line>>
    BY <2>1
  <2>2. CASE more = <<None, line>>
    BY <2>2
  <2> QED BY <2>1, <2>2
<1>3. b \in [Partitions -> Seq(T)]
  BY DEF Books
<1> HIDE DEF T
<1>4. /\ b[q] \in Seq(T) /\ Len(b[q]) \in Nat /\ Len(more) \in Nat
      /\ b[q] \o more \in Seq(T)
      /\ Len(b[q] \o more) = Len(b[q]) + Len(more)
      /\ \A n \in 1..(Len(b[q]) + Len(more)) :
           (b[q] \o more)[n] = IF n <= Len(b[q]) THEN b[q][n] ELSE more[n - Len(b[q])]
  BY <1>2, <1>3, ConcatProperties, LenProperties
<1>5. /\ later \in [Partitions -> Seq(T)]
      /\ later[q] = b[q] \o more
      /\ \A r \in Partitions \ {q} : later[r] = b[r]
  BY <1>1, <1>3, <1>4
<1> DEFINE m == Len(b[q])
           l == Len(more)
<1>6. /\ Len(later[q]) = m + l
      /\ \A n \in 1..m : later[q][n] = b[q][n]
      /\ \A n \in (m + 1)..(m + l) : later[q][n] = more[n - m]
  BY <1>2, <1>4, <1>5
<1>7. later \in Books
  BY <1>5 DEF Books, T
<1>8. ASSUME NEW i \in Numbers(b)
      PROVE  i \in Numbers(later) /\ At(later, i) = At(b, i)
  <2>1. PICK r \in Partitions : i \in {r} \X (1..Len(b[r]))
    BY DEF Numbers
  <2>2. CASE r = q
    <3>1. i[1] = q /\ i[2] \in 1..m /\ i = <<q, i[2]>>
      BY <2>1, <2>2
    <3>2. i[2] \in 1..(m + l)
      BY <1>2, <1>4, <3>1
    <3> QED BY <1>6, <3>1, <3>2 DEF Numbers, At
  <2>3. CASE r # q
    BY <1>5, <2>1, <2>3 DEF Numbers, At
  <2> QED BY <2>2, <2>3
<1>9. /\ m + l \in 1..(m + l) /\ m + l \notin 1..m
      /\ m + l \in (m + 1)..(m + l) /\ (m + l) - m = l
  <2>1. m \in Nat /\ l \in 1..2
    BY <1>2, <1>4
  <2> HIDE DEF m, l
  <2> QED BY <2>1
<1>10. k \in Numbers(later) \ Numbers(b) /\ At(later, k) = line
  <2>1. k = <<q, m + l>>
    BY <1>6
  <2>2. k \in Numbers(later)
    BY <1>6, <1>9, <2>1 DEF Numbers
  <2>3. k \notin Numbers(b)
    BY <1>9, <2>1 DEF Numbers
  <2>4. later[q][m + l] = line
    BY <1>2, <1>6, <1>9, SMTT(30)
  <2> QED BY <2>1, <2>2, <2>3, <2>4 DEF At
<1>11. ASSUME NEW i \in Numbers(later), i \notin Numbers(b), i # k
       PROVE  At(later, i) = None
  <2>1. PICK r \in Partitions : i \in {r} \X (1..Len(later[r]))
    BY DEF Numbers
  <2>2. i[1] = r /\ i[2] \in 1..Len(later[r]) /\ i = <<r, i[2]>>
    BY <2>1
  <2>3. r = q
    BY <1>5, <1>11, <2>1 DEF Numbers
  <2>4. i[2] \notin 1..m /\ i[2] # m + l
    BY <1>6, <1>11, <2>2, <2>3 DEF Numbers
  <2>5. i[2] \in (m + 1)..(m + l) /\ i[2] - m \in 1..(l - 1)
    BY <1>2, <1>4, <1>6, <2>2, <2>3, <2>4, SMTT(30)
  <2> QED BY <1>2, <1>6, <2>2, <2>3, <2>5, SMTT(30) DEF At
<1> HIDE DEF k
<1>12. QED
  BY <1>7, <1>8, <1>10, <1>11 DEF k

\* A posting moves the stock of every position by what its line says of it.
LEMMA PostedStock ==
  ASSUME NEW b \in Books, NEW q \in Partitions, NEW line \in Line, NEW later,
         Posted(b, q, line, later), NEW p \in Positions
  PROVE  later \in Books /\ Stock(later, p) = Stock(b, p) + Effect(line, p)
<1> DEFINE k == <<q, Len(later[q])>>
<1>1. /\ later \in Books
      /\ \A i \in Numbers(b) : i \in Numbers(later) /\ At(later, i) = At(b, i)
      /\ k \in Numbers(later) \ Numbers(b)
      /\ At(later, k) = line
      /\ \A i \in Numbers(later) :
           i \in Numbers(b) \/ i = k \/ At(later, i) = None
  BY PostedBook
<1> HIDE DEF k
<1>2. /\ k \notin Mentions(b, p)
      /\ \A i \in Mentions(b, p) : At(later, i) = At(b, i)
  BY <1>1 DEF Mentions
<1>3. CASE p \in Named(line)
  <2>1. line # None
    BY NullAssumption
  <2>2. Mentions(later, p) = Mentions(b, p) \cup {k}
    BY <1>1, <1>3, <2>1 DEF Mentions
  <2> QED BY <1>1, <1>2, <2>2, StockOneMore
<1>4. CASE p \notin Named(line)
  <2>1. Mentions(later, p) = Mentions(b, p)
    BY <1>1, <1>4 DEF Mentions
  <2>2. Stock(later, p) = Stock(b, p)
    BY <1>1, <1>2, <2>1, StockSame
  <2>3. Effect(line, p) = 0 /\ Stock(b, p) \in Int
    BY <1>4, EffectUnnamed, StockTyped
  <2> QED BY <1>1, <2>2, <2>3
<1> QED BY <1>3, <1>4

\* What a movement carries into a set of positions, less what it carries out.
Crossing(line, W) ==
  (IF line.destination \in W THEN line.quantity ELSE 0)
    - (IF line.source \in W THEN line.quantity ELSE 0)

\* A posting moves the total stock of a set of positions, such as those of a
\* warehouse, by what crosses its boundary: a transfer within it by nothing.
LEMMA PostedTotal ==
  ASSUME NEW b \in Books, NEW q \in Partitions, NEW line \in Line, NEW later,
         Posted(b, q, line, later), NEW W \in SUBSET Positions, IsFiniteSet(W)
  PROVE  Total(Stocks(later), W) = Total(Stocks(b), W) + Crossing(line, W)
<1> DEFINE n == line.quantity
           d == line.destination
           s == line.source
           in == [p \in Positions \cup {d} |-> IF p = d THEN n ELSE 0]
           out == [p \in Positions \cup {s} |-> IF p = s THEN -n ELSE 0]
           e == [p \in Positions |-> Effect(line, p)]
<1>1. n \in Nat
  BY QuantityAssumption DEF Line
<1>2. ASSUME NEW p \in W
      PROVE  /\ Stocks(b)[p] \in Int /\ e[p] \in Int
             /\ Stocks(later)[p] = Stocks(b)[p] + e[p]
  BY PostedStock, StockTyped, EffectTyped DEF Stocks
<1>3. ASSUME NEW p \in W
      PROVE  in[p] \in Int /\ out[p] \in Int /\ e[p] = in[p] + out[p]
  BY <1>1 DEF Effect
<1>4. /\ in[d] = n /\ \A p \in W \ {d} : in[p] = 0
      /\ out[s] = -n /\ \A p \in W \ {s} : out[p] = 0
  OBVIOUS
<1> HIDE DEF e, in, out, n, d, s
<1>5. Total(Stocks(later), W) = Total(Stocks(b), W) + Total(e, W)
  BY <1>2, TotalAdds
<1>6. Total(e, W) = Total(in, W) + Total(out, W)
  BY <1>3, TotalAdds
<1>7. Total(in, W) = IF d \in W THEN n ELSE 0
  <2>1. in[d] \in Int
    BY <1>1, <1>4
  <2>2. Total(in, W) = IF d \in W THEN in[d] ELSE 0
    BY <1>4, <2>1, TotalOfOne
  <2> QED BY <1>4, <2>2
<1>8. Total(out, W) = IF s \in W THEN -n ELSE 0
  <2>1. out[s] \in Int
    BY <1>1, <1>4
  <2>2. Total(out, W) = IF s \in W THEN out[s] ELSE 0
    BY <1>4, <2>1, TotalOfOne
  <2> QED BY <1>4, <2>2
<1>9. Total(in, W) + Total(out, W) = Crossing(line, W)
  BY <1>1, <1>7, <1>8 DEF Crossing, n, d, s
<1> QED BY <1>5, <1>6, <1>9
=============================================================================
