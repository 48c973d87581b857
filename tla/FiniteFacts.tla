------------------------------ MODULE FiniteFacts ------------------------------
(***************************************************************************)
(* What the theorems need of finite sets: the greatest of some ids, and    *)
(* what a sum is worth.  SumFunctionOnSet takes the terms in the order     *)
(* CHOOSE hands them out; the lemmas say that the order does not matter.   *)
(* An induction over finite sets is made by the smallest set that would    *)
(* break the claim, as the inductions of the library take an operator.     *)
(***************************************************************************)
EXTENDS Integers, Functions, FiniteSets, FiniteSetTheorems, WellFoundedInduction, TLAPS

\* Of some subsets of a finite set, one has none of the others inside.
LEMMA SmallestSubset ==
  ASSUME NEW D, IsFiniteSet(D), NEW T \in SUBSET (SUBSET D), T # {}
  PROVE  \E X \in T : \A Y \in SUBSET X : Y # X => Y \notin T
<1>1. FiniteSubsetsOf(D) = SUBSET D
  BY FS_FiniteSubsetsOfFinite
<1>2. IsWellFoundedOn(StrictSubsetOrdering(D), FiniteSubsetsOf(D))
  BY FS_StrictSubsetOrderingWellFounded
<1> DEFINE R == StrictSubsetOrdering(D)
           S == SUBSET D
<1>3. IsWellFoundedOn(R, S) /\ T \subseteq S
  BY <1>1, <1>2
<1> HIDE DEF R, S
<1>4. PICK X \in T : \A Y \in T : ~(<<Y, X>> \in R)
  BY <1>3, WFMin
<1> QED
  BY <1>4 DEF R, StrictSubsetOrdering

\* Finitely many ids have a greatest: the one with the fewest above it.
LEMMA Greatest ==
  ASSUME NEW D, IsFiniteSet(D), NEW rank \in [D -> Nat], NEW N \in SUBSET D, N # {}
  PROVE  \E d \in N : \A e \in N : rank[e] <= rank[d]
<1> DEFINE Above(n) == {m \in N : rank[m] > rank[n]}
           T == {Above(n) : n \in N}
<1>1. \A n \in N : Above(n) \in SUBSET D /\ Above(n) \in T /\ rank[n] \in Nat
  OBVIOUS
<1>2. T \in SUBSET (SUBSET D) /\ T # {}
  BY <1>1
<1>3. PICK X \in T : \A Y \in SUBSET X : Y # X => Y \notin T
  <2> HIDE DEF T
  <2> QED
    BY <1>2, SmallestSubset
<1>4. PICK d \in N : X = Above(d)
  BY <1>3
<1>5. ASSUME NEW e \in N, ~(rank[e] <= rank[d])
      PROVE  FALSE
  <2>1. rank[d] \in Nat /\ rank[e] \in Nat /\ rank[e] > rank[d]
    BY <1>1, <1>5
  <2>2. Above(e) \subseteq Above(d)
    <3> SUFFICES ASSUME NEW m \in N, rank[m] > rank[e] PROVE rank[m] > rank[d]
      OBVIOUS
    <3> QED
      BY <1>1, <2>1
  <2>3. e \in Above(d) /\ e \notin Above(e)
    BY <2>1
  <2>4. Above(e) \in T
    BY <1>1
  <2> HIDE DEF Above, T
  <2> QED
    BY <1>3, <1>4, <2>2, <2>3, <2>4
<1> QED
  BY <1>5

-----------------------------------------------------------------------------
(* The recursion has a solution, and only one                               *)

First(s) == CHOOSE x \in s : TRUE

Sums(f, g, S) ==
  g = [s \in SUBSET S |-> IF s = {} THEN 0 ELSE f[First(s)] + g[s \ {First(s)}]]

LEMMA SumDef ==
  ASSUME NEW f, NEW S
  PROVE  SumFunctionOnSet(f, S) = (CHOOSE g : Sums(f, g, S))[S]
BY DEF SumFunctionOnSet, FoldFunctionOnSet, MapThenFoldSet, First, Sums

LEMMA FirstIn ==
  ASSUME NEW s, s # {}
  PROVE  First(s) \in s
BY DEF First

LEMMA SumStep ==
  ASSUME NEW f, NEW g, NEW S, Sums(f, g, S), NEW s \in SUBSET S
  PROVE  g[s] = IF s = {} THEN 0 ELSE f[First(s)] + g[s \ {First(s)}]
BY DEF Sums

LEMMA SumUnique ==
  ASSUME NEW D, IsFiniteSet(D), NEW f, NEW g, NEW h, NEW V \in SUBSET D, NEW W \in SUBSET D,
         Sums(f, g, V), Sums(f, h, W), NEW U \in SUBSET V, U \in SUBSET W
  PROVE  g[U] = h[U]
<1> DEFINE T == {X \in SUBSET U : g[X] # h[X]}
<1>1. SUFFICES ASSUME T # {} PROVE FALSE
  OBVIOUS
<1>2. PICK X \in T : \A Y \in SUBSET X : Y # X => Y \notin T
  <2> HIDE DEF T
  <2>1. T \in SUBSET (SUBSET D)
    BY DEF T
  <2> QED
    BY <1>1, <2>1, SmallestSubset
<1>3. X \in SUBSET V /\ X \in SUBSET W /\ g[X] # h[X]
  OBVIOUS
<1>4. X # {}
  BY <1>3, SumStep
<1>5. First(X) \in X
  BY <1>4, FirstIn
<1>6. X \ {First(X)} \in SUBSET X /\ X \ {First(X)} # X
  BY <1>5
<1>7. g[X \ {First(X)}] = h[X \ {First(X)}]
  BY <1>2, <1>6
<1> QED
  BY <1>3, <1>4, <1>7, SumStep

LEMMA SumExists ==
  ASSUME NEW D, IsFiniteSet(D), NEW f \in [D -> Int]
  PROVE  \A V \in SUBSET D : \E g \in [SUBSET V -> Int] : Sums(f, g, V)
<1> DEFINE Solves(g, V) == g \in [SUBSET V -> Int] /\ Sums(f, g, V)
           T == {V \in SUBSET D : ~\E g : Solves(g, V)}
<1>1. SUFFICES ASSUME T # {} PROVE FALSE
  OBVIOUS
<1>2. PICK V \in T : \A Y \in SUBSET V : Y # V => Y \notin T
  <2> HIDE DEF T
  <2>1. T \in SUBSET (SUBSET D)
    BY DEF T
  <2> QED
    BY <1>1, <2>1, SmallestSubset
<1> DEFINE h(W) == CHOOSE g : Solves(g, W)
           x == First(V)
<1>3. ASSUME NEW W \in SUBSET V, W # V
      PROVE  Solves(h(W), W)
  <2>1. \E g : Solves(g, W)
    BY <1>2, <1>3
  <2> HIDE DEF Solves
  <2> QED
    BY <2>1
<1>4. V # {}
  <2> SUFFICES ASSUME V = {} PROVE FALSE
    OBVIOUS
  <2>1. Solves([s \in SUBSET V |-> 0], V)
    BY DEF Sums
  <2> HIDE DEF Solves
  <2> QED
    BY <2>1
<1>5. x \in V /\ f[x] \in Int /\ V \ {x} \in SUBSET V /\ V \ {x} # V
  BY <1>4, FirstIn
<1> HIDE DEF h, x
<1> DEFINE G == [s \in SUBSET V |-> IF s = V THEN f[x] + h(V \ {x})[V \ {x}] ELSE h(s)[s]]
<1>6. \A W \in SUBSET V : W # V => h(W)[W] \in Int /\ G[W] = h(W)[W]
  BY <1>3
<1>7. G \in [SUBSET V -> Int]
  <2>1. h(V \ {x})[V \ {x}] \in Int
    BY <1>5, <1>6
  <2>2. f[x] + h(V \ {x})[V \ {x}] \in Int
    BY <1>5, <2>1
  <2>3. \A s \in SUBSET V : (IF s = V THEN f[x] + h(V \ {x})[V \ {x}] ELSE h(s)[s]) \in Int
    BY <1>6, <2>2
  <2> QED
    BY <2>3
<1>8. ASSUME NEW s \in SUBSET V
      PROVE  G[s] = IF s = {} THEN 0 ELSE f[First(s)] + G[s \ {First(s)}]
  <2>1. CASE s = V
    <3>1. G[s] = f[x] + h(V \ {x})[V \ {x}]
      BY <2>1
    <3>2. G[V \ {x}] = h(V \ {x})[V \ {x}]
      BY <1>5, <1>6
    <3> QED
      BY <1>4, <2>1, <3>1, <3>2 DEF x
  <2>2. CASE s # V /\ s = {}
    <3>1. Sums(f, h(s), s) /\ G[s] = h(s)[s]
      BY <1>3, <1>6, <2>2
    <3> QED
      BY <2>2, <3>1, SumStep
  <2>3. CASE s # V /\ s # {}
    <3> DEFINE r == s \ {First(s)}
    <3>1. First(s) \in s
      BY <2>3, FirstIn
    <3>2. r \in SUBSET s /\ r \in SUBSET V /\ r # V /\ r \in SUBSET r
      BY <3>1
    <3>3. Sums(f, h(s), s) /\ Sums(f, h(r), r)
      BY <1>3, <2>3, <3>2
    <3>4. h(s)[s] = f[First(s)] + h(s)[r]
      BY <2>3, <3>3, SumStep
    <3>5. s \in SUBSET D /\ r \in SUBSET D
      OBVIOUS
    <3> HIDE DEF r
    <3>6. h(s)[r] = h(r)[r]
      BY <3>2, <3>3, <3>5, SumUnique
    <3>7. G[s] = h(s)[s] /\ G[r] = h(r)[r]
      BY <1>6, <2>3, <3>2
    <3> QED
      BY <2>3, <3>4, <3>6, <3>7 DEF r
  <2> QED
    BY <2>1, <2>2, <2>3
<1>9. Sums(f, G, V)
  <2>1. G = [s \in SUBSET V |-> G[s]]
    BY <1>7
  <2>2. [s \in SUBSET V |-> G[s]] = [s \in SUBSET V |-> IF s = {} THEN 0 ELSE f[First(s)] + G[s \ {First(s)}]]
    BY <1>8
  <2> HIDE DEF G
  <2> QED
    BY <2>1, <2>2 DEF Sums
<1>10. Solves(G, V)
  BY <1>7, <1>9
<1> HIDE DEF Solves, G
<1> QED
  BY <1>2, <1>10
-----------------------------------------------------------------------------
(* Whichever term is taken out                                              *)

LEMMA SumRecursion ==
  ASSUME NEW D, IsFiniteSet(D), NEW f \in [D -> Int], NEW S \in SUBSET D
  PROVE  /\ SumFunctionOnSet(f, S) \in Int
         /\ S = {} => SumFunctionOnSet(f, S) = 0
         /\ S # {} => SumFunctionOnSet(f, S) = f[First(S)] + SumFunctionOnSet(f, S \ {First(S)})
<1> DEFINE g(V) == CHOOSE p : Sums(f, p, V)
<1>1. ASSUME NEW V \in SUBSET D
      PROVE  Sums(f, g(V), V) /\ g(V) \in [SUBSET V -> Int] /\ SumFunctionOnSet(f, V) = g(V)[V]
  <2>1. PICK p \in [SUBSET V -> Int] : Sums(f, p, V)
    BY SumExists
  <2>2. Sums(f, g(V), V)
    BY <2>1
  <2>3. SumFunctionOnSet(f, V) = g(V)[V]
    BY SumDef
  <2> HIDE DEF g
  <2>4. \A U \in SUBSET V : g(V)[U] = p[U]
    BY <2>1, <2>2, SumUnique
  <2>5. DOMAIN g(V) = SUBSET V /\ g(V) = [U \in SUBSET V |-> g(V)[U]]
    BY <2>2 DEF Sums
  <2> QED
    BY <2>1, <2>2, <2>3, <2>4, <2>5
<1> HIDE DEF g
<1>2. g(S)[S] \in Int /\ SumFunctionOnSet(f, S) = g(S)[S]
  BY <1>1
<1>3. S = {} => g(S)[S] = 0
  BY <1>1, SumStep
<1>4. ASSUME S # {}
      PROVE  g(S)[S] = f[First(S)] + SumFunctionOnSet(f, S \ {First(S)})
  <2> DEFINE r == S \ {First(S)}
  <2>1. First(S) \in S
    BY <1>4, FirstIn
  <2>2. r \in SUBSET S /\ r \in SUBSET D /\ r \in SUBSET r
    BY <2>1
  <2>3. Sums(f, g(S), S) /\ S \in SUBSET S
    BY <1>1
  <2>4. g(S)[S] = f[First(S)] + g(S)[r]
    BY <1>4, <2>3, SumStep
  <2> HIDE DEF r
  <2>5. Sums(f, g(r), r) /\ SumFunctionOnSet(f, r) = g(r)[r]
    BY <1>1, <2>2
  <2>6. g(S)[r] = g(r)[r]
    BY <2>2, <2>3, <2>5, SumUnique
  <2> QED
    BY <2>4, <2>5, <2>6 DEF r
<1> QED
  BY <1>2, <1>3, <1>4

\* The sum is a term and the sum of the others, whichever term it is.
LEMMA SumSplit ==
  ASSUME NEW D, IsFiniteSet(D), NEW f \in [D -> Int], NEW S \in SUBSET D, NEW x \in S
  PROVE  SumFunctionOnSet(f, S) = f[x] + SumFunctionOnSet(f, S \ {x})
<1> DEFINE F(U) == SumFunctionOnSet(f, U)
           T == {U \in SUBSET D : \E y \in U : F(U) # f[y] + F(U \ {y})}
<1>1. SUFFICES ASSUME T # {} PROVE FALSE
  OBVIOUS
<1>2. PICK U \in T : \A Y \in SUBSET U : Y # U => Y \notin T
  <2> HIDE DEF T
  <2>1. T \in SUBSET (SUBSET D)
    BY DEF T
  <2> QED
    BY <1>1, <2>1, SmallestSubset
<1> HIDE DEF F
<1>3. PICK y \in U : F(U) # f[y] + F(U \ {y})
  OBVIOUS
<1> DEFINE z == First(U)
<1>4. z \in U
  BY FirstIn
<1> HIDE DEF z
<1>5. /\ F(U) = f[z] + F(U \ {z}) /\ f[y] \in Int /\ f[z] \in Int
      /\ F(U \ {y}) \in Int /\ F(U \ {z}) \in Int /\ F((U \ {y}) \ {z}) \in Int
  <2>1. F(U) = f[z] + F(U \ {z})
    BY <1>4, SumRecursion DEF F, z
  <2>2. \A V \in SUBSET D : F(V) \in Int
    BY SumRecursion DEF F
  <2>3. f[y] \in Int /\ f[z] \in Int
    BY <1>4
  <2> QED
    BY <2>1, <2>2, <2>3
<1>6. y # z
  BY <1>3, <1>5
<1>7. ASSUME NEW V \in SUBSET U, V # U, NEW v \in V
      PROVE  F(V) = f[v] + F(V \ {v})
  BY <1>2, <1>7
<1>8. F(U \ {z}) = f[y] + F((U \ {z}) \ {y})
  BY <1>4, <1>6, <1>7
<1>9. F(U \ {y}) = f[z] + F((U \ {y}) \ {z})
  BY <1>4, <1>6, <1>7
<1>10. (U \ {z}) \ {y} = (U \ {y}) \ {z}
  OBVIOUS
<1>11. F((U \ {z}) \ {y}) = F((U \ {y}) \ {z})
  BY <1>10
<1> DEFINE a == F((U \ {y}) \ {z})
<1>12. /\ a \in Int /\ f[y] \in Int /\ f[z] \in Int
       /\ F(U) = f[z] + F(U \ {z}) /\ F(U \ {z}) = f[y] + a /\ F(U \ {y}) = f[z] + a
  BY <1>5, <1>8, <1>9, <1>11
<1> HIDE DEF a
<1> QED
  BY <1>3, <1>12

-----------------------------------------------------------------------------
(* Two sums                                                                 *)

\* Terms that are no larger sum to no more, and the same terms to the same.
LEMMA SumOrdered ==
  ASSUME NEW D, IsFiniteSet(D), NEW f \in [D -> Int], NEW g \in [D -> Int], NEW S \in SUBSET D,
         \A x \in S : f[x] <= g[x]
  PROVE  SumFunctionOnSet(f, S) <= SumFunctionOnSet(g, S)
<1> DEFINE F(U) == SumFunctionOnSet(f, U)
           G(U) == SumFunctionOnSet(g, U)
           T == {U \in SUBSET S : ~(F(U) <= G(U))}
<1>1. SUFFICES ASSUME T # {} PROVE FALSE
  OBVIOUS
<1>2. PICK U \in T : \A Y \in SUBSET U : Y # U => Y \notin T
  <2> HIDE DEF T
  <2>1. T \in SUBSET (SUBSET D)
    BY DEF T
  <2> QED
    BY <1>1, <2>1, SmallestSubset
<1>3. \A V \in SUBSET D : F(V) \in Int /\ G(V) \in Int /\ (V = {} => F(V) = 0 /\ G(V) = 0)
  BY SumRecursion
<1>4. ASSUME NEW V \in SUBSET D, NEW x \in V
      PROVE  F(V) = f[x] + F(V \ {x}) /\ G(V) = g[x] + G(V \ {x})
  BY SumSplit
<1> HIDE DEF F, G
<1>5. U \in SUBSET D /\ ~(F(U) <= G(U))
  OBVIOUS
<1>6. PICK x \in U : TRUE
  BY <1>3, <1>5
<1>7. F(U \ {x}) <= G(U \ {x})
  BY <1>2, <1>6
<1>8. f[x] <= g[x] /\ f[x] \in Int /\ g[x] \in Int
  BY <1>6
<1>9. F(U \ {x}) \in Int /\ G(U \ {x}) \in Int /\ F(U) = f[x] + F(U \ {x}) /\ G(U) = g[x] + G(U \ {x})
  BY <1>3, <1>4, <1>5, <1>6
<1> QED
  BY <1>5, <1>7, <1>8, <1>9

LEMMA SumSame ==
  ASSUME NEW D, IsFiniteSet(D), NEW f \in [D -> Int], NEW g \in [D -> Int], NEW S \in SUBSET D,
         \A x \in S : f[x] = g[x]
  PROVE  SumFunctionOnSet(f, S) = SumFunctionOnSet(g, S)
<1>1. \A x \in S : f[x] <= g[x] /\ g[x] <= f[x]
  OBVIOUS
<1>2. SumFunctionOnSet(f, S) <= SumFunctionOnSet(g, S) /\ SumFunctionOnSet(g, S) <= SumFunctionOnSet(f, S)
  BY <1>1, SumOrdered
<1>3. SumFunctionOnSet(f, S) \in Int /\ SumFunctionOnSet(g, S) \in Int
  BY SumRecursion
<1> QED
  BY <1>2, <1>3

\* What changes one term changes the sum by as much.
LEMMA SumChanged ==
  ASSUME NEW D, IsFiniteSet(D), NEW f \in [D -> Int], NEW g \in [D -> Int], NEW S \in SUBSET D,
         NEW x \in S, \A y \in S \ {x} : g[y] = f[y]
  PROVE  SumFunctionOnSet(g, S) = SumFunctionOnSet(f, S) + (g[x] - f[x])
<1>1. /\ SumFunctionOnSet(f, S) = f[x] + SumFunctionOnSet(f, S \ {x})
      /\ SumFunctionOnSet(g, S) = g[x] + SumFunctionOnSet(g, S \ {x})
  BY SumSplit
<1>2. SumFunctionOnSet(g, S \ {x}) = SumFunctionOnSet(f, S \ {x})
  <2>1. S \ {x} \in SUBSET D
    OBVIOUS
  <2> QED
    BY <2>1, SumSame
<1>3. f[x] \in Int /\ g[x] \in Int /\ SumFunctionOnSet(f, S \ {x}) \in Int
  BY SumRecursion
<1> QED
  BY <1>1, <1>2, <1>3

\* Leaving out terms that are not negative makes the sum no larger.
LEMMA SumOfFewer ==
  ASSUME NEW D, IsFiniteSet(D), NEW f \in [D -> Int], NEW S \in SUBSET D, NEW U \in SUBSET S,
         \A x \in S \ U : f[x] >= 0
  PROVE  SumFunctionOnSet(f, U) <= SumFunctionOnSet(f, S)
<1> DEFINE F(V) == SumFunctionOnSet(f, V)
           T == {V \in SUBSET S : U \subseteq V /\ ~(F(U) <= F(V))}
<1>1. SUFFICES ASSUME T # {} PROVE FALSE
  OBVIOUS
<1>2. PICK V \in T : \A Y \in SUBSET V : Y # V => Y \notin T
  <2> HIDE DEF T
  <2>1. T \in SUBSET (SUBSET D)
    BY DEF T
  <2> QED
    BY <1>1, <2>1, SmallestSubset
<1>3. \A W \in SUBSET D : F(W) \in Int
  BY SumRecursion
<1>4. ASSUME NEW W \in SUBSET D, NEW x \in W
      PROVE  F(W) = f[x] + F(W \ {x})
  BY SumSplit
<1> HIDE DEF F
<1>5. V \in SUBSET D /\ U \in SUBSET D /\ U \subseteq V /\ ~(F(U) <= F(V))
  OBVIOUS
<1>6. U # V
  BY <1>3, <1>5
<1>7. PICK x \in V : x \notin U
  BY <1>5, <1>6
<1>8. V \ {x} \in SUBSET V /\ V \ {x} # V /\ U \subseteq V \ {x} /\ V \ {x} \in SUBSET S /\ V \ {x} \in SUBSET D
  BY <1>5, <1>7
<1>9. F(U) <= F(V \ {x})
  BY <1>2, <1>8
<1>10. f[x] \in Int /\ f[x] >= 0 /\ F(V) = f[x] + F(V \ {x}) /\ F(V \ {x}) \in Int /\ F(U) \in Int
  BY <1>3, <1>4, <1>5, <1>7, <1>8
<1> QED
  BY <1>5, <1>9, <1>10

LEMMA SumOfNothing ==
  ASSUME NEW D, IsFiniteSet(D), NEW S \in SUBSET D
  PROVE  SumFunctionOnSet([x \in D |-> 0], S) = 0
<1> DEFINE f == [x \in D |-> 0]
           F(U) == SumFunctionOnSet(f, U)
           T == {U \in SUBSET S : F(U) # 0}
<1>1. f \in [D -> Int] /\ \A x \in D : f[x] = 0
  OBVIOUS
<1>2. SUFFICES ASSUME T # {} PROVE FALSE
  OBVIOUS
<1>3. PICK U \in T : \A Y \in SUBSET U : Y # U => Y \notin T
  <2> HIDE DEF T
  <2>1. T \in SUBSET (SUBSET D)
    BY DEF T
  <2> QED
    BY <1>2, <2>1, SmallestSubset
<1> HIDE DEF f
<1>4. F({}) = 0
  BY <1>1, SumRecursion
<1>5. ASSUME NEW x \in U
      PROVE  F(U) = f[x] + F(U \ {x})
  BY <1>1, SumSplit
<1> HIDE DEF F
<1>6. PICK x \in U : TRUE
  BY <1>4
<1>7. F(U \ {x}) = 0
  BY <1>3, <1>6
<1>8. f[x] = 0
  BY <1>1, <1>6
<1> QED
  BY <1>5, <1>6, <1>7, <1>8

================================================================================
