------------------------------ MODULE RankingProofs ------------------------------
(***************************************************************************)
(* What the places and the sums of a search rest on: minimal elements of    *)
(* finite sets, the places of a strict total order, and sums over finite    *)
(* sets.  No state, and nothing of the program.  The induction theorems of  *)
(* the library take an operator; these proofs take a minimal counterexample *)
(* instead, in a family of sets or a set of numbers.                        *)
(***************************************************************************)
EXTENDS Integers, FiniteSets, Functions, FiniteSetTheorems, WellFoundedInduction, TLAPS

-----------------------------------------------------------------------------
\* Minimal elements.

(* A family of subsets of a finite set has a member of which no other one is a part.         *)
LEMMA FiniteMinimal ==
    ASSUME NEW S, IsFiniteSet(S), NEW F, F \subseteq SUBSET S, F # {}
    PROVE  \E T \in F : \A U \in F : U \subseteq T => U = T
<1>1. IsWellFoundedOn(StrictSubsetOrdering(S), SUBSET S)
  BY FS_StrictSubsetOrderingWellFounded, FS_FiniteSubsetsOfFinite
<1>2. PICK T \in F : \A U \in F : ~(<<U, T>> \in StrictSubsetOrdering(S))
  <2> HIDE DEF StrictSubsetOrdering
  <2> QED BY <1>1, WFMin
<1>3. ASSUME NEW U \in F, U \subseteq T PROVE U = T
  BY <1>2, <1>3 DEF StrictSubsetOrdering
<1> QED BY <1>3

(* Of a set whose elements have numbers, one has the least.                                  *)
LEMMA LeastNumbered ==
    ASSUME NEW S, S # {}, NEW number, \A c \in S : number[c] \in Nat
    PROVE  \E c \in S : \A d \in S : number[c] <= number[d]
<1> DEFINE T == {number[c] : c \in S}
<1>1. T \subseteq Nat /\ T # {}  OBVIOUS
<1>2. PICK n \in T : \A m \in T : ~(<<m, n>> \in OpToRel(<, Nat))
  <2> HIDE DEF T
  <2> QED BY <1>1, NatLessThanWellFounded, WFMin
<1>3. \A m \in T : ~(m < n)  BY <1>1, <1>2 DEF OpToRel
<1>4. PICK c \in S : n = number[c]  BY <1>2
<1>5. ASSUME NEW d \in S PROVE number[c] <= number[d]
  <2>1. number[d] \in T /\ number[d] \in Nat /\ number[c] \in Nat  OBVIOUS
  <2>2. ~(number[d] < number[c])  BY <1>3, <1>4, <2>1
  <2> QED BY <2>1, <2>2
<1> QED BY <1>5

-----------------------------------------------------------------------------
\* Images.

\* The image of a finite set under a function is finite.
LEMMA FiniteImage ==
    ASSUME NEW S, IsFiniteSet(S), NEW f
    PROVE  IsFiniteSet({f[c] : c \in S})
<1> DEFINE T == {f[c] : c \in S}
           g == [c \in S |-> f[c]]
<1>1. g \in [S -> T] /\ \A t \in T : \E c \in S : g[c] = t  OBVIOUS
<1> HIDE DEF T, g
<1>2. g \in Surjection(S, T)  BY <1>1 DEF Surjection
<1>3. IsFiniteSet(T)  BY <1>2, FS_Surjection
<1> QED BY <1>3 DEF T

\* ... and as large, if the function keeps its elements apart.
LEMMA CountedImage ==
    ASSUME NEW S, IsFiniteSet(S), NEW f, \A c, d \in S : f[c] = f[d] => c = d
    PROVE  Cardinality({f[c] : c \in S}) = Cardinality(S)
<1> DEFINE T == {f[c] : c \in S}
           g == [c \in S |-> f[c]]
<1>1. g \in [S -> T] /\ \A t \in T : \E c \in S : g[c] = t  OBVIOUS
<1>2. \A c, d \in S : g[c] = g[d] => c = d  OBVIOUS
<1> HIDE DEF T, g
<1>3. g \in Injection(S, T)  BY <1>1, <1>2 DEF Injection, IsInjective
<1>4. g \in Surjection(S, T)  BY <1>1 DEF Surjection
<1>5. ExistsBijection(S, T)  BY <1>3, <1>4 DEF Bijection, ExistsBijection
<1>6. Cardinality(T) = Cardinality(S)  BY <1>5, FS_Bijection
<1> QED BY <1>6 DEF T

-----------------------------------------------------------------------------
\* Places.

\* R orders S strictly and totally.
Orders(R, S) ==
    /\ \A c \in S : <<c, c>> \notin R
    /\ \A c, d \in S : c # d => <<c, d>> \in R \/ <<d, c>> \in R
    /\ \A c, d, e \in S : <<c, d>> \in R /\ <<d, e>> \in R => <<c, e>> \in R

Ahead(c, R, S) == {d \in S : <<d, c>> \in R}

(* Who is ahead has the smaller place.                                                       *)
LEMMA PlaceFollowsOrder ==
    ASSUME NEW S, IsFiniteSet(S), NEW R, Orders(R, S), NEW c \in S, NEW d \in S
    PROVE  /\ Cardinality(Ahead(c, R, S)) \in 0..(Cardinality(S) - 1)
           /\ <<c, d>> \in R <=> Cardinality(Ahead(c, R, S)) < Cardinality(Ahead(d, R, S))
           /\ Cardinality(Ahead(c, R, S)) = Cardinality(Ahead(d, R, S)) => c = d
<1>1. ASSUME NEW x \in S
      PROVE  /\ IsFiniteSet(Ahead(x, R, S))
             /\ Cardinality(Ahead(x, R, S)) \in 0..(Cardinality(S) - 1)
  <2>1. Ahead(x, R, S) \subseteq S /\ x \notin Ahead(x, R, S)  BY DEF Ahead, Orders
  <2>2. /\ IsFiniteSet(Ahead(x, R, S))
        /\ Cardinality(Ahead(x, R, S)) <= Cardinality(S)
        /\ Cardinality(S) = Cardinality(Ahead(x, R, S)) => S = Ahead(x, R, S)
    BY <2>1, FS_Subset
  <2>3. Cardinality(S) \in Nat /\ Cardinality(Ahead(x, R, S)) \in Nat  BY <2>2, FS_CardinalityType
  <2>4. Cardinality(Ahead(x, R, S)) # Cardinality(S)  BY <2>1, <2>2
  <2> QED BY <2>2, <2>3, <2>4
<1>2. ASSUME NEW x \in S, NEW y \in S, <<x, y>> \in R
      PROVE  Cardinality(Ahead(x, R, S)) < Cardinality(Ahead(y, R, S))
  <2>1. Ahead(x, R, S) \subseteq Ahead(y, R, S)  BY <1>2 DEF Ahead, Orders
  <2>2. x \in Ahead(y, R, S) /\ x \notin Ahead(x, R, S)  BY <1>2 DEF Ahead, Orders
  <2>3. /\ Cardinality(Ahead(x, R, S)) <= Cardinality(Ahead(y, R, S))
        /\ Cardinality(Ahead(y, R, S)) = Cardinality(Ahead(x, R, S)) => Ahead(y, R, S) = Ahead(x, R, S)
    BY <1>1, <2>1, FS_Subset
  <2>4. Cardinality(Ahead(y, R, S)) # Cardinality(Ahead(x, R, S))  BY <2>2, <2>3
  <2>5. Cardinality(Ahead(x, R, S)) \in Int /\ Cardinality(Ahead(y, R, S)) \in Int  BY <1>1
  <2> QED BY <2>3, <2>4, <2>5
<1>3. c # d => <<c, d>> \in R \/ <<d, c>> \in R  BY DEF Orders
<1>4. Cardinality(Ahead(c, R, S)) \in Int /\ Cardinality(Ahead(d, R, S)) \in Int  BY <1>1
<1>5. <<c, d>> \in R => Cardinality(Ahead(c, R, S)) < Cardinality(Ahead(d, R, S))  BY <1>2
<1>6. <<d, c>> \in R => Cardinality(Ahead(d, R, S)) < Cardinality(Ahead(c, R, S))  BY <1>2
<1>7. c = d => Cardinality(Ahead(c, R, S)) = Cardinality(Ahead(d, R, S))  OBVIOUS
<1> QED BY <1>1, <1>3, <1>4, <1>5, <1>6, <1>7

(* The places are 1 .. |S|, each taken once.                                                 *)
LEMMA PlacesFilled ==
    ASSUME NEW S, IsFiniteSet(S), NEW R, Orders(R, S)
    PROVE  \A n \in 1..Cardinality(S) : \E c \in S : 1 + Cardinality(Ahead(c, R, S)) = n
<1> DEFINE N == Cardinality(S)
           f == [c \in S |-> 1 + Cardinality(Ahead(c, R, S))]
<1>1. N \in Nat  BY FS_CardinalityType
<1>2. IsFiniteSet(1..N) /\ Cardinality(1..N) = N
  <2>1. IsFiniteSet(1..N) /\ Cardinality(1..N) = IF 1 > N THEN 0 ELSE N - 1 + 1
    BY <1>1, FS_Interval
  <2> QED BY <1>1, <2>1
<1>3. \A c \in S : Cardinality(Ahead(c, R, S)) \in 0..(N - 1)
  BY PlaceFollowsOrder
<1>4. \A c, d \in S : Cardinality(Ahead(c, R, S)) = Cardinality(Ahead(d, R, S)) => c = d
  BY PlaceFollowsOrder
<1>5. f \in [S -> 1..N]
  <2>1. ASSUME NEW c \in S PROVE f[c] \in 1..N
    BY <1>1, <1>3
  <2> QED BY <2>1
<1>6. \A c, d \in S : f[c] = f[d] => c = d
  BY <1>3, <1>4
<1> HIDE DEF f
<1>7. f \in Injection(S, 1..N)  BY <1>5, <1>6 DEF Injection, IsInjective
<1>8. f \in Surjection(S, 1..N)  BY <1>2, <1>7, FS_Injection
<1>9. \A n \in 1..N : \E c \in S : f[c] = n  BY <1>8 DEF Surjection
<1> QED BY <1>9 DEF f

\* The first elements of S under R, limit of them if there are that many.
First(limit, R, S) == {c \in S : 1 + Cardinality(Ahead(c, R, S)) <= limit}

(* How many they are, and which places they take.                                            *)
LEMMA FirstCounted ==
    ASSUME NEW S, IsFiniteSet(S), NEW R, Orders(R, S), NEW limit \in Nat
    PROVE  LET m == IF Cardinality(S) <= limit THEN Cardinality(S) ELSE limit
               F == First(limit, R, S)
           IN /\ IsFiniteSet(F) /\ Cardinality(F) = m
              /\ {1 + Cardinality(Ahead(c, R, S)) : c \in F} = 1..m
              /\ Cardinality(S) <= limit => F = S
<1> DEFINE m == IF Cardinality(S) <= limit THEN Cardinality(S) ELSE limit
           F == First(limit, R, S)
           f == [c \in F |-> 1 + Cardinality(Ahead(c, R, S))]
<1>1. Cardinality(S) \in Nat /\ m \in Nat  BY FS_CardinalityType
<1>2. F \subseteq S  BY DEF First
<1>3. IsFiniteSet(F)  BY <1>2, FS_Subset
<1>4. \A c \in S : Cardinality(Ahead(c, R, S)) \in 0..(Cardinality(S) - 1)  BY PlaceFollowsOrder
<1>5. \A c, d \in S : Cardinality(Ahead(c, R, S)) = Cardinality(Ahead(d, R, S)) => c = d
  BY PlaceFollowsOrder
<1>6. ASSUME NEW c \in F PROVE f[c] \in 1..m
  <2>1. 1 + Cardinality(Ahead(c, R, S)) <= limit /\ Cardinality(Ahead(c, R, S)) \in 0..(Cardinality(S) - 1)
    BY <1>2, <1>4 DEF First
  <2> QED BY <1>1, <2>1
<1>7. ASSUME NEW n \in 1..m PROVE \E c \in F : f[c] = n
  <2>1. n \in 1..Cardinality(S) /\ n <= limit  BY <1>1
  <2>2. PICK c \in S : 1 + Cardinality(Ahead(c, R, S)) = n  BY <2>1, PlacesFilled
  <2>3. c \in F  BY <2>1, <2>2 DEF First
  <2> QED BY <2>2, <2>3
<1>8. f \in Bijection(F, 1..m)
  <2>1. f \in [F -> 1..m]  BY <1>6
  <2>2. \A c, d \in F : f[c] = f[d] => c = d  BY <1>2, <1>4, <1>5
  <2> HIDE DEF f, F, m
  <2>3. f \in Injection(F, 1..m)  BY <2>1, <2>2 DEF Injection, IsInjective
  <2>4. f \in Surjection(F, 1..m)  BY <1>7, <2>1 DEF Surjection
  <2> QED BY <2>3, <2>4 DEF Bijection
<1>9. Cardinality(F) = m
  <2>1. Cardinality(1..m) = IF 1 > m THEN 0 ELSE m - 1 + 1
    <3> HIDE DEF m
    <3> QED BY <1>1, FS_Interval
  <2>2. ExistsBijection(F, 1..m)  BY <1>8 DEF ExistsBijection
  <2>3. Cardinality(1..m) = Cardinality(F)
    <3> HIDE DEF m, F
    <3> QED BY <1>3, <2>2, FS_Bijection
  <2> QED BY <1>1, <2>1, <2>3
<1>10. {1 + Cardinality(Ahead(c, R, S)) : c \in F} = 1..m
  <2>1. {1 + Cardinality(Ahead(c, R, S)) : c \in F} = {f[c] : c \in F}  OBVIOUS
  <2> HIDE DEF f, F, m
  <2> QED BY <1>6, <1>7, <2>1
<1>11. Cardinality(S) <= limit => F = S
  <2>1. ASSUME Cardinality(S) <= limit, NEW c \in S PROVE c \in F
    BY <1>1, <1>4, <2>1 DEF First
  <2> QED BY <1>2, <2>1
<1> QED BY <1>3, <1>9, <1>10, <1>11

-----------------------------------------------------------------------------
\* Sums.

Added(f, S) == FoldFunctionOnSet(+, 0, f, S)

Pick(s) == CHOOSE x \in s : TRUE

\* g is the recursive function that a fold of f over S is defined by.
Adds(g, f, S) ==
    g = [s \in SUBSET S |-> IF s = {} THEN 0 ELSE f[Pick(s)] + g[s \ {Pick(s)}]]

\* The sum, as the library computes it.
LEMMA AddedIs == ASSUME NEW f, NEW S PROVE Added(f, S) = (CHOOSE g : Adds(g, f, S))[S]
BY DEF Added, Adds, Pick, FoldFunctionOnSet, MapThenFoldSet

\* The element it takes first is one of the set.
LEMMA PickIsElement == \A s : s # {} => Pick(s) \in s
BY DEF Pick

\* One step of it.
LEMMA AddsAt ==
    ASSUME NEW g, NEW f, NEW S, Adds(g, f, S), NEW s, s \subseteq S
    PROVE  g[s] = IF s = {} THEN 0 ELSE f[Pick(s)] + g[s \ {Pick(s)}]
BY DEF Adds

(* Two such functions of the same summands agree wherever both are defined.                  *)
LEMMA AddsUnique ==
    ASSUME NEW S, NEW T, IsFiniteSet(S), NEW f, NEW g, NEW h, Adds(g, f, S), Adds(h, f, T),
           NEW U, U \subseteq S, U \subseteq T
    PROVE  g[U] = h[U]
<1> DEFINE F == {s \in SUBSET U : g[s] # h[s]}
<1>1. SUFFICES ASSUME F # {} PROVE FALSE
  <2>1. U \in SUBSET U  OBVIOUS
  <2> QED BY <2>1
<1>2. IsFiniteSet(U)  BY FS_Subset
<1>3. PICK s \in F : \A t \in F : t \subseteq s => t = s
  <2>1. F \subseteq SUBSET U  OBVIOUS
  <2> HIDE DEF F
  <2> QED BY <1>1, <1>2, <2>1, FiniteMinimal
<1>4. s \subseteq S /\ s \subseteq T /\ g[s] # h[s]  OBVIOUS
<1>5. s # {} => g[s \ {Pick(s)}] = h[s \ {Pick(s)}]  BY <1>3, PickIsElement
<1> HIDE DEF F
<1>6. g[s] = IF s = {} THEN 0 ELSE f[Pick(s)] + g[s \ {Pick(s)}]
  <2>1. s \in SUBSET S  BY <1>4
  <2> QED BY <2>1 DEF Adds
<1>7. h[s] = IF s = {} THEN 0 ELSE f[Pick(s)] + h[s \ {Pick(s)}]
  <2>1. s \in SUBSET T  BY <1>4
  <2> QED BY <2>1 DEF Adds
<1> QED BY <1>4, <1>5, <1>6, <1>7

(* There is such a function for every finite set.                                            *)
LEMMA AddsExists ==
    ASSUME NEW S, IsFiniteSet(S), NEW f
    PROVE  Adds(CHOOSE g : Adds(g, f, S), f, S)
<1> DEFINE G(V) == CHOOSE g : Adds(g, f, V)
           F == {V \in SUBSET S : ~Adds(G(V), f, V)}
<1>1. SUFFICES ASSUME F # {} PROVE FALSE
  <2>1. S \in SUBSET S  OBVIOUS
  <2> QED BY <2>1
<1>2. PICK U \in F : \A V \in F : V \subseteq U => V = U
  <2>1. F \subseteq SUBSET S  OBVIOUS
  <2> HIDE DEF F
  <2> QED BY <1>1, <2>1, FiniteMinimal
<1>3. U \subseteq S /\ ~Adds(G(U), f, U)  OBVIOUS
<1>4. \A V \in SUBSET U : V # U => Adds(G(V), f, V)  BY <1>2, <1>3
<1> HIDE DEF F
<1> DEFINE p == Pick(U)
           g == [s \in SUBSET U |-> IF s # U THEN G(s)[s] ELSE IF U = {} THEN 0 ELSE f[p] + G(U \ {p})[U \ {p}]]
           rhs == [s \in SUBSET U |-> IF s = {} THEN 0 ELSE f[Pick(s)] + g[s \ {Pick(s)}]]
<1>5. ASSUME NEW s \in SUBSET U PROVE g[s] = rhs[s]
  <2>1. CASE s = U
    <3>1. CASE U = {}  BY <2>1, <3>1
    <3>2. CASE U # {}
      <4>1. p \in U  BY <3>2, PickIsElement
      <4>2. U \ {p} \in SUBSET U /\ U \ {p} # U  BY <4>1
      <4>3. g[U \ {p}] = G(U \ {p})[U \ {p}]  BY <4>2
      <4>4. rhs[s] = f[p] + g[U \ {p}]  BY <2>1, <3>2
      <4>5. g[s] = f[p] + G(U \ {p})[U \ {p}]  BY <2>1, <3>2
      <4> QED BY <4>3, <4>4, <4>5
    <3> QED BY <3>1, <3>2
  <2>2. CASE s # U
    <3> DEFINE q == Pick(s)
               t == s \ {q}
    <3>1. g[s] = G(s)[s] /\ Adds(G(s), f, s)  BY <1>4, <2>2
    <3>2. CASE s = {}
      <4>1. G(s)[s] = 0
        <5> HIDE DEF G
        <5> QED BY <3>1, <3>2, AddsAt
      <4> QED BY <3>1, <3>2, <4>1
    <3>3. CASE s # {}
      <4>1. q \in s  BY <3>3, PickIsElement
      <4>2. t \in SUBSET U /\ t # U /\ t \subseteq s  BY <4>1, <2>2
      <4>3. G(s)[s] = f[q] + G(s)[t]
        <5> HIDE DEF G
        <5> QED BY <3>1, <3>3, AddsAt
      <4>4. Adds(G(t), f, t)  BY <1>4, <4>2
      <4>5. G(s)[t] = G(t)[t]
        <5>1. IsFiniteSet(s)  BY <1>3, FS_Subset
        <5> HIDE DEF G, t
        <5> QED BY <3>1, <4>2, <4>4, <5>1, AddsUnique
      <4>6. g[t] = G(t)[t]  BY <4>2
      <4>7. rhs[s] = f[q] + g[t]  BY <3>3
      <4> QED BY <3>1, <4>3, <4>5, <4>6, <4>7
    <3> QED BY <3>2, <3>3
  <2> QED BY <2>1, <2>2
<1>6. g = rhs
  <2>1. g = [s \in SUBSET U |-> g[s]]  OBVIOUS
  <2>2. rhs = [s \in SUBSET U |-> rhs[s]]  OBVIOUS
  <2> HIDE DEF g, rhs
  <2> QED BY <1>5, <2>1, <2>2
<1>7. Adds(g, f, U)
  <2>1. rhs = [s \in SUBSET U |-> IF s = {} THEN 0 ELSE f[Pick(s)] + g[s \ {Pick(s)}]]  OBVIOUS
  <2> HIDE DEF g, rhs
  <2> QED BY <1>6, <2>1 DEF Adds
<1>8. Adds(G(U), f, U)
  <2> HIDE DEF g
  <2> QED BY <1>7
<1> QED BY <1>3, <1>8

(* The laws a sum is used by: the empty one, its type, summands that agree, and one summand  *)
(* split off, whichever it is.                                                               *)
LEMMA AddedEmpty == ASSUME NEW f PROVE Added(f, {}) = 0
<1>1. Adds(CHOOSE g : Adds(g, f, {}), f, {})  BY FS_EmptySet, AddsExists
<1>2. (CHOOSE g : Adds(g, f, {}))[{}] = 0  BY <1>1, AddsAt
<1> QED BY <1>2, AddedIs

(* The recursive function of a set is that of its subsets.                                   *)
LEMMA AddsIsAdded ==
    ASSUME NEW S, IsFiniteSet(S), NEW f, NEW g, Adds(g, f, S), NEW U, U \subseteq S
    PROVE  g[U] = Added(f, U)
<1> DEFINE k == CHOOSE h : Adds(h, f, U)
<1>1. IsFiniteSet(U)  BY FS_Subset
<1>2. Adds(k, f, U)  BY <1>1, AddsExists
<1>3. Added(f, U) = k[U]  BY AddedIs
<1> HIDE DEF k
<1>4. g[U] = k[U]  BY <1>2, AddsUnique
<1> QED BY <1>3, <1>4

\* The sum is the element taken first and the sum of the rest.
LEMMA AddedPick ==
    ASSUME NEW S, IsFiniteSet(S), NEW f, S # {}
    PROVE  Added(f, S) = f[Pick(S)] + Added(f, S \ {Pick(S)})
<1> DEFINE g == CHOOSE h : Adds(h, f, S)
<1>1. Adds(g, f, S)  BY AddsExists
<1> HIDE DEF g
<1>2. g[S] = f[Pick(S)] + g[S \ {Pick(S)}]  BY <1>1, AddsAt
<1>3. g[S] = Added(f, S)  BY <1>1, AddsIsAdded
<1>4. g[S \ {Pick(S)}] = Added(f, S \ {Pick(S)})  BY <1>1, AddsIsAdded
<1> QED BY <1>2, <1>3, <1>4

\* It depends on the summands alone.
LEMMA AddedAgrees ==
    ASSUME NEW S, IsFiniteSet(S), NEW f, NEW e, \A x \in S : f[x] = e[x]
    PROVE  Added(f, S) = Added(e, S)
<1> DEFINE F == {V \in SUBSET S : Added(f, V) # Added(e, V)}
<1>1. SUFFICES ASSUME F # {} PROVE FALSE
  <2>1. S \in SUBSET S  OBVIOUS
  <2> QED BY <2>1
<1>2. PICK U \in F : \A V \in F : V \subseteq U => V = U
  <2>1. F \subseteq SUBSET S  OBVIOUS
  <2> HIDE DEF F
  <2> QED BY <1>1, <2>1, FiniteMinimal
<1>3. U \subseteq S /\ IsFiniteSet(U) /\ Added(f, U) # Added(e, U)  BY FS_Subset
<1>4. U # {}  BY <1>3, AddedEmpty
<1> DEFINE p == Pick(U)
<1>5. p \in U  BY <1>4, PickIsElement
<1>6. Added(f, U \ {p}) = Added(e, U \ {p})  BY <1>2, <1>5
<1>7. f[p] = e[p]  BY <1>3, <1>5
<1>8. Added(f, U) = f[p] + Added(f, U \ {p}) /\ Added(e, U) = e[p] + Added(e, U \ {p})
  BY <1>3, <1>4, AddedPick
<1> HIDE DEF F, p
<1> QED BY <1>3, <1>6, <1>7, <1>8

\* A sum of natural numbers is one.
LEMMA AddedType ==
    ASSUME NEW S, IsFiniteSet(S), NEW f, \A x \in S : f[x] \in Nat
    PROVE  Added(f, S) \in Nat
<1> DEFINE F == {V \in SUBSET S : Added(f, V) \notin Nat}
<1>1. SUFFICES ASSUME F # {} PROVE FALSE
  <2>1. S \in SUBSET S  OBVIOUS
  <2> QED BY <2>1
<1>2. PICK U \in F : \A V \in F : V \subseteq U => V = U
  <2>1. F \subseteq SUBSET S  OBVIOUS
  <2> HIDE DEF F
  <2> QED BY <1>1, <2>1, FiniteMinimal
<1>3. U \subseteq S /\ IsFiniteSet(U) /\ Added(f, U) \notin Nat  BY FS_Subset
<1>4. U # {}  BY <1>3, AddedEmpty
<1> DEFINE p == Pick(U)
<1>5. p \in U  BY <1>4, PickIsElement
<1>6. Added(f, U \ {p}) \in Nat  BY <1>2, <1>5
<1>7. f[p] \in Nat  BY <1>3, <1>5
<1>8. Added(f, U) = f[p] + Added(f, U \ {p})  BY <1>3, <1>4, AddedPick
<1> HIDE DEF F, p
<1> QED BY <1>3, <1>6, <1>7, <1>8

\* Whichever element is taken first.
LEMMA AddedSplit ==
    ASSUME NEW S, IsFiniteSet(S), NEW f, \A x \in S : f[x] \in Nat, NEW c \in S
    PROVE  Added(f, S) = f[c] + Added(f, S \ {c})
<1> DEFINE F == {V \in SUBSET S : \E x \in V : Added(f, V) # f[x] + Added(f, V \ {x})}
<1>1. SUFFICES ASSUME F # {} PROVE FALSE
  <2>1. S \in SUBSET S  OBVIOUS
  <2> QED BY <2>1
<1>2. PICK U \in F : \A V \in F : V \subseteq U => V = U
  <2>1. F \subseteq SUBSET S  OBVIOUS
  <2> HIDE DEF F
  <2> QED BY <1>1, <2>1, FiniteMinimal
<1>3. PICK x \in U : Added(f, U) # f[x] + Added(f, U \ {x})  OBVIOUS
<1>4. U \subseteq S /\ IsFiniteSet(U)  BY FS_Subset
<1> DEFINE p == Pick(U)
           W == (U \ {p}) \ {x}
<1>5. p \in U  BY <1>3, PickIsElement
<1>6. Added(f, U) = f[p] + Added(f, U \ {p})  BY <1>4, <1>5, AddedPick
<1>7. p # x  BY <1>3, <1>6
<1>8. \A V \in SUBSET U : V # U => \A y \in V : Added(f, V) = f[y] + Added(f, V \ {y})
  BY <1>2, <1>4
<1>9. Added(f, U \ {p}) = f[x] + Added(f, W)  BY <1>5, <1>7, <1>8
<1>10. Added(f, U \ {x}) = f[p] + Added(f, W)
  <2>1. (U \ {x}) \ {p} = W  OBVIOUS
  <2> QED BY <1>5, <1>7, <1>8, <2>1
<1>11. f[x] \in Nat /\ f[p] \in Nat  BY <1>4, <1>5
<1>12. Added(f, W) \in Nat
  <2>1. W \subseteq S /\ IsFiniteSet(W)  BY <1>4, FS_Subset
  <2> QED BY <2>1, AddedType
<1> HIDE DEF F, p, W
<1> QED BY <1>3, <1>6, <1>9, <1>10, <1>11, <1>12

(* A part of the summands has no greater sum.                                                *)
LEMMA AddedMonotone ==
    ASSUME NEW S, IsFiniteSet(S), NEW f, \A x \in S : f[x] \in Nat, NEW T, T \subseteq S
    PROVE  Added(f, T) <= Added(f, S)
<1> DEFINE F == {V \in SUBSET S : T \subseteq V /\ ~(Added(f, T) <= Added(f, V))}
<1>1. SUFFICES ASSUME F # {} PROVE FALSE
  <2>1. S \in SUBSET S  OBVIOUS
  <2> QED BY <2>1
<1>2. PICK U \in F : \A V \in F : V \subseteq U => V = U
  <2>1. F \subseteq SUBSET S  OBVIOUS
  <2> HIDE DEF F
  <2> QED BY <1>1, <2>1, FiniteMinimal
<1>3. U \subseteq S /\ T \subseteq U /\ ~(Added(f, T) <= Added(f, U))  OBVIOUS
<1>4. IsFiniteSet(U) /\ IsFiniteSet(T)  BY <1>3, FS_Subset
<1>5. Added(f, T) \in Nat  BY <1>4, AddedType
<1>6. PICK x \in U : x \notin T  BY <1>3, <1>5
<1>7. Added(f, T) <= Added(f, U \ {x})  BY <1>2, <1>3, <1>6
<1>8. Added(f, U \ {x}) \in Nat
  <2>1. U \ {x} \subseteq S /\ IsFiniteSet(U \ {x})  BY <1>3, FS_Subset
  <2> QED BY <2>1, AddedType
<1>9. Added(f, U) = f[x] + Added(f, U \ {x})  BY <1>3, <1>4, AddedSplit
<1>10. f[x] \in Nat  BY <1>3
<1> HIDE DEF F
<1> QED BY <1>3, <1>5, <1>7, <1>8, <1>9, <1>10

-----------------------------------------------------------------------------
\* A budget spent in order.

(* Of a finite set whose elements have numbers, one has the greatest.                        *)
LEMMA GreatestNumbered ==
    ASSUME NEW S, IsFiniteSet(S), S # {}, NEW number, \A c \in S : number[c] \in Nat
    PROVE  \E c \in S : \A d \in S : number[d] <= number[c]
<1> DEFINE above(c) == {d \in S : number[c] <= number[d]}
           F == {above(c) : c \in S}
<1>1. F \subseteq SUBSET S /\ F # {}  OBVIOUS
<1>2. PICK T \in F : \A U \in F : U \subseteq T => U = T
  <2> HIDE DEF F
  <2> QED BY <1>1, FiniteMinimal
<1>3. PICK c \in S : T = above(c)  BY <1>2
<1>4. ASSUME NEW d \in S PROVE number[d] <= number[c]
  <2>1. number[c] \in Nat /\ number[d] \in Nat  OBVIOUS
  <2>2. SUFFICES ASSUME number[c] < number[d] PROVE FALSE  BY <2>1
  <2>3. above(d) \subseteq above(c)  BY <2>1, <2>2
  <2>4. above(d) \in F  OBVIOUS
  <2>5. above(d) = above(c)  BY <1>2, <1>3, <2>3, <2>4
  <2>6. c \in above(c) /\ c \notin above(d)  BY <2>1, <2>2
  <2> QED BY <2>5, <2>6
<1> QED BY <1>4

Preceding(x, number, S) == {y \in S : number[y] < number[x]}

\* What the elements before x leave of a budget.
LeftOver(x, f, number, S, budget) == budget - Added(f, Preceding(x, number, S))

(* What is before an element and the element itself add up to no more than the whole.        *)
LEMMA BeforeAndItself ==
    ASSUME NEW S, IsFiniteSet(S), NEW f, \A x \in S : f[x] \in Nat,
           NEW number, \A x \in S : number[x] \in Nat, NEW x \in S, NEW T, T \subseteq S,
           x \in T, Preceding(x, number, S) \subseteq T
    PROVE  /\ Added(f, Preceding(x, number, S)) \in Nat
           /\ Added(f, Preceding(x, number, S)) + f[x] <= Added(f, T)
           /\ Added(f, T) \in Nat
<1> DEFINE P == Preceding(x, number, S)
           Q == P \cup {x}
<1>1. P \subseteq S /\ Q \subseteq S /\ Q \subseteq T /\ x \in Q /\ x \notin P
  BY DEF Preceding
<1> HIDE DEF P
<1>2. IsFiniteSet(P) /\ IsFiniteSet(Q) /\ IsFiniteSet(T)  BY <1>1, FS_Subset
<1>3. Q \ {x} = P  BY <1>1
<1> HIDE DEF Q
<1>4. Added(f, Q) = f[x] + Added(f, P)
  <2>1. Added(f, Q) = f[x] + Added(f, Q \ {x})  BY <1>1, <1>2, AddedSplit
  <2> QED BY <1>3, <2>1
<1>5. Added(f, Q) <= Added(f, T)  BY <1>1, <1>2, AddedMonotone
<1>6. Added(f, P) \in Nat /\ Added(f, T) \in Nat /\ f[x] \in Nat  BY <1>1, <1>2, AddedType
<1> QED BY <1>4, <1>5, <1>6 DEF P

(* The part of a set that ends with an element is what is before it, and itself.             *)
LEMMA UpTo ==
    ASSUME NEW S, IsFiniteSet(S), NEW f, \A x \in S : f[x] \in Nat,
           NEW number, \A x \in S : number[x] \in Nat, \A x, y \in S : number[x] = number[y] => x = y,
           NEW T, T \subseteq S, T # {}, \A x \in T, y \in S : number[y] < number[x] => y \in T
    PROVE  \E x \in T : /\ T = Preceding(x, number, S) \cup {x}
                        /\ Added(f, T) = Added(f, Preceding(x, number, S)) + f[x]
<1>1. IsFiniteSet(T)  BY FS_Subset
<1>2. PICK x \in T : \A y \in T : number[y] <= number[x]  BY <1>1, GreatestNumbered
<1>3. T = Preceding(x, number, S) \cup {x}
  <2>1. ASSUME NEW y \in T PROVE y \in Preceding(x, number, S) \cup {x}
    <3>1. number[y] \in Nat /\ number[x] \in Nat /\ number[y] <= number[x]  BY <1>2
    <3>2. number[y] = number[x] => y = x  OBVIOUS
    <3> QED BY <3>1, <3>2 DEF Preceding
  <2> QED BY <2>1 DEF Preceding
<1>4. T \ {x} = Preceding(x, number, S)
  <2>1. x \notin Preceding(x, number, S)  BY DEF Preceding
  <2> QED BY <1>3, <2>1
<1>5. Added(f, T) = f[x] + Added(f, T \ {x})  BY <1>1, AddedSplit
<1>6. Added(f, T \ {x}) \in Nat /\ f[x] \in Nat
  <2>1. T \ {x} \subseteq S /\ IsFiniteSet(T \ {x})  BY FS_Subset
  <2>2. \A y \in T \ {x} : f[y] \in Nat  OBVIOUS
  <2>3. Added(f, T \ {x}) \in Nat  BY <2>1, <2>2, AddedType
  <2> QED BY <2>3
<1>7. Added(f, T) = Added(f, Preceding(x, number, S)) + f[x]
  <2>1. Added(f, T \ {x}) = Added(f, Preceding(x, number, S))  BY <1>4
  <2> QED BY <1>5, <1>6, <2>1
<1> QED BY <1>3, <1>7

(* Elements take their share in order until a budget is spent, the one that does not fit as  *)
(* much as is left: together they take all they ask for, or exactly the budget.              *)
LEMMA SpentInOrder ==
    ASSUME NEW S, IsFiniteSet(S), NEW f, \A x \in S : f[x] \in Nat /\ f[x] > 0,
           NEW number, \A x \in S : number[x] \in Nat, \A x, y \in S : number[x] = number[y] => x = y,
           NEW budget \in Nat, budget > 0, NEW served, NEW t,
           served = {x \in S : LeftOver(x, f, number, S, budget) > 0},
           \A x \in served : t[x] = IF f[x] <= LeftOver(x, f, number, S, budget)
                                    THEN f[x] ELSE LeftOver(x, f, number, S, budget)
    PROVE  /\ Added(f, S) <= budget => served = S /\ Added(t, S) = Added(f, S) /\ \A x \in S : t[x] = f[x]
           /\ Added(f, S) > budget => Added(t, served) = budget
<1> DEFINE before(x) == Preceding(x, number, S)
           left(x) == LeftOver(x, f, number, S, budget)
<1>1. ASSUME NEW x \in S
      PROVE  /\ f[x] \in Nat /\ f[x] > 0 /\ number[x] \in Nat
             /\ Added(f, before(x)) \in Nat /\ left(x) = budget - Added(f, before(x)) /\ before(x) \subseteq S
             /\ Added(f, before(x)) + f[x] <= Added(f, S)
  <2>1. before(x) \subseteq S  BY DEF Preceding
  <2>2. f[x] \in Nat /\ f[x] > 0 /\ number[x] \in Nat  OBVIOUS
  <2>3. Added(f, before(x)) \in Nat /\ Added(f, before(x)) + f[x] <= Added(f, S)
    BY <2>1, BeforeAndItself
  <2> QED BY <2>1, <2>2, <2>3 DEF LeftOver
<1>2. Added(f, S) \in Nat  BY AddedType
<1>3. ASSUME Added(f, S) <= budget
      PROVE  served = S /\ Added(t, S) = Added(f, S) /\ \A x \in S : t[x] = f[x]
  <2>1. \A x \in S : f[x] <= left(x) /\ left(x) > 0
    <3> HIDE DEF before, left
    <3> QED BY <1>1, <1>2, <1>3
  <2>2. served = S /\ \A x \in S : t[x] = f[x]  BY <2>1
  <2> QED BY <2>2, AddedAgrees
<1>4. ASSUME Added(f, S) > budget PROVE Added(t, served) = budget
  <2> DEFINE full == {x \in S : Added(f, before(x)) + f[x] >= budget}
  <2>1. full # {}
    <3>1. S # {}
      <4>1. Added(f, {}) = 0  BY AddedEmpty
      <4> QED BY <4>1, <1>4
    <3>2. PICK x \in S : Added(f, S) = Added(f, before(x)) + f[x]
      <4>1. \A x \in S : f[x] \in Nat  OBVIOUS
      <4> HIDE DEF before
      <4>2. \E x \in S : /\ S = Preceding(x, number, S) \cup {x}
                         /\ Added(f, S) = Added(f, Preceding(x, number, S)) + f[x]
        BY <3>1, <4>1, UpTo
      <4> QED BY <4>2 DEF before
    <3>3. x \in full
      <4> HIDE DEF before
      <4> QED BY <1>2, <1>4, <3>2
    <3> QED BY <3>3
  <2>2. PICK last \in full : \A x \in full : number[last] <= number[x]
    <3>1. \A x \in full : number[x] \in Nat  OBVIOUS
    <3> HIDE DEF full
    <3> QED BY <2>1, <3>1, LeastNumbered
  <2> DEFINE P == before(last)
  <2>3. last \in S /\ Added(f, P) + f[last] >= budget  OBVIOUS
  <2>4. \A x \in P : Added(f, before(x)) + f[x] < budget /\ x \in S
    <3> SUFFICES ASSUME NEW x \in P PROVE Added(f, before(x)) + f[x] < budget /\ x \in S
      OBVIOUS
    <3>1. x \in S /\ number[x] < number[last]  BY DEF Preceding
    <3>2. number[x] \in Nat /\ number[last] \in Nat  BY <2>3, <3>1
    <3>3. x \notin full  BY <2>2, <3>1, <3>2
    <3>4. Added(f, before(x)) \in Nat /\ f[x] \in Nat  BY <1>1, <3>1
    <3> HIDE DEF before
    <3> QED BY <3>1, <3>3, <3>4
  <2>5. Added(f, P) < budget
    <3>1. CASE P = {}  BY <3>1, AddedEmpty
    <3>2. CASE P # {}
      <4>1. P \subseteq S /\ \A x \in P, y \in S : number[y] < number[x] => y \in P
        <5>1. P \subseteq S  BY DEF Preceding
        <5>2. ASSUME NEW x \in P, NEW y \in S, number[y] < number[x] PROVE y \in P
          <6>1. number[x] < number[last] /\ x \in S  BY DEF Preceding
          <6>2. number[x] \in Nat /\ number[y] \in Nat /\ number[last] \in Nat  BY <2>3, <6>1
          <6> QED BY <5>2, <6>1, <6>2 DEF Preceding
        <5> QED BY <5>1, <5>2
      <4>2. \A x \in S : f[x] \in Nat  OBVIOUS
      <4> HIDE DEF P
      <4>3. PICK x \in P : Added(f, P) = Added(f, Preceding(x, number, S)) + f[x]
        BY <3>2, <4>1, <4>2, UpTo
      <4> QED BY <2>4, <4>3
    <3> QED BY <3>1, <3>2
  <2>6. served = P \cup {last}
    <3>1. ASSUME NEW x \in P PROVE left(x) > 0
      <4>1. x \in S /\ Added(f, before(x)) + f[x] < budget  BY <2>4
      <4> HIDE DEF before, left, P
      <4> QED BY <1>1, <4>1
    <3>2. left(last) > 0
      <4>1. left(last) = budget - Added(f, P) /\ Added(f, P) \in Nat  BY <1>1, <2>3
      <4> HIDE DEF before, left, P
      <4> QED BY <2>5, <4>1
    <3>3. ASSUME NEW x \in S, x \notin P, x # last PROVE ~(left(x) > 0)
      <4>1. number[x] \in Nat /\ number[last] \in Nat /\ number[x] # number[last]  BY <2>3, <3>3
      <4>2. number[last] < number[x]  BY <3>3, <4>1 DEF Preceding
      <4>3. before(last) \subseteq before(x) /\ last \in before(x) /\ before(x) \subseteq S
        <5>1. ASSUME NEW y \in before(last) PROVE y \in before(x)
          <6>1. y \in S /\ number[y] < number[last] /\ number[y] \in Nat  BY DEF Preceding
          <6> QED BY <4>1, <4>2, <6>1 DEF Preceding
        <5> QED BY <2>3, <4>2, <5>1 DEF Preceding
      <4>4. Added(f, before(last)) + f[last] <= Added(f, before(x))
        <5>1. \A y \in S : f[y] \in Nat /\ number[y] \in Nat  OBVIOUS
        <5> HIDE DEF before
        <5>2. Preceding(last, number, S) \subseteq before(x)  BY <4>3 DEF before
        <5>3. Added(f, Preceding(last, number, S)) + f[last] <= Added(f, before(x))
          BY <2>3, <4>3, <5>1, <5>2, BeforeAndItself
        <5> QED BY <5>3 DEF before
      <4>5. /\ left(x) = budget - Added(f, before(x)) /\ Added(f, before(x)) \in Nat
            /\ Added(f, before(last)) \in Nat /\ f[last] \in Nat
        BY <1>1, <2>3
      <4> HIDE DEF before, left
      <4> QED BY <2>3, <4>4, <4>5 DEF P
    <3>4. P \subseteq S  BY <2>4
    <3> HIDE DEF P, before
    <3> QED BY <2>3, <3>1, <3>2, <3>3, <3>4
  <2>7. t[last] = budget - Added(f, P)
    <3>1. last \in served  BY <2>6
    <3>2. left(last) = budget - Added(f, P) /\ Added(f, P) \in Nat /\ f[last] \in Nat  BY <1>1, <2>3
    <3>3. t[last] = IF f[last] <= left(last) THEN f[last] ELSE left(last)  BY <3>1
    <3> HIDE DEF P, left, before
    <3> QED BY <2>3, <3>2, <3>3
  <2>8. \A x \in P : t[x] = f[x]
    <3> SUFFICES ASSUME NEW x \in P PROVE t[x] = f[x]
      OBVIOUS
    <3>1. x \in served /\ x \in S /\ Added(f, before(x)) + f[x] < budget  BY <2>4, <2>6
    <3>2. left(x) = budget - Added(f, before(x)) /\ Added(f, before(x)) \in Nat /\ f[x] \in Nat  BY <1>1, <3>1
    <3>3. t[x] = IF f[x] <= left(x) THEN f[x] ELSE left(x)  BY <3>1
    <3> HIDE DEF left, before
    <3> QED BY <3>1, <3>2, <3>3
  <2>9. IsFiniteSet(P) /\ P \subseteq S /\ last \notin P
    <3>1. P \subseteq S /\ last \notin P
      <4>1. number[last] \in Nat  BY <2>3
      <4> QED BY <4>1 DEF Preceding
    <3> HIDE DEF P
    <3> QED BY <3>1, FS_Subset
  <2>10. Added(t, P) = Added(f, P) /\ Added(f, P) \in Nat
    <3>1. Added(f, P) \in Nat  BY <1>1, <2>3
    <3> HIDE DEF P
    <3>2. Added(t, P) = Added(f, P)  BY <2>8, <2>9, AddedAgrees
    <3> QED BY <3>1, <3>2
  <2> HIDE DEF P, full
  <2>11. Added(t, served) = t[last] + Added(t, P)
    <3>1. IsFiniteSet(P \cup {last})  BY <2>9, FS_AddElement
    <3>2. \A x \in P \cup {last} : t[x] \in Nat
      <4>1. \A x \in P : t[x] \in Nat  BY <2>8, <2>9
      <4>2. t[last] \in Nat  BY <2>5, <2>7, <2>10
      <4> QED BY <4>1, <4>2
    <3>3. (P \cup {last}) \ {last} = P  BY <2>9
    <3>4. Added(t, P \cup {last}) = t[last] + Added(t, (P \cup {last}) \ {last})  BY <3>1, <3>2, AddedSplit
    <3> QED BY <2>6, <3>3, <3>4
  <2> QED BY <2>7, <2>10, <2>11
<1> QED BY <1>2, <1>3, <1>4

-----------------------------------------------------------------------------
\* Fractions.

\* A positive factor keeps an order.
LEMMA TimesPositive ==
    ASSUME NEW p \in Int, NEW q \in Int, NEW r \in Nat \ {0}
    PROVE  (p >= q <=> p * r >= q * r) /\ (p > q <=> p * r > q * r)
OBVIOUS

\* Factors may change places.
LEMMA Swap == ASSUME NEW p \in Int, NEW q \in Int, NEW r \in Int PROVE (p * q) * r = (p * r) * q /\ p * q \in Int
OBVIOUS

(* Fractions as cross products: a/x >= b/y and b/y >= c/z give a/x >= c/z, and strictly if    *)
(* either is strict.                                                                         *)
LEMMA FractionChain ==
    ASSUME NEW a \in Nat, NEW b \in Nat, NEW c \in Nat,
           NEW x \in Nat \ {0}, NEW y \in Nat \ {0}, NEW z \in Nat \ {0},
           a * y >= b * x, b * z >= c * y
    PROVE  /\ a * z >= c * x
           /\ a * y > b * x \/ b * z > c * y => a * z > c * x
<1>1. a * y \in Int /\ b * x \in Int /\ b * z \in Int /\ c * y \in Int /\ a * z \in Int /\ c * x \in Int  OBVIOUS
<1>2. (a * y) * z >= (b * x) * z /\ (b * z) * x >= (c * y) * x  BY <1>1, TimesPositive
<1>3. (a * y > b * x => (a * y) * z > (b * x) * z) /\ (b * z > c * y => (b * z) * x > (c * y) * x)  BY <1>1, TimesPositive
<1>4. (a * y) * z = (a * z) * y /\ (b * x) * z = (b * z) * x /\ (c * y) * x = (c * x) * y  BY Swap
<1>5. (a * z) * y >= (c * x) * y  BY <1>2, <1>4, Swap, <1>1
<1>6. a * y > b * x \/ b * z > c * y => (a * z) * y > (c * x) * y  BY <1>2, <1>3, <1>4, Swap, <1>1
<1> QED  BY <1>1, <1>5, <1>6, TimesPositive

(* The sum of two fractions is no less than that of two smaller ones, and greater if one is.  *)
LEMMA FractionSum ==
    ASSUME NEW a \in Nat, NEW b \in Nat, NEW c \in Nat, NEW d \in Nat,
           NEW x \in Nat \ {0}, NEW y \in Nat \ {0}, NEW u \in Nat \ {0}, NEW v \in Nat \ {0},
           a * y >= b * x, c * v >= d * u
    PROVE  LET m == a * u + c * x
               n == b * v + d * y
           IN /\ m * (y * v) >= n * (x * u)
              /\ a * y > b * x \/ c * v > d * u => m * (y * v) > n * (x * u)
<1>1. /\ a * y \in Int /\ b * x \in Int /\ c * v \in Int /\ d * u \in Int
      /\ u * v \in Nat \ {0} /\ x * y \in Nat \ {0}  OBVIOUS
<1>2. (a * y) * (u * v) >= (b * x) * (u * v) /\ (c * v) * (x * y) >= (d * u) * (x * y)  BY <1>1, TimesPositive
<1>3. (a * y > b * x => (a * y) * (u * v) > (b * x) * (u * v)) /\ (c * v > d * u => (c * v) * (x * y) > (d * u) * (x * y))  BY <1>1, TimesPositive
<1>4. (a * u + c * x) * (y * v) = (a * y) * (u * v) + (c * v) * (x * y)  OBVIOUS
<1>5. (b * v + d * y) * (x * u) = (b * x) * (u * v) + (d * u) * (x * y)  OBVIOUS
<1>6. /\ (a * y) * (u * v) \in Int /\ (b * x) * (u * v) \in Int /\ (c * v) * (x * y) \in Int
      /\ (d * u) * (x * y) \in Int  BY <1>1
<1> QED  BY <1>2, <1>3, <1>4, <1>5, <1>6
=============================================================================
