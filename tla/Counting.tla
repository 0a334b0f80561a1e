------------------------------ MODULE Counting ------------------------------
(***************************************************************************)
(* Sums over finite sets, as the schedulers take them of the resources of  *)
(* the missions that run: MapThenSumSet adds in an order nobody knows, and *)
(* what it returns is the number of the units that are summed.             *)
(***************************************************************************)
EXTENDS Naturals, FiniteSets, FiniteSetsExt, FiniteSetTheorems,
        WellFoundedInduction, NaturalsInduction, TLAPS

(* Sets of naturals have a smallest element.                               *)
LEMMA SmallestOfNats ==
  ASSUME NEW T \in SUBSET Nat, T # {}
  PROVE  \E m \in T : \A k \in T : m <= k
<1>1. PICK m \in T : \A k \in T : ~(<<k, m>> \in OpToRel(<, Nat))
  BY NatLessThanWellFounded, WFMin
<1>2. \A k \in T : ~(k < m)
  BY <1>1 DEF OpToRel
<1> QED BY <1>2

------------------------------------------------------------------------------
(* What x weighs, and what S weighs, as a set of units.                    *)
UnitsOf(w, x) == {x} \X (1 .. w[x])
Units(w, S) == UNION {UnitsOf(w, x) : x \in S}

LEMMA UnitsOfOne ==
  ASSUME NEW w, NEW x, w[x] \in Nat
  PROVE  IsFiniteSet(UnitsOf(w, x)) /\ Cardinality(UnitsOf(w, x)) = w[x]
<1>1. IsFiniteSet(1 .. w[x]) /\ Cardinality(1 .. w[x]) = w[x]
  BY FS_Interval
<1>2. IsFiniteSet({x}) /\ Cardinality({x}) = 1
  BY FS_Singleton
<1>3. IsFiniteSet(UnitsOf(w, x)) /\ Cardinality(UnitsOf(w, x)) = 1 * w[x]
  BY <1>1, <1>2, FS_Product DEF UnitsOf
<1> QED BY <1>3

LEMMA UnitsFinite ==
  ASSUME NEW S, IsFiniteSet(S), NEW w, \A x \in S : w[x] \in Nat
  PROVE  IsFiniteSet(Units(w, S)) /\ Cardinality(Units(w, S)) \in Nat
<1> DEFINE U == {UnitsOf(w, x) : x \in S}
<1>1. \A T \in U : IsFiniteSet(T)
  BY UnitsOfOne
<1>2. IsFiniteSet(U)
  <2> DEFINE f == [x \in S |-> UnitsOf(w, x)]
  <2>1. f \in Surjection(S, U)
    BY DEF Surjection
  <2> HIDE DEF U, f
  <2> QED BY <2>1, FS_Surjection
<1>3. IsFiniteSet(UNION U)
  <2> HIDE DEF U
  <2> QED BY <1>1, <1>2, FS_UNION
<1> QED BY <1>3, FS_CardinalityType DEF Units

(* A set weighs what one of its elements does more than without it.        *)
LEMMA UnitsWithout ==
  ASSUME NEW S, IsFiniteSet(S), NEW w, \A x \in S : w[x] \in Nat, NEW x \in S
  PROVE  Cardinality(Units(w, S)) = w[x] + Cardinality(Units(w, S \ {x}))
<1>1. IsFiniteSet(Units(w, S \ {x})) /\ Cardinality(Units(w, S \ {x})) \in Nat
  BY FS_RemoveElement, UnitsFinite
<1>2. IsFiniteSet(UnitsOf(w, x)) /\ Cardinality(UnitsOf(w, x)) = w[x]
  BY UnitsOfOne
<1>3. /\ Units(w, S) = UnitsOf(w, x) \cup Units(w, S \ {x})
      /\ UnitsOf(w, x) \cap Units(w, S \ {x}) = {}
  BY DEF Units, UnitsOf
<1>4. \A A, B : IsFiniteSet(A) /\ IsFiniteSet(B) /\ A \cap B = {} =>
                Cardinality(A \cup B) = Cardinality(A) + Cardinality(B)
  <2> SUFFICES ASSUME NEW A, NEW B, IsFiniteSet(A), IsFiniteSet(B), A \cap B = {}
               PROVE  Cardinality(A \cup B) = Cardinality(A) + Cardinality(B)
    OBVIOUS
  <2>1. Cardinality(A \cup B) = Cardinality(A) + Cardinality(B) - Cardinality(A \cap B)
    BY FS_Union
  <2>2. Cardinality(A \cap B) = 0 /\ Cardinality(A) \in Nat /\ Cardinality(B) \in Nat
    BY FS_EmptySet, FS_CardinalityType
  <2> QED BY <2>1, <2>2
<1> QED BY <1>1, <1>2, <1>3, <1>4

LEMMA UnitsOfFewer ==
  ASSUME NEW S, IsFiniteSet(S), NEW w, \A x \in S : w[x] \in Nat, NEW T \in SUBSET S
  PROVE  Cardinality(Units(w, T)) <= Cardinality(Units(w, S))
<1>1. Units(w, T) \subseteq Units(w, S)
  BY DEF Units
<1> QED BY <1>1, UnitsFinite, FS_Subset

------------------------------------------------------------------------------
(* What MapThenSumSet computes by: any element first, then the others.     *)
Pick(s) == CHOOSE x \in s : TRUE

Adds(w, S, f) ==
  f = [s \in SUBSET S |-> IF s = {} THEN 0 ELSE w[Pick(s)] + f[s \ {Pick(s)}]]

(* There is a function that does, and all that do count the units.         *)
LEMMA AddsCounts ==
  ASSUME NEW S, IsFiniteSet(S), NEW w, \A x \in S : w[x] \in Nat
  PROVE  /\ Adds(w, S, [s \in SUBSET S |-> Cardinality(Units(w, s))])
         /\ \A f : Adds(w, S, f) => f[S] = Cardinality(Units(w, S))
<1> DEFINE c == [s \in SUBSET S |-> Cardinality(Units(w, s))]
<1>1. \A s \in SUBSET S : s # {} => Pick(s) \in s
  BY DEF Pick
<1>2. \A s \in SUBSET S : IsFiniteSet(s)
  BY FS_Subset
<1>3. Cardinality(Units(w, {})) = 0
  <2>1. Units(w, {}) = {}
    BY DEF Units
  <2> QED BY <2>1, FS_EmptySet
<1>4. \A s \in SUBSET S : s # {} =>
        Cardinality(Units(w, s)) = w[Pick(s)] + Cardinality(Units(w, s \ {Pick(s)}))
  BY <1>1, <1>2, UnitsWithout
<1>5. \A s \in SUBSET S :
        c[s] = IF s = {} THEN 0 ELSE w[Pick(s)] + c[s \ {Pick(s)}]
  BY <1>3, <1>4
<1>6. Adds(w, S, c)
  <2> HIDE DEF c
  <2>1. c = [s \in SUBSET S |-> c[s]]
    BY DEF c
  <2> QED BY <1>5, <2>1 DEF Adds
<1>7. ASSUME NEW f, Adds(w, S, f), f[S] # c[S] PROVE FALSE
  <2> DEFINE D == {s \in SUBSET S : f[s] # c[s]}
             T == {n \in Nat : \E s \in D : n = Cardinality(s)}
  <2>1. \A s \in SUBSET S : Cardinality(s) \in Nat
    BY <1>2, FS_CardinalityType
  <2>2. Cardinality(S) \in T
    BY <1>7, <2>1
  <2>3. PICK n \in T : \A k \in T : n <= k
    <3> HIDE DEF T
    <3>1. T \subseteq Nat
      BY DEF T
    <3> QED BY <2>2, <3>1, SmallestOfNats
  <2>4. PICK s \in D : n = Cardinality(s)
    BY <2>3
  <2>5. f[s] = IF s = {} THEN 0 ELSE w[Pick(s)] + f[s \ {Pick(s)}]
    BY <1>7, <2>4 DEF Adds
  <2>6. s # {} /\ f[s \ {Pick(s)}] # c[s \ {Pick(s)}]
    BY <1>5, <2>4, <2>5
  <2>7. Cardinality(s \ {Pick(s)}) = Cardinality(s) - 1
    BY <1>1, <1>2, <2>4, <2>6, FS_RemoveElement
  <2>8. s \ {Pick(s)} \in D
    BY <2>4, <2>6
  <2>9. Cardinality(s \ {Pick(s)}) \in T
    BY <2>1, <2>8
  <2>10. n \in Nat /\ n <= n - 1
    BY <2>1, <2>3, <2>4, <2>7, <2>9
  <2> HIDE DEF T
  <2> QED BY <2>10
<1> QED BY <1>6, <1>7

(* The sum of what the elements of S weigh.                                *)
LEMMA SumCounts ==
  ASSUME NEW S, IsFiniteSet(S), NEW w, \A x \in S : w[x] \in Nat
  PROVE  MapThenSumSet(LAMBDA x : w[x], S) = Cardinality(Units(w, S))
<1>1. MapThenSumSet(LAMBDA x : w[x], S) = (CHOOSE f : Adds(w, S, f))[S]
  BY DEF MapThenSumSet, MapThenFoldSet, Adds, Pick
<1>2. Adds(w, S, CHOOSE f : Adds(w, S, f))
  BY AddsCounts
<1> QED BY <1>1, <1>2, AddsCounts

(* The same of a weight that is one component of a record or function.     *)
LEMMA ComponentSumCounts ==
  ASSUME NEW S, IsFiniteSet(S), NEW w, NEW d, \A x \in S : w[x][d] \in Nat
  PROVE  MapThenSumSet(LAMBDA x : w[x][d], S)
           = Cardinality(Units([x \in S |-> w[x][d]], S))
<1> DEFINE v == [x \in S |-> w[x][d]]
           A(f) == f = [s \in SUBSET S |->
                          IF s = {} THEN 0 ELSE w[Pick(s)][d] + f[s \ {Pick(s)}]]
<1>1. MapThenSumSet(LAMBDA x : w[x][d], S) = (CHOOSE f : A(f))[S]
  BY DEF MapThenSumSet, MapThenFoldSet, Pick
<1>2. ASSUME NEW f PROVE A(f) <=> Adds(v, S, f)
  <2>1. \A s \in SUBSET S : s # {} => Pick(s) \in S
    BY DEF Pick
  <2>2. [s \in SUBSET S |-> IF s = {} THEN 0 ELSE w[Pick(s)][d] + f[s \ {Pick(s)}]]
          = [s \in SUBSET S |-> IF s = {} THEN 0 ELSE v[Pick(s)] + f[s \ {Pick(s)}]]
    BY <2>1
  <2> QED BY <2>2 DEF Adds
<1>3. \A x \in S : v[x] \in Nat
  OBVIOUS
<1> HIDE DEF v, A
<1>4. \E f : A(f)
  BY <1>2, <1>3, AddsCounts
<1>5. A(CHOOSE f : A(f))
  BY <1>4
<1>6. (CHOOSE f : A(f))[S] = Cardinality(Units(v, S))
  BY <1>2, <1>3, <1>5, AddsCounts
<1> QED BY <1>1, <1>6 DEF v

------------------------------------------------------------------------------
(* R orders S, as the schedulers rank what they choose from.               *)
Ranks(R, S) ==
  /\ \A a, b, c \in S : <<a, b>> \in R /\ <<b, c>> \in R => <<a, c>> \in R
  /\ \A a, b \in S : a # b => <<a, b>> \in R \/ <<b, a>> \in R
  /\ \A a \in S : <<a, a>> \notin R

Ahead(R, S, n) == {c \in S : <<c, n>> \in R}

(* A finite set has a last element: it has the most ahead of it.           *)
LEMMA LastRanked ==
  ASSUME NEW S, IsFiniteSet(S), S # {}, NEW R, Ranks(R, S)
  PROVE  \E n \in S : \A c \in S \ {n} : <<c, n>> \in R
<1> DEFINE B(n) == Ahead(R, S, n)
           T == {k \in Nat : \E n \in S : k = Cardinality(S) - Cardinality(B(n))}
<1>1. Cardinality(S) \in Nat
  BY FS_CardinalityType
<1>2. \A n \in S : /\ IsFiniteSet(B(n)) /\ Cardinality(B(n)) \in Nat
                    /\ Cardinality(S) - Cardinality(B(n)) \in T
  <2> SUFFICES ASSUME NEW n \in S
               PROVE  /\ IsFiniteSet(B(n)) /\ Cardinality(B(n)) \in Nat
                      /\ Cardinality(S) - Cardinality(B(n)) \in T
    OBVIOUS
  <2>0. B(n) \subseteq S
    BY DEF Ahead
  <2>1. /\ IsFiniteSet(B(n)) /\ Cardinality(B(n)) \in Nat
        /\ Cardinality(B(n)) <= Cardinality(S)
    BY <1>1, <2>0, FS_Subset, FS_CardinalityType
  <2>2. Cardinality(S) - Cardinality(B(n)) \in Nat
    BY <1>1, <2>1
  <2> QED BY <2>1, <2>2
<1>3. PICK m \in T : \A k \in T : m <= k
  BY <1>2, SmallestOfNats
<1>4. PICK n \in S : m = Cardinality(S) - Cardinality(B(n))
  BY <1>3
<1>5. ASSUME NEW c \in S, c # n PROVE <<c, n>> \in R
  <2> SUFFICES ASSUME <<n, c>> \in R PROVE FALSE
    BY <1>5 DEF Ranks
  <2>1. B(n) \cup {n} \subseteq B(c) /\ n \notin B(n)
    BY DEF Ranks, Ahead
  <2>2. Cardinality(B(n) \cup {n}) = Cardinality(B(n)) + 1
    BY <1>2, <2>1, FS_AddElement
  <2>3. Cardinality(B(n)) + 1 <= Cardinality(B(c))
    BY <1>2, <2>1, <2>2, FS_Subset
  <2>4. m <= Cardinality(S) - Cardinality(B(c))
    BY <1>2, <1>3
  <2>5. Cardinality(B(n)) \in Nat /\ Cardinality(B(c)) \in Nat
    BY <1>2
  <2> HIDE DEF B, T
  <2> QED BY <1>1, <1>4, <2>3, <2>4, <2>5
<1> QED BY <1>5

LEMMA RanksFewer ==
  ASSUME NEW S, NEW R, Ranks(R, S), NEW T \in SUBSET S PROVE Ranks(R, T)
BY DEF Ranks

(* If each element of S that weighs anything had room, with those ahead of *)
(* it, beside A, then S has room beside A.                                 *)
LEMMA OneByOne ==
  ASSUME NEW A, NEW S, IsFiniteSet(A), IsFiniteSet(S),
         NEW w, \A x \in A \cup S : w[x] \in Nat,
         NEW R, Ranks(R, S), NEW limit \in Nat,
         Cardinality(Units(w, A)) <= limit,
         \A n \in S : w[n] > 0 =>
           Cardinality(Units(w, A \cup Ahead(R, S, n))) + w[n] <= limit
  PROVE  Cardinality(Units(w, A \cup S)) <= limit
<1> DEFINE P == {n \in S : w[n] > 0}
<1>1. CASE P = {}
  <2>1. \A n \in S : UnitsOf(w, n) = {}
    BY <1>1 DEF UnitsOf
  <2>2. Units(w, A \cup S) = Units(w, A)
    BY <2>1 DEF Units
  <2> QED BY <2>2
<1>2. CASE P # {}
  <2>1. IsFiniteSet(P) /\ Ranks(R, P)
    BY FS_Subset, RanksFewer
  <2>2. PICK n \in P : \A c \in P \ {n} : <<c, n>> \in R
    <3> HIDE DEF P
    <3> QED BY <1>2, <2>1, LastRanked
  <2> DEFINE V == Units(w, A \cup Ahead(R, S, n))
             W == UnitsOf(w, n)
  <2>3. Units(w, A \cup S) \subseteq V \cup W
    <3> SUFFICES ASSUME NEW x \in A \cup S, NEW u \in UnitsOf(w, x) PROVE u \in V \cup W
      BY DEF Units
    <3>1. x \in A \/ x = n \/ (x \in P /\ <<x, n>> \in R)
      <4>1. w[x] > 0
        BY DEF UnitsOf
      <4> QED BY <2>2, <4>1
    <3> QED BY <3>1 DEF Units, Ahead
  <2>4. IsFiniteSet(V) /\ Cardinality(V) \in Nat
    <3>1. Ahead(R, S, n) \subseteq S
      BY DEF Ahead
    <3>2. IsFiniteSet(A \cup Ahead(R, S, n))
      BY <3>1, FS_Subset, FS_Union
    <3> QED BY <3>1, <3>2, UnitsFinite
  <2>5. IsFiniteSet(W) /\ Cardinality(W) = w[n] /\ w[n] \in Nat
    BY <2>2, UnitsOfOne
  <2>6. IsFiniteSet(V \cup W) /\ Cardinality(V \cup W) <= Cardinality(V) + w[n]
    <3> HIDE DEF V, W
    <3>1. /\ IsFiniteSet(V \cup W)
          /\ Cardinality(V \cup W) = Cardinality(V) + Cardinality(W) - Cardinality(V \cap W)
      BY <2>4, <2>5, FS_Union
    <3>2. Cardinality(V \cap W) \in Nat
      BY <2>4, FS_Intersection, FS_CardinalityType
    <3> QED BY <2>4, <2>5, <3>1, <3>2
  <2>7. /\ Cardinality(Units(w, A \cup S)) <= Cardinality(V \cup W)
        /\ Cardinality(Units(w, A \cup S)) \in Nat /\ Cardinality(V \cup W) \in Nat
    BY <2>3, <2>6, FS_Subset, FS_CardinalityType
  <2>8. Cardinality(V) + w[n] <= limit
    BY <2>2
  <2> HIDE DEF V, W
  <2> QED BY <2>4, <2>5, <2>6, <2>7, <2>8
<1> QED BY <1>1, <1>2

(* The same where each element counts for one.                             *)
LEMMA EachInTurn ==
  ASSUME NEW A, NEW S, IsFiniteSet(A), IsFiniteSet(S), NEW R, Ranks(R, S),
         NEW limit \in Nat, Cardinality(A) <= limit,
         \A n \in S : Cardinality(A \cup Ahead(R, S, n)) < limit
  PROVE  Cardinality(A \cup S) <= limit
<1>1. CASE S = {}
  <2>1. A \cup S = A
    BY <1>1
  <2> QED BY <2>1
<1>2. CASE S # {}
  <2>1. PICK n \in S : \A c \in S \ {n} : <<c, n>> \in R
    BY <1>2, LastRanked
  <2> DEFINE V == A \cup Ahead(R, S, n)
  <2>2. A \cup S = V \cup {n}
    BY <2>1 DEF Ahead
  <2>3. IsFiniteSet(V) /\ Cardinality(V) \in Nat /\ Cardinality(V) < limit
    <3>1. Ahead(R, S, n) \subseteq S
      BY DEF Ahead
    <3> QED BY <3>1, FS_Subset, FS_Union, FS_CardinalityType
  <2> HIDE DEF V
  <2>4. Cardinality(V \cup {n}) \in {Cardinality(V), Cardinality(V) + 1}
    BY <2>3, FS_AddElement
  <2> QED BY <2>2, <2>3, <2>4
<1> QED BY <1>1, <1>2
=============================================================================
