---------------------------- MODULE RouterProofs ----------------------------
(***************************************************************************)
(* Proofs about Router.tla and the Balancer.tla it extends, for any number *)
(* of models and providers, any weights, and any configuration.  The first *)
(* parts are about Total, the sum over a set of providers, and about folds *)
(* over sequences: their laws follow from the order of the naturals by     *)
(* induction over finite sets, stated with a set of sets where the library *)
(* has an operator.  Then the argument for the balancer: the slots of a    *)
(* model's own providers hold what each is owed, they add up to nothing,   *)
(* and the heaviest pays; so no group of them can gain for long.  Slots of *)
(* providers that models share are owed to nobody, but add up to nothing   *)
(* over all providers.  Last, the pass over the categories and the loops   *)
(* of Route.                                                               *)
(***************************************************************************)
EXTENDS Router, FiniteSetTheorems, WellFoundedInduction, TLAPS

(***************************************************************************)
(* Induction                                                               *)
(***************************************************************************)

LEMMA NatMin ==
  ASSUME NEW T, T \subseteq Nat, T # {}
  PROVE  \E x \in T : \A y \in T : ~(y < x)
<1>1. PICK x \in T : \A y \in T : ~(<<y, x>> \in OpToRel(<, Nat))
    BY NatLessThanWellFounded, WFMin, Zenon
<1>2. \A y \in T : ~(y < x)
    BY <1>1 DEF OpToRel
<1> QED
    BY <1>2

LEMMA NatInductive ==
  ASSUME NEW S, 0 \in S, \A n \in Nat : n \in S => n + 1 \in S
  PROVE  \A n \in Nat : n \in S
<1> DEFINE T == Nat \ S
<1> SUFFICES ASSUME T # {} PROVE FALSE
    OBVIOUS
<1>1. T \subseteq Nat
    OBVIOUS
<1> HIDE DEF T
<1>2. PICK x \in T : \A y \in T : ~(y < x)
    BY <1>1, NatMin
<1> USE DEF T
<1>3. x \in Nat /\ x # 0
    BY <1>2
<1>4. x - 1 \in Nat /\ x - 1 < x
    BY <1>3
<1>5. x - 1 \in S
    BY <1>2, <1>4
<1> QED
    BY <1>2, <1>4, <1>5

\* U holds every set whose proper subsets it holds: it holds all subsets of S.
LEMMA SubsetInductive ==
  ASSUME NEW S, IsFiniteSet(S), NEW U,
         \A s \in SUBSET S : (\A t \in SUBSET s : t # s => t \in U) => s \in U
  PROVE  \A s \in SUBSET S : s \in U
<1> DEFINE Bad == {Cardinality(s) : s \in {s \in SUBSET S : s \notin U}}
<1> SUFFICES ASSUME NEW r \in SUBSET S, r \notin U PROVE FALSE
    OBVIOUS
<1>f. ASSUME NEW s \in SUBSET S
      PROVE  /\ Cardinality(s) \in Nat
             /\ \A t \in SUBSET s : Cardinality(t) <= Cardinality(s)
                                   /\ (Cardinality(s) = Cardinality(t) => s = t)
  <2>1. IsFiniteSet(s)
      BY FS_Subset
  <2> QED
      BY <2>1, FS_CardinalityType, FS_Subset
<1>1. Bad \subseteq Nat /\ Bad # {}
    BY <1>f
<1>2. PICK n \in Bad : \A m \in Bad : ~(m < n)
  <2> HIDE DEF Bad
  <2> QED
      BY <1>1, NatMin
<1>3. PICK s \in SUBSET S : s \notin U /\ n = Cardinality(s)
    BY <1>2
<1>4. ASSUME NEW t \in SUBSET s, t # s PROVE t \in U
  <2>1. t \in SUBSET S /\ Cardinality(t) \in Nat /\ Cardinality(s) \in Nat
      BY <1>f
  <2>2. Cardinality(t) < n
      BY <1>3, <1>4, <1>f, <2>1
  <2>3. Cardinality(t) \notin Bad
    <3> HIDE DEF Bad
    <3> QED
        BY <1>2, <2>2
  <2> QED
      BY <2>1, <2>3
<1> QED
    BY <1>3, <1>4

(***************************************************************************)
(* Sums: Total is the value of a function that is its own recursion          *)
(***************************************************************************)

Pick(s) == CHOOSE x \in s : TRUE
Plus(f, c, s) == IF s = {} THEN 0 ELSE f[s \ {Pick(s)}] + c[Pick(s)]
SumOf(f, c, S) == f = [s \in SUBSET S |-> Plus(f, c, s)]

\* The smaller set that the recursion goes to.
LEMMA PickSmaller ==
  ASSUME NEW S, IsFiniteSet(S), NEW s \in SUBSET S, s # {}
  PROVE  /\ Pick(s) \in s /\ s \ {Pick(s)} \in SUBSET S
         /\ Cardinality(s) \in Nat /\ Cardinality(s) > 0
         /\ Cardinality(s \ {Pick(s)}) = Cardinality(s) - 1
<1>1. IsFiniteSet(s) /\ Pick(s) \in s
    BY FS_Subset DEF Pick
<1>2. Cardinality(s) \in Nat /\ Cardinality(s) # 0
    BY <1>1, FS_CardinalityType, FS_EmptySet
<1>3. Cardinality(s \ {Pick(s)}) = Cardinality(s) - 1
    BY <1>1, FS_RemoveElement
<1>4. Cardinality(s) > 0
    BY <1>2
<1> QED
    BY <1>1, <1>2, <1>3, <1>4

\* A set without elements by its cardinality.
LEMMA NoElement ==
  ASSUME NEW S, IsFiniteSet(S), NEW s \in SUBSET S, Cardinality(s) <= 0
  PROVE  s = {}
<1> SUFFICES ASSUME s # {} PROVE FALSE
    OBVIOUS
<1>1. Cardinality(s) > 0 /\ Cardinality(s) \in Nat
    BY PickSmaller
<1> QED
    BY <1>1

LEMMA SumExists ==
  ASSUME NEW c, NEW S, IsFiniteSet(S)
  PROVE  \E f : SumOf(f, c, S)
<1> DEFINE Upto(f, n) == \A s \in SUBSET S : Cardinality(s) <= n => f[s] = Plus(f, c, s)
           N == {n \in Nat : \E f : Upto(f, n)}
<1>1. 0 \in N
  <2> DEFINE f == [s \in SUBSET S |-> 0]
  <2>1. ASSUME NEW s \in SUBSET S, Cardinality(s) <= 0 PROVE f[s] = Plus(f, c, s)
    <3>1. s = {}
        BY <2>1, NoElement
    <3> QED
        BY <3>1 DEF Plus
  <2>2. Upto(f, 0)
      BY <2>1
  <2> QED
      BY <2>2
<1>2. ASSUME NEW n \in Nat, n \in N PROVE n + 1 \in N
  <2>1. PICK f : Upto(f, n)
      BY <1>2
  <2> DEFINE g == [s \in SUBSET S |-> Plus(f, c, s)]
  <2>2. ASSUME NEW s \in SUBSET S, Cardinality(s) <= n + 1 PROVE g[s] = Plus(g, c, s)
    <3>1. CASE s = {}
        BY <3>1 DEF Plus
    <3>2. CASE s # {}
      <4> DEFINE t == s \ {Pick(s)}
      <4>1. t \in SUBSET S /\ Cardinality(t) <= n
          BY <2>2, <3>2, PickSmaller
      <4>2. g[t] = f[t]
          BY <2>1, <4>1
      <4>3. g[s] = f[t] + c[Pick(s)]
          BY <3>2 DEF Plus
      <4> QED
          BY <3>2, <4>2, <4>3 DEF Plus
    <3> QED
        BY <3>1, <3>2
  <2>3. Upto(g, n + 1)
      BY <2>2
  <2>4. n + 1 \in Nat
      OBVIOUS
  <2> HIDE DEF Upto, g
  <2> QED
      BY <2>3, <2>4
<1> HIDE DEF N
<1>3. \A n \in Nat : n \in N
    BY <1>1, <1>2, NatInductive
<1>4. Cardinality(S) \in N /\ Cardinality(S) \in Nat
    BY <1>3, FS_CardinalityType
<1>5. PICK f : Upto(f, Cardinality(S))
    BY <1>4 DEF N
<1> DEFINE g == [s \in SUBSET S |-> Plus(f, c, s)]
<1>6. \A s \in SUBSET S : f[s] = Plus(f, c, s)
    BY <1>5, FS_Subset
<1>7. ASSUME NEW s \in SUBSET S PROVE Plus(g, c, s) = Plus(f, c, s)
  <2>1. s \ {Pick(s)} \in SUBSET S
      OBVIOUS
  <2> QED
      BY <1>6, <2>1 DEF Plus
<1>8. g = [s \in SUBSET S |-> Plus(g, c, s)]
    BY <1>7
<1> QED
    BY <1>8 DEF SumOf

LEMMA SumUnique ==
  ASSUME NEW c, NEW S, IsFiniteSet(S), NEW T, IsFiniteSet(T), NEW f, SumOf(f, c, S),
         NEW g, SumOf(g, c, T), NEW r, r \subseteq S, r \subseteq T
  PROVE  f[r] = g[r]
<1> DEFINE U == {s \in SUBSET r : f[s] = g[s]}
<1>r. IsFiniteSet(r)
    BY FS_Subset
<1>1. ASSUME NEW s \in SUBSET r, \A t \in SUBSET s : t # s => t \in U
      PROVE  s \in U
  <2>1. f[s] = Plus(f, c, s) /\ g[s] = Plus(g, c, s)
      BY DEF SumOf
  <2>2. CASE s = {}
      BY <2>1, <2>2 DEF Plus
  <2>3. CASE s # {}
    <3>1. Pick(s) \in s
        BY <2>3 DEF Pick
    <3>2. f[s \ {Pick(s)}] = g[s \ {Pick(s)}]
        BY <1>1, <3>1
    <3> QED
        BY <2>1, <2>3, <3>2 DEF Plus
  <2> QED
      BY <2>2, <2>3
<1> HIDE DEF U
<1>2. r \in U
    BY <1>r, <1>1, SubsetInductive
<1> QED
    BY <1>2 DEF U

LEMMA TotalIsSum ==
  ASSUME NEW c, NEW S, IsFiniteSet(S)
  PROVE  \E f : SumOf(f, c, S) /\ Total(c, S) = f[S]
<1>1. PICK f : SumOf(f, c, S)
    BY SumExists
<1> QED
    BY <1>1 DEF Total, FoldSet, MapThenFoldSet, SumOf, Plus, Pick

LEMMA TotalPicked ==
  ASSUME NEW c, NEW S, IsFiniteSet(S)
  PROVE  Total(c, S) = IF S = {} THEN 0
                         ELSE Total(c, S \ {Pick(S)}) + c[Pick(S)]
<1>1. PICK f : SumOf(f, c, S) /\ Total(c, S) = f[S]
    BY TotalIsSum
<1>2. f[S] = Plus(f, c, S)
    BY <1>1 DEF SumOf
<1>3. CASE S = {}
    BY <1>1, <1>2, <1>3 DEF Plus
<1>4. CASE S # {}
  <2> DEFINE t == S \ {Pick(S)}
  <2>1. t \subseteq S /\ IsFiniteSet(t)
      BY FS_Subset
  <2> HIDE DEF t
  <2>2. PICK g : SumOf(g, c, t) /\ Total(c, t) = g[t]
      BY <2>1, TotalIsSum
  <2>3. f[t] = g[t]
      BY <1>1, <2>1, <2>2, SumUnique
  <2>4. f[S] = f[t] + c[Pick(S)]
      BY <1>2, <1>4 DEF Plus, t
  <2> QED
      BY <1>1, <1>4, <2>2, <2>3, <2>4 DEF t
<1> QED
    BY <1>3, <1>4

\* The laws of the sum, for integers.
LEMMA TotalType ==
  ASSUME NEW T, NEW c \in [T -> Int], NEW S \in SUBSET T, IsFiniteSet(S)
  PROVE  Total(c, S) \in Int
<1> DEFINE U == {s \in SUBSET S : Total(c, s) \in Int}
<1>1. ASSUME NEW s \in SUBSET S, \A t \in SUBSET s : t # s => t \in U
      PROVE  s \in U
  <2>1. Total(c, s) = IF s = {} THEN 0 ELSE Total(c, s \ {Pick(s)}) + c[Pick(s)]
      BY FS_Subset, TotalPicked
  <2>2. CASE s = {}
      BY <2>1, <2>2
  <2>3. CASE s # {}
    <3>1. Pick(s) \in s
        BY <2>3 DEF Pick
    <3>2. Total(c, s \ {Pick(s)}) \in Int /\ c[Pick(s)] \in Int
        BY <1>1, <3>1
    <3> QED
        BY <2>1, <2>3, <3>2
  <2> QED
      BY <2>2, <2>3
<1> HIDE DEF U
<1>2. S \in U
    BY <1>1, SubsetInductive
<1> QED
    BY <1>2 DEF U

LEMMA TotalNone ==
  ASSUME NEW c
  PROVE  Total(c, {}) = 0
  BY FS_EmptySet, TotalPicked

LEMMA TotalRemove ==
  ASSUME NEW T, NEW c \in [T -> Int], NEW S \in SUBSET T, IsFiniteSet(S), NEW x \in S
  PROVE  /\ Total(c, S) = Total(c, S \ {x}) + c[x]
         /\ Total(c, S) \in Int /\ Total(c, S \ {x}) \in Int /\ c[x] \in Int
         /\ S \ {x} \in SUBSET T /\ IsFiniteSet(S \ {x})
<1> DEFINE U == {s \in SUBSET S : \A y \in s : Total(c, s) = Total(c, s \ {y}) + c[y]}
<1>1. ASSUME NEW s \in SUBSET S, \A t \in SUBSET s : t # s => t \in U
      PROVE  s \in U
  <2> SUFFICES ASSUME NEW y \in s PROVE Total(c, s) = Total(c, s \ {y}) + c[y]
      OBVIOUS
  <2> DEFINE p == Pick(s)
  <2>1. Total(c, s) = Total(c, s \ {p}) + c[p]
      BY FS_Subset, TotalPicked
  <2>2. p \in s
      BY DEF Pick
  <2> HIDE DEF p
  <2>3. CASE y = p
      BY <2>1, <2>3
  <2>4. CASE y # p
    <3>1. Total(c, s \ {p}) = Total(c, (s \ {p}) \ {y}) + c[y]
      <4>1. s \ {p} \in U /\ y \in s \ {p}
          BY <1>1, <2>2, <2>4
      <4> QED
          BY <4>1
    <3>2. Total(c, s \ {y}) = Total(c, (s \ {y}) \ {p}) + c[p]
      <4>1. s \ {y} \in U /\ p \in s \ {y}
          BY <1>1, <2>2, <2>4
      <4> QED
          BY <4>1
    <3>3. (s \ {p}) \ {y} = (s \ {y}) \ {p}
        OBVIOUS
    <3> DEFINE t == (s \ {y}) \ {p}
    <3>4. Total(c, t) \in Int /\ c[y] \in Int /\ c[p] \in Int
      <4>1. t \in SUBSET T /\ IsFiniteSet(t)
          BY FS_Subset
      <4> HIDE DEF t
      <4> QED
          BY <2>2, <4>1, TotalType
    <3> HIDE DEF t
    <3>5. /\ Total(c, s) = Total(c, t) + c[y] + c[p]
          /\ Total(c, s \ {y}) = Total(c, t) + c[p]
        BY <2>1, <3>1, <3>2, <3>3 DEF t
    <3> QED
        BY <3>4, <3>5
  <2> QED
      BY <2>3, <2>4
<1> HIDE DEF U
<1>2. S \in U
    BY <1>1, SubsetInductive
<1>3. S \ {x} \in SUBSET T /\ IsFiniteSet(S \ {x})
    BY FS_Subset
<1>4. Total(c, S) \in Int /\ Total(c, S \ {x}) \in Int /\ c[x] \in Int
    BY <1>3, TotalType
<1> QED
    BY <1>2, <1>3, <1>4 DEF U

\* Term by term: sums that are equal, greater, or the sum of two.
LEMMA TotalPlus ==
  ASSUME NEW T, NEW c \in [T -> Int], NEW d \in [T -> Int], NEW e \in [T -> Int],
         NEW S \in SUBSET T, IsFiniteSet(S), \A t \in S : e[t] = c[t] + d[t]
  PROVE  Total(e, S) = Total(c, S) + Total(d, S)
<1> DEFINE U == {s \in SUBSET S : Total(e, s) = Total(c, s) + Total(d, s)}
<1>1. ASSUME NEW s \in SUBSET S, \A t \in SUBSET s : t # s => t \in U
      PROVE  s \in U
  <2>1. CASE s = {}
      BY <2>1, TotalNone
  <2>2. CASE s # {}
    <3>1. PICK x \in s : TRUE
        BY <2>2
    <3> DEFINE t == s \ {x}
    <3>2. IsFiniteSet(s) /\ s \in SUBSET T
        BY FS_Subset
    <3>3. /\ Total(c, s) = Total(c, t) + c[x] /\ Total(d, s) = Total(d, t) + d[x]
          /\ Total(e, s) = Total(e, t) + e[x]
          /\ Total(c, t) \in Int /\ Total(d, t) \in Int /\ c[x] \in Int /\ d[x] \in Int
        BY <3>2, TotalRemove
    <3>4. Total(e, t) = Total(c, t) + Total(d, t)
        BY <1>1
    <3>5. e[x] = c[x] + d[x]
        OBVIOUS
    <3> HIDE DEF t
    <3>6. Total(e, s) = Total(c, s) + Total(d, s)
        BY <3>3, <3>4, <3>5
    <3> QED
        BY <3>6
  <2> QED
      BY <2>1, <2>2
<1> HIDE DEF U
<1>2. S \in U
    BY <1>1, SubsetInductive
<1> QED
    BY <1>2 DEF U

LEMMA TotalMonotone ==
  ASSUME NEW T, NEW c \in [T -> Int], NEW d \in [T -> Int],
         NEW S \in SUBSET T, IsFiniteSet(S), \A t \in S : c[t] <= d[t]
  PROVE  Total(c, S) <= Total(d, S)
<1> DEFINE U == {s \in SUBSET S : Total(c, s) <= Total(d, s)}
<1>1. ASSUME NEW s \in SUBSET S, \A t \in SUBSET s : t # s => t \in U
      PROVE  s \in U
  <2>1. CASE s = {}
      BY <2>1, TotalNone
  <2>2. CASE s # {}
    <3>1. PICK x \in s : TRUE
        BY <2>2
    <3> DEFINE t == s \ {x}
    <3>2. IsFiniteSet(s) /\ s \in SUBSET T
        BY FS_Subset
    <3>3. /\ Total(c, s) = Total(c, t) + c[x] /\ Total(d, s) = Total(d, t) + d[x]
          /\ Total(c, t) \in Int /\ Total(d, t) \in Int /\ c[x] \in Int /\ d[x] \in Int
        BY <3>2, TotalRemove
    <3>4. Total(c, t) <= Total(d, t) /\ c[x] <= d[x]
        BY <1>1
    <3> HIDE DEF t
    <3>5. Total(c, s) <= Total(d, s)
        BY <3>3, <3>4
    <3> QED
        BY <3>5
  <2> QED
      BY <2>1, <2>2
<1> HIDE DEF U
<1>2. S \in U
    BY <1>1, SubsetInductive
<1> QED
    BY <1>2 DEF U

LEMMA TotalSame ==
  ASSUME NEW T, NEW c \in [T -> Int], NEW d \in [T -> Int],
         NEW S \in SUBSET T, IsFiniteSet(S), \A t \in S : c[t] = d[t]
  PROVE  Total(c, S) = Total(d, S)
<1>1. \A t \in S : c[t] <= d[t] /\ d[t] <= c[t]
    OBVIOUS
<1>2. Total(c, S) <= Total(d, S) /\ Total(d, S) <= Total(c, S)
    BY <1>1, TotalMonotone
<1>3. Total(c, S) \in Int /\ Total(d, S) \in Int
    BY TotalType
<1> QED
    BY <1>2, <1>3

\* One term changes.
LEMMA TotalOneMore ==
  ASSUME NEW T, NEW c \in [T -> Int], NEW d \in [T -> Int], NEW S \in SUBSET T,
         IsFiniteSet(S), NEW x \in S, NEW v \in Int
  PROVE  d[x] = c[x] + v /\ (\A t \in S \ {x} : d[t] = c[t]) =>
           Total(d, S) = Total(c, S) + v
<1>1. /\ Total(c, S) = Total(c, S \ {x}) + c[x]
      /\ Total(c, S \ {x}) \in Int /\ c[x] \in Int
      /\ S \ {x} \in SUBSET T /\ IsFiniteSet(S \ {x})
    BY TotalRemove
<1>2. Total(d, S) = Total(d, S \ {x}) + d[x]
    BY TotalRemove
<1> HAVE d[x] = c[x] + v /\ \A t \in S \ {x} : d[t] = c[t]
<1>3. Total(c, S \ {x}) = Total(d, S \ {x})
    BY <1>1, TotalSame
<1> QED
    BY <1>1, <1>2, <1>3

\* No term exceeds m.
LEMMA TotalBound ==
  ASSUME NEW T, NEW c \in [T -> Int], NEW S \in SUBSET T, IsFiniteSet(S),
         NEW m \in Int, \A t \in S : c[t] <= m
  PROVE  Total(c, S) <= Cardinality(S) * m
<1> DEFINE U == {s \in SUBSET S : Total(c, s) <= Cardinality(s) * m}
<1>1. ASSUME NEW s \in SUBSET S, \A t \in SUBSET s : t # s => t \in U
      PROVE  s \in U
  <2>1. CASE s = {}
      BY <2>1, TotalNone, FS_EmptySet
  <2>2. CASE s # {}
    <3>1. PICK x \in s : TRUE
        BY <2>2
    <3> DEFINE t == s \ {x}
               n == Cardinality(t)
    <3>2. IsFiniteSet(s) /\ s \in SUBSET T
        BY FS_Subset
    <3>3. /\ Total(c, s) = Total(c, t) + c[x] /\ Total(c, t) \in Int /\ c[x] \in Int
          /\ IsFiniteSet(t)
        BY <3>2, TotalRemove
    <3>4. Total(c, t) <= n * m /\ c[x] <= m
        BY <1>1
    <3>5. n \in Nat /\ Cardinality(s) = n + 1
      <4>1. n \in Nat
          BY <3>3, FS_CardinalityType
      <4>2. n = Cardinality(s) - 1 /\ Cardinality(s) \in Nat
          BY <3>2, FS_RemoveElement, FS_CardinalityType
      <4> HIDE DEF n
      <4> QED
          BY <4>1, <4>2
    <3> HIDE DEF t, n
    <3>6. (n + 1) * m = n * m + m /\ n * m \in Int
        BY <3>5
    <3>7. Total(c, s) <= (n + 1) * m
        BY <3>3, <3>4, <3>6
    <3> QED
        BY <3>5, <3>7
  <2> QED
      BY <2>1, <2>2
<1> HIDE DEF U
<1>2. S \in U
    BY <1>1, SubsetInductive
<1> QED
    BY <1>2 DEF U

\* Nothing to add up.
LEMMA TotalZero ==
  ASSUME NEW T, NEW c \in [T -> Int], NEW S \in SUBSET T, IsFiniteSet(S),
         \A t \in S : c[t] = 0
  PROVE  Total(c, S) = 0
<1>1. \A t \in S : c[t] = c[t] + c[t]
    OBVIOUS
<1> DEFINE n == Total(c, S)
<1>2. n = n + n
    BY <1>1, TotalPlus
<1>3. n \in Int
    BY TotalType
<1> HIDE DEF n
<1>4. n = 0
    BY <1>2, <1>3
<1> QED
    BY <1>4 DEF n

\* Nothing outside R: the sum over S is the sum over what S has of R.
LEMMA TotalWithin ==
  ASSUME NEW T, NEW c \in [T -> Int], NEW S \in SUBSET T, IsFiniteSet(S), NEW R,
         \A t \in S \ R : c[t] = 0
  PROVE  Total(c, S) = Total(c, R \cap S)
<1> DEFINE U == {s \in SUBSET S : Total(c, s) = Total(c, R \cap s)}
<1>1. ASSUME NEW s \in SUBSET S, \A t \in SUBSET s : t # s => t \in U
      PROVE  s \in U
  <2>1. CASE s = {}
    <3>1. R \cap s = s
        BY <2>1
    <3> QED
        BY <3>1
  <2>2. CASE s # {}
    <3>1. PICK x \in s : TRUE
        BY <2>2
    <3> DEFINE t == s \ {x}
    <3>2. IsFiniteSet(s) /\ s \in SUBSET T /\ IsFiniteSet(R \cap s) /\ R \cap s \in SUBSET T
        BY FS_Subset
    <3>3. Total(c, s) = Total(c, t) + c[x] /\ Total(c, t) \in Int
        BY <3>2, TotalRemove
    <3>4. Total(c, t) = Total(c, R \cap t)
        BY <1>1
    <3>5. CASE x \in R
      <4>1. x \in R \cap s /\ (R \cap s) \ {x} = R \cap t
          BY <3>5
      <4>2. Total(c, R \cap s) = Total(c, R \cap t) + c[x]
          BY <3>2, <4>1, TotalRemove
      <4> QED
          BY <3>3, <3>4, <4>2
    <3>6. CASE x \notin R
      <4>1. R \cap s = R \cap t /\ c[x] = 0
          BY <3>6
      <4> HIDE DEF t
      <4>2. Total(c, s) = Total(c, t)
          BY <3>3, <4>1
      <4> QED
          BY <3>4, <4>1, <4>2
    <3> QED
        BY <3>5, <3>6
  <2> QED
      BY <2>1, <2>2
<1> HIDE DEF U
<1>2. S \in U
    BY <1>1, SubsetInductive
<1> QED
    BY <1>2 DEF U

\* Natural numbers, and fewer of them.
LEMMA TotalSubset ==
  ASSUME NEW T, NEW c \in [T -> Nat], NEW S \in SUBSET T, IsFiniteSet(S), NEW R \in SUBSET S
  PROVE  Total(c, S) \in Nat /\ Total(c, R) <= Total(c, S)
<1>0. c \in [T -> Int]
    OBVIOUS
<1> DEFINE d == [t \in T |-> IF t \in R THEN c[t] ELSE 0]
           z == [t \in T |-> 0]
<1>1. /\ d \in [T -> Int] /\ z \in [T -> Int] /\ (\A t \in T : z[t] = 0)
      /\ (\A t \in R : d[t] = c[t]) /\ (\A t \in T \ R : d[t] = 0)
      /\ \A t \in T : d[t] <= c[t] /\ z[t] <= c[t]
    OBVIOUS
<1> HIDE DEF d, z
<1>2. \A t \in S \ R : d[t] = 0
    BY <1>1
<1>3. Total(d, S) = Total(d, R \cap S) /\ R \cap S = R
    BY <1>1, <1>2, TotalWithin
<1>4. Total(d, S) = Total(d, R) /\ Total(z, S) = 0
    BY <1>1, <1>3, TotalZero
<1>5. Total(d, R) = Total(c, R)
  <2>1. R \in SUBSET T /\ IsFiniteSet(R)
      BY FS_Subset
  <2> QED
      BY <1>0, <1>1, <2>1, TotalSame
<1>6. Total(d, S) <= Total(c, S) /\ Total(z, S) <= Total(c, S)
    BY <1>0, <1>1, TotalMonotone
<1>7. Total(c, S) \in Int
    BY <1>0, TotalType
<1> QED
    BY <1>4, <1>5, <1>6, <1>7

\* A set of one.
LEMMA TotalOne ==
  ASSUME NEW T, NEW c \in [T -> Int], NEW x \in T
  PROVE  Total(c, {x}) = c[x]
<1>1. IsFiniteSet({x}) /\ {x} \in SUBSET T /\ {x} \ {x} = {}
    BY FS_Singleton
<1>2. Total(c, {x}) = Total(c, {}) + c[x]
    BY <1>1, TotalRemove
<1>3. c[x] \in Int
    OBVIOUS
<1> QED
    BY <1>2, <1>3, TotalNone

(***************************************************************************)
(* Folds: FoldLeft over n elements is the value, on 1..n, of a function of *)
(* the sets of their numbers that is its own recursion; it adds the last   *)
(* element by the step f, whose values are in V                            *)
(***************************************************************************)

Fold(g, f, base, s) == IF s = {} THEN base ELSE f[<<Max(s), g[s \ {Max(s)}]>>]
Folds(g, f, base, n) == g = [s \in SUBSET (1..n) |-> Fold(g, f, base, s)]

LEMMA LastOne ==
  ASSUME NEW n \in Nat, NEW s \in SUBSET (1..n), s # {}
  PROVE  Max(s) \in s /\ \A z \in s : z <= Max(s)
<1> DEFINE T == {n - x : x \in s}
<1>1. \A x \in s : x \in Nat /\ x <= n
    OBVIOUS
<1>2. T \subseteq Nat /\ T # {}
  <2>1. \A x \in s : n - x \in Nat
      BY <1>1
  <2>2. \E x \in s : n - x \in T
      OBVIOUS
  <2> QED
      BY <2>1, <2>2
<1>3. PICK y \in T : \A z \in T : ~(z < y)
  <2> HIDE DEF T
  <2> QED
      BY <1>2, NatMin
<1>4. PICK x \in s : y = n - x
    OBVIOUS
<1>5. ASSUME NEW z \in s PROVE x >= z
  <2>1. n - z \in T
      OBVIOUS
  <2>2. ~(n - z < n - x)
      BY <1>3, <1>4, <2>1
  <2> QED
      BY <1>1, <2>2
<1>6. Max(s) \in s /\ \A z \in s : Max(s) >= z
    BY <1>5 DEF Max
<1> QED
    BY <1>1, <1>6

LEMMA FoldExists ==
  ASSUME NEW n \in Nat, NEW f, NEW base
  PROVE  \E g : Folds(g, f, base, n)
<1> DEFINE S == 1..n
           Upto(g, k) == \A s \in SUBSET S : Cardinality(s) <= k => g[s] = Fold(g, f, base, s)
           N == {k \in Nat : \E g : Upto(g, k)}
<1>c. ASSUME NEW s \in SUBSET S
      PROVE  /\ Cardinality(s) \in Nat /\ Cardinality(s) <= Cardinality(S)
             /\ Cardinality(s) = 0 => s = {}
             /\ s # {} => Cardinality(s \ {Max(s)}) = Cardinality(s) - 1
  <2>0. IsFiniteSet(S)
      BY FS_Interval
  <2>1. IsFiniteSet(s) /\ Cardinality(s) <= Cardinality(S)
      BY <2>0, FS_Subset
  <2>2. Cardinality(s) \in Nat /\ (Cardinality(s) = 0 => s = {})
      BY <2>1, FS_CardinalityType, FS_EmptySet
  <2>3. ASSUME s # {} PROVE Cardinality(s \ {Max(s)}) = Cardinality(s) - 1
    <3>1. Max(s) \in s
        BY <2>3, LastOne
    <3> QED
        BY <2>1, <3>1, FS_RemoveElement
  <2> QED
      BY <2>1, <2>2, <2>3
<1> HIDE DEF S
<1>1. 0 \in N
  <2> DEFINE g == [s \in SUBSET S |-> base]
  <2>1. ASSUME NEW s \in SUBSET S, Cardinality(s) <= 0 PROVE g[s] = Fold(g, f, base, s)
    <3>0. Cardinality(s) \in Nat
        BY <1>c
    <3>1. Cardinality(s) = 0
        BY <2>1, <3>0
    <3>2. s = {}
        BY <1>c, <3>1
    <3> QED
        BY <3>2 DEF Fold
  <2>2. Upto(g, 0)
      BY <2>1
  <2> QED
      BY <2>2
<1>2. ASSUME NEW k \in Nat, k \in N PROVE k + 1 \in N
  <2>1. PICK g : Upto(g, k)
      BY <1>2
  <2> DEFINE h == [s \in SUBSET S |-> Fold(g, f, base, s)]
  <2>2. ASSUME NEW s \in SUBSET S, Cardinality(s) <= k + 1
        PROVE  h[s] = Fold(h, f, base, s)
    <3>1. CASE s = {}
        BY <3>1 DEF Fold
    <3>2. CASE s # {}
      <4> DEFINE t == s \ {Max(s)}
      <4>1. t \in SUBSET S
          OBVIOUS
      <4>2. Cardinality(t) <= k
          BY <1>c, <2>2, <3>2
      <4>3. h[t] = g[t]
          BY <2>1, <4>1, <4>2
      <4>4. h[s] = Fold(g, f, base, s)
          OBVIOUS
      <4>5. Fold(g, f, base, s) = Fold(h, f, base, s)
        <5> HIDE DEF h
        <5> QED
            BY <4>3 DEF Fold
      <4> QED
          BY <4>4, <4>5
    <3> QED
        BY <3>1, <3>2
  <2>3. Upto(h, k + 1)
      BY <2>2
  <2>4. k + 1 \in Nat
      OBVIOUS
  <2> HIDE DEF Upto, h
  <2> QED
      BY <2>3, <2>4
<1> HIDE DEF N
<1>3. \A k \in Nat : k \in N
    BY <1>1, <1>2, NatInductive
<1>4. Cardinality(S) \in N
    BY <1>3, <1>c
<1>5. PICK g : Upto(g, Cardinality(S))
    BY <1>4 DEF N
<1> DEFINE h == [s \in SUBSET S |-> Fold(g, f, base, s)]
<1>6. \A s \in SUBSET S : g[s] = Fold(g, f, base, s)
    BY <1>5, <1>c
<1>7. ASSUME NEW s \in SUBSET S PROVE Fold(h, f, base, s) = Fold(g, f, base, s)
  <2>1. s \ {Max(s)} \in SUBSET S
      OBVIOUS
  <2>2. h[s \ {Max(s)}] = g[s \ {Max(s)}]
      BY <1>6, <2>1
  <2> HIDE DEF h
  <2> QED
      BY <2>2 DEF Fold
<1>8. h = [s \in SUBSET S |-> Fold(h, f, base, s)]
    BY <1>7
<1> QED
    BY <1>8 DEF Folds, S

LEMMA FoldStep ==
  ASSUME NEW n \in Nat, NEW V, NEW base \in V, NEW f \in [(1..n) \X V -> V], NEW g,
         Folds(g, f, base, n), NEW s \in SUBSET (1..n)
  PROVE  /\ s = {} => g[s] = base
         /\ s # {} => /\ Max(s) \in s /\ s \ {Max(s)} \in SUBSET (1..n)
                      /\ g[s \ {Max(s)}] \in V /\ g[s] = f[<<Max(s), g[s \ {Max(s)}]>>]
         /\ g[s] \in V
<1> DEFINE S == 1..n
           U == {t \in SUBSET S : g[t] \in V}
<1>0. IsFiniteSet(S)
    BY FS_Interval
<1>1. ASSUME NEW t \in SUBSET S
      PROVE  /\ t = {} => g[t] = base
             /\ t # {} => /\ Max(t) \in t /\ t \ {Max(t)} \in SUBSET S
                          /\ g[t] = f[<<Max(t), g[t \ {Max(t)}]>>]
  <2>1. g[t] = Fold(g, f, base, t)
      BY DEF Folds
  <2>2. t # {} => Max(t) \in t
      BY LastOne
  <2> QED
      BY <2>1, <2>2 DEF Fold
<1>2. ASSUME NEW t \in SUBSET S, \A r \in SUBSET t : r # t => r \in U
      PROVE  t \in U
  <2>1. CASE t = {}
      BY <1>1, <2>1
  <2>2. CASE t # {}
    <3>1. Max(t) \in t /\ g[t] = f[<<Max(t), g[t \ {Max(t)}]>>]
        BY <1>1, <2>2
    <3>2. g[t \ {Max(t)}] \in V
        BY <1>2, <3>1
    <3> QED
        BY <3>1, <3>2
  <2> QED
      BY <2>1, <2>2
<1>3. \A t \in SUBSET S : t \in U
  <2> HIDE DEF U, S
  <2> QED
      BY <1>0, <1>2, SubsetInductive
<1> QED
    BY <1>1, <1>3

-----------------------------------------------------------------------------
(***************************************************************************)
(* One turn of the wheel                                                   *)
(***************************************************************************)

\* The current weights c of the candidates C, of effective weights w, are
\* balanced: they add up to nothing, none has lost a whole turn, and a group of
\* them has gained the less the fewer are left outside it.
Balanced(c, w, C) ==
  /\ Total(c, C) = 0
  /\ \A p \in C : c[p] > -Total(w, C)
  /\ \A p \in C : 6 * c[p] <= (2 * Cardinality(C) - 1) * Total(w, C)
  /\ \A S \in SUBSET C : Cardinality(S) >= 2 =>
       3 * Total(c, S) <= Cardinality(S) * ((Cardinality(C) - Cardinality(S)) * Total(w, C))

\* A group X without the heaviest has at most j times what the heaviest has.
LEMMA Share ==
  ASSUME NEW j \in Nat, NEW k \in Nat, NEW T \in Nat, NEW X \in Int, NEW Y \in Int,
         NEW r \in Int, j >= 2, X <= j * r, X + r <= Y + T,
         3 * Y <= (j + 1) * ((k - (j + 1)) * T)
  PROVE  3 * X <= j * ((k - j) * T)
<1> DEFINE u == (k - (j + 1)) * T
           v == (k - j) * T
<1>1. u \in Int /\ v \in Int /\ v = u + T
    OBVIOUS
<1>2. 3 * Y <= (j + 1) * u
    OBVIOUS
<1> HIDE DEF u, v
<1>3. j * (X + r) <= j * (Y + T)
    OBVIOUS
<1>4. j * (X + r) = j * X + j * r /\ j * (Y + T) = j * Y + j * T
    OBVIOUS
<1>5. j * (3 * Y) <= j * ((j + 1) * u) /\ j * (3 * Y) = 3 * (j * Y)
    BY <1>1, <1>2
<1>6. (j + 1) * X = j * X + X /\ j * X \in Int /\ j * r \in Int /\ j * Y \in Int
    OBVIOUS
<1>7. (j + 1) * X <= j * Y + j * T
    BY <1>3, <1>4, <1>6
<1>8. 3 * ((j + 1) * X) <= j * ((j + 1) * u) + 3 * (j * T)
    BY <1>1, <1>5, <1>6, <1>7
<1>9. 3 * (j * T) <= (j + 1) * (j * T)
    OBVIOUS
<1>10. (j + 1) * (j * v) = j * ((j + 1) * u) + (j + 1) * (j * T)
    BY <1>1
<1>11. (j + 1) * (3 * X) <= (j + 1) * (j * v)
    BY <1>1, <1>8, <1>9, <1>10
<1>12. 3 * X \in Int /\ j * v \in Int /\ j + 1 > 0
    BY <1>1
<1>13. ASSUME NEW a \in Int, NEW b \in Int, (j + 1) * a <= (j + 1) * b PROVE a <= b
    BY <1>13
<1>14. 3 * X <= j * v
    BY <1>11, <1>12, <1>13
<1> QED
    BY <1>14 DEF v

\* Every candidate gains its weight, and the heaviest, b, pays the turn.
LEMMA Turn ==
  ASSUME NEW P, NEW c \in [P -> Int], NEW r \in [P -> Int], NEW d \in [P -> Int],
         NEW w \in [P -> Nat], NEW C \in SUBSET P, IsFiniteSet(C), NEW b \in C,
         \A p \in C : r[p] = c[p] + w[p], \A p \in C : r[p] <= r[b],
         d[b] = r[b] - Total(w, C), \A p \in C \ {b} : d[p] = r[p],
         Total(w, C) > 0, Balanced(c, w, C)
  PROVE  Balanced(d, w, C)
<1> DEFINE T == Total(w, C)
           k == Cardinality(C)
<1>w. w \in [P -> Int]
    OBVIOUS
<1>t. T \in Nat /\ k \in Nat
    BY TotalSubset, FS_CardinalityType
<1>s. ASSUME NEW S \in SUBSET C
      PROVE  /\ S \in SUBSET P /\ IsFiniteSet(S) /\ Cardinality(S) \in Nat
             /\ Total(c, S) \in Int /\ Total(r, S) \in Int /\ Total(w, S) \in Int
             /\ Total(r, S) = Total(c, S) + Total(w, S) /\ Total(w, S) <= T
             /\ Total(d, S) = IF b \in S THEN Total(r, S) - T ELSE Total(r, S)
  <2>1. S \in SUBSET P /\ IsFiniteSet(S) /\ Cardinality(S) \in Nat
      BY FS_Subset, FS_CardinalityType
  <2>2. Total(c, S) \in Int /\ Total(r, S) \in Int
      BY <2>1, TotalType
  <2>3. Total(w, S) \in Int
      BY <1>w, <2>1, TotalType
  <2>4. Total(r, S) = Total(c, S) + Total(w, S)
      BY <1>w, <2>1, TotalPlus
  <2>5. Total(w, S) <= T
      BY TotalSubset
  <2>6. CASE b \in S
    <3>1. -T \in Int /\ d[b] = r[b] + -T /\ \A t \in S \ {b} : d[t] = r[t]
      <4>1. r[b] \in Int
          OBVIOUS
      <4> QED
          BY <1>t, <4>1
    <3> HIDE DEF T
    <3>2. Total(d, S) = Total(r, S) + -T
        BY <2>1, <2>6, <3>1, TotalOneMore
    <3>3. Total(d, S) = Total(r, S) - T
        BY <1>t, <2>2, <3>2
    <3> QED
        BY <2>1, <2>2, <2>3, <2>4, <2>5, <2>6, <3>3
  <2>7. CASE b \notin S
    <3>1. \A t \in S : d[t] = r[t]
        BY <2>7
    <3>2. Total(d, S) = Total(r, S)
        BY <2>1, <3>1, TotalSame
    <3> QED
        BY <2>1, <2>2, <2>3, <2>4, <2>5, <2>7, <3>2
  <2> QED
      BY <2>6, <2>7
<1>c. /\ Total(c, C) = 0 /\ \A p \in C : c[p] > -T
      /\ \A p \in C : 6 * c[p] <= (2 * k - 1) * T
      /\ \A S \in SUBSET C : Cardinality(S) >= 2 =>
           3 * Total(c, S) <= Cardinality(S) * ((k - Cardinality(S)) * T)
    BY DEF Balanced
<1>p. ASSUME NEW p \in C
      PROVE  p \in P /\ c[p] \in Int /\ r[p] \in Int /\ w[p] \in Nat /\ w[p] <= T
  <2>1. p \in P /\ {p} \in SUBSET C
      OBVIOUS
  <2>2. Total(w, {p}) = w[p]
      BY <1>w, <2>1, TotalOne
  <2>3. Total(w, {p}) <= T
      BY <2>1, <1>s
  <2> QED
      BY <2>1, <2>2, <2>3
<1>0. T > 0 /\ d[b] = r[b] - T
    OBVIOUS
<1> HIDE DEF T, k
<1>1. Total(d, C) = 0
  <2>1. /\ Total(r, C) = Total(c, C) + T
        /\ Total(d, C) = Total(r, C) - T
      BY <1>s DEF T
  <2> QED
      BY <1>c, <1>t, <2>1
<1>2. r[b] > 0
  <2> SUFFICES ASSUME r[b] <= 0 PROVE FALSE
      BY <1>p
  <2>1. \A p \in C : r[p] <= 0
      BY <1>p
  <2>2. Total(r, C) <= Cardinality(C) * 0
      BY <2>1, TotalBound
  <2>3. Total(r, C) = Total(c, C) + T
      BY <1>s DEF T
  <2> QED
      BY <1>0, <1>c, <1>t, <2>2, <2>3 DEF k
<1>3. ASSUME NEW p \in C PROVE d[p] > -T
  <2>1. CASE p = b
      BY <1>0, <1>2, <1>p, <1>t, <2>1
  <2>2. CASE p # b
    <3>1. d[p] = c[p] + w[p]
        BY <2>2
    <3> QED
        BY <1>c, <1>p, <1>t, <3>1
  <2> QED
      BY <2>1, <2>2
\* A group that b joins.
<1>4. ASSUME NEW S \in SUBSET C, b \notin S
      PROVE  /\ S \cup {b} \in SUBSET C /\ Cardinality(S \cup {b}) = Cardinality(S) + 1
             /\ Total(r, S \cup {b}) = Total(r, S) + r[b]
             /\ Total(r, S) + r[b] <= Total(c, S \cup {b}) + T
             /\ Total(r, S) <= Cardinality(S) * r[b]
  <2> DEFINE Q == S \cup {b}
  <2>1. Q \in SUBSET C /\ b \in Q /\ Q \ {b} = S
      BY <1>4
  <2>2. IsFiniteSet(S) /\ S \in SUBSET P /\ IsFiniteSet(Q) /\ Q \in SUBSET P
      BY <1>s, <2>1
  <2>3. Cardinality(Q) = Cardinality(S) + 1
      BY <1>4, <2>2, FS_AddElement
  <2> HIDE DEF Q
  <2>4. Total(r, Q) = Total(r, S) + r[b]
      BY <2>1, <2>2, TotalRemove
  <2>5. /\ Total(r, Q) = Total(c, Q) + Total(w, Q) /\ Total(w, Q) <= T
        /\ Total(c, Q) \in Int /\ Total(w, Q) \in Int
      BY <1>s, <2>1
  <2>6. Total(r, S) + r[b] <= Total(c, Q) + T
      BY <1>t, <2>4, <2>5
  <2>7. Total(r, S) <= Cardinality(S) * r[b]
    <3>1. r[b] \in Int /\ \A t \in S : r[t] <= r[b]
        BY <1>p
    <3> QED
        BY <2>2, <3>1, TotalBound
  <2> QED
      BY <2>1, <2>3, <2>4, <2>6, <2>7 DEF Q
<1>5. ASSUME NEW p \in C PROVE 6 * d[p] <= (2 * k - 1) * T
  <2>1. CASE p = b
    <3>1. d[b] <= c[b]
        BY <1>0, <1>p, <1>t
    <3>2. d[b] \in Int /\ c[b] \in Int
        BY <1>0, <1>p, <1>t
    <3>3. 6 * c[b] <= (2 * k - 1) * T /\ (2 * k - 1) * T \in Int
        BY <1>c, <1>t
    <3> QED
        BY <2>1, <3>1, <3>2, <3>3
  <2>2. CASE p # b
    <3> DEFINE S == {p}
               Y == Total(c, S \cup {b})
    <3>1. S \in SUBSET C /\ b \notin S /\ Cardinality(S) = 1
        BY <2>2, FS_Singleton
    <3>2. Total(r, S) = r[p]
        BY <1>p, TotalOne
    <3> HIDE DEF S
    <3>a. /\ S \cup {b} \in SUBSET C /\ Cardinality(S \cup {b}) = Cardinality(S) + 1
          /\ Total(r, S) + r[b] <= Y + T
        BY <1>4, <3>1
    <3>3. S \cup {b} \in SUBSET C /\ Cardinality(S \cup {b}) = 2 /\ r[p] + r[b] <= Y + T
        BY <3>1, <3>2, <3>a
    <3>4. Y \in Int
        BY <1>s, <3>3
    <3>5. 3 * Y <= 2 * ((k - 2) * T)
        BY <1>c, <3>3
    <3> HIDE DEF Y
    <3>6. (k - 2) * T = k * T - 2 * T /\ (2 * k - 1) * T = 2 * (k * T) - T /\ k * T \in Int
        BY <1>t
    <3>7. r[p] <= r[b] /\ r[p] \in Int /\ r[b] \in Int
        BY <1>p
    <3>8. 6 * r[p] <= (2 * k - 1) * T
        BY <1>t, <3>3, <3>4, <3>5, <3>6, <3>7
    <3> QED
        BY <2>2, <3>8
  <2> QED
      BY <2>1, <2>2
<1>6. ASSUME NEW S \in SUBSET C, Cardinality(S) >= 2
      PROVE  3 * Total(d, S) <= Cardinality(S) * ((k - Cardinality(S)) * T)
  <2> DEFINE j == Cardinality(S)
             X == Total(r, S)
  <2>0. j \in Nat /\ j >= 2 /\ X \in Int
      BY <1>6, <1>s
  <2>1. CASE b \in S
    <3>1. Total(d, S) <= Total(c, S) /\ Total(d, S) \in Int /\ Total(c, S) \in Int
      <4>1. /\ Total(d, S) = Total(r, S) - T /\ Total(r, S) = Total(c, S) + Total(w, S)
            /\ Total(w, S) <= T /\ Total(c, S) \in Int /\ Total(w, S) \in Int
          BY <1>s, <2>1
      <4> QED
          BY <1>t, <4>1
    <3>2. 3 * Total(c, S) <= j * ((k - j) * T)
        BY <1>6, <1>c
    <3>3. j * ((k - j) * T) \in Int
        BY <1>t, <2>0
    <3> HIDE DEF j, X
    <3>4. 3 * Total(d, S) <= j * ((k - j) * T)
        BY <3>1, <3>2, <3>3
    <3> QED
        BY <3>4 DEF j
  <2>2. CASE b \notin S
    <3> DEFINE Y == Total(c, S \cup {b})
    <3>1. /\ S \cup {b} \in SUBSET C /\ Cardinality(S \cup {b}) = j + 1
          /\ X + r[b] <= Y + T /\ X <= j * r[b]
        BY <1>4, <2>2
    <3>2. Y \in Int
        BY <1>s, <3>1
    <3>3. 3 * Y <= (j + 1) * ((k - (j + 1)) * T)
      <4>1. j + 1 >= 2
          BY <2>0
      <4> QED
          BY <1>c, <3>1, <4>1
    <3>4. Total(d, S) = X
        BY <1>s, <2>2
    <3> HIDE DEF j, X, Y
    <3>5. r[b] \in Int
        BY <1>p
    <3>6. 3 * X <= j * ((k - j) * T)
        BY <1>t, <2>0, <3>1, <3>2, <3>3, <3>5, Share
    <3> QED
        BY <3>4, <3>6 DEF j
  <2> QED
      BY <2>1, <2>2
<1> QED
    BY <1>1, <1>3, <1>5, <1>6 DEF Balanced, T, k

\* The current weights of others do not matter.
LEMMA BalancedSame ==
  ASSUME NEW P, NEW c \in [P -> Int], NEW d \in [P -> Int], NEW w, NEW C \in SUBSET P,
         IsFiniteSet(C), \A p \in C : c[p] = d[p], Balanced(c, w, C)
  PROVE  Balanced(d, w, C)
<1>1. \A S \in SUBSET C : S \in SUBSET P /\ IsFiniteSet(S)
    BY FS_Subset
<1>2. \A S \in SUBSET C : Total(c, S) = Total(d, S)
    BY <1>1, TotalSame
<1>3. Total(c, C) = Total(d, C)
    BY <1>2
<1> QED
    BY <1>2, <1>3 DEF Balanced

LEMMA BalancedZero ==
  ASSUME NEW P, NEW c \in [P -> Int], NEW w \in [P -> Nat], NEW C \in SUBSET P,
         IsFiniteSet(C), \A p \in C : c[p] = 0, Total(w, C) > 0
  PROVE  Balanced(c, w, C)
<1> DEFINE T == Total(w, C)
           k == Cardinality(C)
<1>1. ASSUME NEW S \in SUBSET C
      PROVE  Total(c, S) = 0 /\ Cardinality(S) \in Nat /\ Cardinality(S) <= k
  <2>1. S \in SUBSET P /\ IsFiniteSet(S)
      BY FS_Subset
  <2> QED
      BY <2>1, TotalZero, FS_Subset, FS_CardinalityType
<1>2. T \in Nat /\ T > 0 /\ k \in Nat
    BY TotalSubset, FS_CardinalityType
<1>3. ASSUME NEW p \in C PROVE 6 * c[p] <= (2 * k - 1) * T
  <2>1. k # 0 /\ c[p] = 0
      BY FS_EmptySet
  <2>2. (2 * k - 1) * T >= 0
    <3> HIDE DEF T, k
    <3> QED
        BY <1>2, <2>1
  <2> QED
      BY <2>1, <2>2
<1> HIDE DEF T, k
<1>4. ASSUME NEW S \in SUBSET C
      PROVE  3 * Total(c, S) <= Cardinality(S) * ((k - Cardinality(S)) * T)
  <2>1. (k - Cardinality(S)) * T \in Nat
      BY <1>1, <1>2
  <2>2. Cardinality(S) * ((k - Cardinality(S)) * T) \in Nat
      BY <1>1, <2>1
  <2>3. Total(c, S) = 0
      BY <1>1
  <2> QED
      BY <2>2, <2>3
<1>5. Total(c, C) = 0 /\ \A p \in C : c[p] > -T
    BY <1>1, <1>2
<1> QED
    BY <1>3, <1>4, <1>5 DEF Balanced, T, k

\* The current weights c of all providers P are level: they add up to nothing, and a
\* group of them has gained at most W for each pair of one in it and one outside it.
Level(c, P, W) ==
  /\ Total(c, P) = 0
  /\ \A S \in SUBSET P :
       Total(c, S) <= W * (Cardinality(S) * (Cardinality(P) - Cardinality(S)))

\* The bound on a group of k is W more than halfway between those on its neighbours.
LEMMA Concave ==
  ASSUME NEW n \in Nat, NEW k \in Nat, NEW W \in Nat, NEW A \in Int, NEW Z \in Int,
         NEW Y \in Int, A <= W * ((k + 1) * (n - (k + 1))), 2 * Y <= A + Z + 2 * W,
         Z <= W * ((k - 1) * (n - (k - 1)))
  PROVE  Y <= W * (k * (n - k))
<1> DEFINE u == k * (n - k)
           a == (k + 1) * (n - (k + 1))
           z == (k - 1) * (n - (k - 1))
<1>1. u \in Int /\ a \in Int /\ z \in Int /\ a + z = 2 * u - 2
    OBVIOUS
<1> HIDE DEF u, a, z
<1>2. W * (a + z) = W * a + W * z /\ W * (2 * u - 2) = 2 * (W * u) - 2 * W
    BY <1>1
<1>3. W * a \in Int /\ W * z \in Int /\ W * u \in Int
    BY <1>1
<1>4. A <= W * a /\ Z <= W * z
    BY DEF a, z
<1>5. Y <= W * u
    BY <1>1, <1>2, <1>3, <1>4
<1> QED
    BY <1>5 DEF u

\* A turn of the candidates C among the providers P: b is the heaviest, and pays.
TurnOf(c, d, w, P, C, b) ==
  /\ \A p \in C : c[p] + w[p] <= c[b] + w[b]
  /\ d[b] = c[b] + w[b] - Total(w, C)
  /\ \A p \in C \ {b} : d[p] = c[p] + w[p]
  /\ \A p \in P \ C : d[p] = c[p]

\* It keeps the slots level, if the candidates weigh at most W together.
LEMMA LevelTurn ==
  ASSUME NEW P, IsFiniteSet(P), NEW c \in [P -> Int], NEW d \in [P -> Int],
         NEW w \in [P -> Nat], NEW C \in SUBSET P, NEW b \in C, NEW W \in Nat,
         Total(w, C) <= W, TurnOf(c, d, w, P, C, b), Level(c, P, W)
  PROVE  Level(d, P, W)
<1> DEFINE g == [p \in P |-> IF p \in C THEN w[p] ELSE 0]
           r == [p \in P |-> c[p] + g[p]]
           t == Total(w, C)
           n == Cardinality(P)
           B(k) == W * (k * (n - k))
<1>1. /\ g \in [P -> Nat] /\ g \in [P -> Int] /\ r \in [P -> Int]
    OBVIOUS
<1>r. /\ (\A p \in C : g[p] = w[p]) /\ (\A p \in P \ C : g[p] = 0)
      /\ \A p \in P : r[p] = c[p] + g[p] /\ r[p] \in Int /\ c[p] \in Int /\ g[p] \in Int
    OBVIOUS
<1>2. n \in Nat /\ IsFiniteSet(C) /\ P \in SUBSET P
    BY FS_CardinalityType, FS_Subset
<1>e. /\ \A p \in C : c[p] + w[p] <= c[b] + w[b]
      /\ d[b] = c[b] + w[b] - t
      /\ \A p \in C \ {b} : d[p] = c[p] + w[p]
      /\ \A p \in P \ C : d[p] = c[p]
    BY DEF TurnOf
<1> HIDE DEF g, r
<1>3. t \in Nat /\ w \in [P -> Int]
    BY <1>2, TotalSubset
<1>4. Total(g, P) = t
  <2>1. C \cap P = C
      OBVIOUS
  <2>2. Total(g, P) = Total(g, C \cap P)
    <3>1. \A p \in P \ C : g[p] = 0
        BY <1>r
    <3> QED
        BY <1>1, <1>2, <3>1, TotalWithin
  <2>3. Total(g, C) = Total(w, C)
      BY <1>1, <1>r, <1>2, <1>3, TotalSame
  <2> QED
      BY <2>1, <2>2, <2>3
<1>5. /\ b \in C /\ b \in P /\ t <= W /\ d[b] = r[b] - t
      /\ \A p \in C : r[p] <= r[b]
      /\ \A p \in P \ {b} : d[p] = r[p]
  <2>1. b \in P /\ r[b] = c[b] + w[b]
      BY <1>r
  <2>2. \A p \in C : r[p] = c[p] + w[p]
      BY <1>r
  <2>3. ASSUME NEW p \in P \ {b} PROVE d[p] = r[p]
    <3>1. CASE p \in C
        BY <1>e, <2>2, <3>1
    <3>2. CASE p \notin C
      <4>1. r[p] = c[p]
          BY <1>r, <3>2
      <4> QED
          BY <1>e, <3>2, <4>1
    <3> QED
        BY <3>1, <3>2
  <2>4. \A p \in C : r[p] <= r[b]
      BY <1>e, <2>2
  <2>5. d[b] = r[b] - t
    <3>1. d[b] = c[b] + w[b] - t
        BY <1>e
    <3> HIDE DEF t
    <3>2. c[b] \in Int /\ w[b] \in Nat
        BY <2>1
    <3> QED
        BY <1>3, <2>1, <3>1, <3>2
  <2> QED
      BY <2>1, <2>3, <2>4, <2>5
<1> HIDE DEF t
<1>s. ASSUME NEW S \in SUBSET P
      PROVE  /\ IsFiniteSet(S) /\ Cardinality(S) \in Nat
             /\ Total(c, S) \in Int /\ Total(g, S) \in Int /\ Total(r, S) \in Int
             /\ Total(r, S) = Total(c, S) + Total(g, S) /\ Total(g, S) <= t
             /\ Total(d, S) = IF b \in S THEN Total(r, S) - t ELSE Total(r, S)
  <2>1. IsFiniteSet(S) /\ Cardinality(S) \in Nat
      BY FS_Subset, FS_CardinalityType
  <2>2. Total(c, S) \in Int /\ Total(g, S) \in Int /\ Total(r, S) \in Int
      BY <1>1, <2>1, TotalType
  <2>3. Total(r, S) = Total(c, S) + Total(g, S)
    <3>1. \A p \in S : r[p] = c[p] + g[p]
        BY <1>r
    <3> QED
        BY <1>1, <2>1, <3>1, TotalPlus
  <2>4. Total(g, S) <= t
      BY <1>1, <1>2, <1>4, TotalSubset
  <2>5. CASE b \in S
    <3>1. -t \in Int /\ d[b] = r[b] + -t /\ \A p \in S \ {b} : d[p] = r[p]
      <4>1. r[b] \in Int
          BY <1>r, <1>5
      <4> QED
          BY <1>3, <1>5, <4>1
    <3>2. Total(d, S) = Total(r, S) + -t
      <4> HIDE DEF Level, TurnOf
      <4> DEFINE v == -t
      <4>1. v \in Int /\ d[b] = r[b] + v /\ \A p \in S \ {b} : d[p] = r[p]
          BY <3>1
      <4> HIDE DEF v
      <4>2. Total(d, S) = Total(r, S) + v
        <5>1. r \in [P -> Int] /\ d \in [P -> Int] /\ S \in SUBSET P /\ IsFiniteSet(S)
            BY <1>1, <2>1
        <5>2. b \in S /\ v \in Int
            BY <2>5, <4>1
        <5>3. d[b] = r[b] + v /\ (\A p \in S \ {b} : d[p] = r[p]) =>
                Total(d, S) = Total(r, S) + v
            BY <5>1, <5>2, TotalOneMore
        <5> QED
            BY <4>1, <5>3
      <4> QED
          BY <4>2 DEF v
    <3>3. Total(d, S) = Total(r, S) - t
        BY <1>3, <2>2, <3>2
    <3> QED
        BY <2>1, <2>2, <2>3, <2>4, <2>5, <3>3
  <2>6. CASE b \notin S
    <3>1. \A p \in S : d[p] = r[p]
        BY <1>5, <2>6, Zenon
    <3>2. Total(d, S) = Total(r, S)
        BY <1>1, <2>1, <3>1, TotalSame
    <3> QED
        BY <2>1, <2>2, <2>3, <2>4, <2>6, <3>2
  <2> QED
      BY <2>5, <2>6
<1>6. Total(c, P) = 0 /\ \A S \in SUBSET P : Total(c, S) <= B(Cardinality(S))
    BY DEF Level
<1>7. ASSUME NEW k \in Nat PROVE B(k) \in Int
    BY <1>2, <1>7
<1>8. Total(d, P) = 0
  <2>1. Total(r, P) = Total(c, P) + t /\ Total(d, P) = Total(r, P) - t
      BY <1>s, <1>2, <1>4, <1>5
  <2> QED
      BY <1>3, <1>6, <2>1
<1>9. ASSUME NEW S \in SUBSET P PROVE Total(d, S) <= B(Cardinality(S))
  <2> DEFINE k == Cardinality(S)
             Y == Total(c, S)
             G == Total(g, S)
             D == Total(d, S)
  <2>1. /\ k \in Nat /\ Y \in Int /\ G \in Int /\ G <= t /\ Y <= B(k) /\ B(k) \in Int
        /\ D = IF b \in S THEN Y + G - t ELSE Y + G
    <3>1. k \in Nat /\ Y \in Int /\ G \in Int /\ G <= t /\ Y <= B(k)
        BY <1>s, <1>6
    <3>2. B(k) \in Int
      <4> HIDE DEF B, k
      <4> QED
          BY <1>7, <3>1
    <3>3. D = IF b \in S THEN Y + G - t ELSE Y + G
      <4>1. /\ Total(r, S) = Total(c, S) + Total(g, S)
            /\ Total(d, S) = IF b \in S THEN Total(r, S) - t ELSE Total(r, S)
          BY <1>s
      <4> HIDE DEF k, B
      <4>2. Total(r, S) = Y + G
          BY <4>1
      <4>3. CASE b \in S
        <5>1. D = Total(r, S) - t
            BY <4>1, <4>3, Zenon
        <5> HIDE DEF Y, G, D
        <5> QED
            BY <1>3, <3>1, <4>2, <4>3, <5>1
      <4>4. CASE b \notin S
          BY <4>1, <4>2, <4>4
      <4> QED
          BY <4>3, <4>4
    <3> QED
        BY <3>1, <3>2, <3>3
  <2>2. CASE b \in S
    <3> HIDE DEF k, Y, G, D, B
    <3>1. D <= B(k)
        BY <1>3, <2>1, <2>2
    <3> QED
        BY <3>1 DEF k, D
  <2>3. CASE b \notin S /\ S \cap C = {}
    <3>1. \A p \in S : d[p] = c[p]
        BY <1>e, <2>3
    <3>2. D = Y
        BY <1>s, <3>1, TotalSame
    <3> QED
        BY <2>1, <3>2
  <2>4. CASE b \notin S /\ S \cap C # {}
    <3>1. PICK x \in S : x \in C
        BY <2>4
    <3> DEFINE Q == S \cup {b}
               R == S \ {x}
               A == Total(c, Q)
               Z == Total(c, R)
    <3>2. Q \in SUBSET P /\ R \in SUBSET P /\ b \in Q /\ Q \ {b} = S
        BY <2>4
    <3>3. IsFiniteSet(S) /\ IsFiniteSet(Q)
        BY <1>s, <3>2
    <3>4. Cardinality(Q) = k + 1 /\ Cardinality(R) = k - 1
        BY <2>4, <3>1, <3>3, FS_AddElement, FS_RemoveElement
    <3>5. /\ Total(c, S) = Z + c[x] /\ Total(g, S) = Total(g, R) + g[x]
          /\ c[x] \in Int /\ g[x] \in Int /\ Z \in Int /\ Total(g, R) \in Int
      <4>1. x \in S /\ IsFiniteSet(S)
          BY <3>1, <3>3
      <4>2. /\ Total(c, S) = Total(c, S \ {x}) + c[x] /\ c[x] \in Int
            /\ Total(c, S \ {x}) \in Int
          BY <4>1, TotalRemove
      <4>3. /\ Total(g, S) = Total(g, S \ {x}) + g[x] /\ g[x] \in Int
            /\ Total(g, S \ {x}) \in Int
          BY <1>1, <4>1, TotalRemove
      <4> QED
          BY <4>2, <4>3
    <3> HIDE DEF Q, R
    <3>6. /\ A = Total(c, S) + c[b] /\ Total(g, Q) = Total(g, S) + g[b]
          /\ A \in Int /\ Total(g, Q) \in Int /\ c[b] \in Int /\ g[b] \in Int
      <4>1. /\ Total(c, Q) = Total(c, Q \ {b}) + c[b] /\ c[b] \in Int
            /\ Total(c, Q) \in Int
          BY <3>2, <3>3, TotalRemove
      <4>2. /\ Total(g, Q) = Total(g, Q \ {b}) + g[b] /\ g[b] \in Int
            /\ Total(g, Q) \in Int
        <5>1. g \in [P -> Int] /\ Q \in SUBSET P /\ b \in Q /\ IsFiniteSet(Q)
            BY <1>1, <3>2, <3>3
        <5> QED
            BY <5>1, TotalRemove
      <4> QED
          BY <3>2, <4>1, <4>2
    <3>7. Total(g, Q) <= t /\ Total(g, R) <= t
        BY <1>s, <3>2
    <3>8. c[x] + g[x] <= c[b] + g[b]
      <4>1. r[x] <= r[b] /\ x \in P /\ b \in P
          BY <1>5, <3>1
      <4> QED
          BY <1>r, <4>1
    <3>9. D = Y + G
        BY <2>1, <2>4
    <3>10. A <= B(k + 1) /\ Z <= B(k - 1)
        BY <1>6, <3>2, <3>4
    <3>11. 2 * (Y + G) <= A + Z + 2 * W
      <4>1. /\ Y = Z + c[x] /\ G = Total(g, R) + g[x] /\ A = Y + c[b]
            /\ Total(g, Q) = G + g[b]
          BY <3>5, <3>6
      <4> HIDE DEF Y, G, A, Z
      <4> QED
          BY <1>3, <1>5, <2>1, <3>5, <3>6, <3>7, <3>8, <4>1
    <3>12. Y + G \in Int /\ A \in Int /\ Z \in Int
        BY <2>1, <3>5, <3>6
    <3> HIDE DEF k, Y, G, D, A, Z
    <3>13. Y + G <= W * (k * (n - k))
        BY <1>2, <2>1, <3>10, <3>11, <3>12, Concave
    <3> QED
        BY <3>9, <3>13 DEF k, D
  <2> QED
      BY <2>2, <2>3, <2>4
<1> QED
    BY <1>8, <1>9 DEF Level
LEMMA LevelZero ==
  ASSUME NEW P, IsFiniteSet(P), NEW c \in [P -> Int], \A p \in P : c[p] = 0, NEW W \in Nat
  PROVE  Level(c, P, W)
<1>1. ASSUME NEW S \in SUBSET P
      PROVE  /\ Total(c, S) = 0
             /\ Total(c, S) <= W * (Cardinality(S) * (Cardinality(P) - Cardinality(S)))
  <2> DEFINE k == Cardinality(S)
             n == Cardinality(P)
  <2>1. IsFiniteSet(S) /\ k \in Nat /\ n \in Nat /\ k <= n
      BY FS_Subset, FS_CardinalityType
  <2>2. Total(c, S) = 0
      BY <2>1, TotalZero
  <2> HIDE DEF k, n
  <2>3. k * (n - k) \in Nat
      BY <2>1
  <2>4. W * (k * (n - k)) \in Nat
      BY <2>3
  <2> QED
      BY <2>2, <2>4 DEF k, n
<1> QED
    BY <1>1 DEF Level

\* Alone and together with all but one, a provider gives the two ends of the bound.
LEMMA LevelBounds ==
  ASSUME NEW P, IsFiniteSet(P), NEW c \in [P -> Int], NEW W \in Nat, Level(c, P, W),
         NEW p \in P
  PROVE  /\ -((Cardinality(P) - 1) * W) <= c[p]
         /\ c[p] <= (Cardinality(P) - 1) * W
<1> DEFINE n == Cardinality(P)
           R == P \ {p}
<1>1. n \in Nat
    BY FS_CardinalityType
<1>2. {p} \in SUBSET P /\ R \in SUBSET P /\ P \in SUBSET P
    OBVIOUS
<1>3. Cardinality({p}) = 1 /\ Total(c, {p}) = c[p]
    BY FS_Singleton, TotalOne
<1>4. Cardinality(R) = n - 1
    BY FS_RemoveElement
<1>5. Total(c, P) = Total(c, R) + c[p] /\ Total(c, R) \in Int /\ c[p] \in Int
    BY <1>2, TotalRemove
<1>6. Total(c, {p}) <= W * (Cardinality({p}) * (n - Cardinality({p})))
    BY <1>2 DEF Level
<1>7. Total(c, R) <= W * (Cardinality(R) * (n - Cardinality(R)))
    BY <1>2 DEF Level
<1>8. Total(c, P) = 0
    BY DEF Level
<1> HIDE DEF n, R
<1>9. W * (1 * (n - 1)) = (n - 1) * W /\ W * ((n - 1) * (n - (n - 1))) = (n - 1) * W
    BY <1>1
<1>10. c[p] <= (n - 1) * W
    BY <1>3, <1>6, <1>9
<1>11. Total(c, R) <= (n - 1) * W
    BY <1>4, <1>7, <1>9
<1>12. (n - 1) * W \in Int
    BY <1>1
<1>13. -((n - 1) * W) <= c[p]
    BY <1>5, <1>8, <1>11, <1>12
<1> QED
    BY <1>10, <1>13 DEF n

-----------------------------------------------------------------------------
(***************************************************************************)
(* The invariant                                                           *)
(***************************************************************************)

Eff == [p \in Provider |-> EffectiveWeight(p)]

\* The current weights; a provider without a slot would start from zero.
Current(s) == [p \in Provider |-> IF p \in DOMAIN s THEN s[p] ELSE 0]

\* A provider's slot is what it is owed: its share of the turns, less those it had.
Owed(s, n, x, m) ==
  \A p \in Candidates(m) : Current(s)[p] = n * Eff[p] - x[p] * TotalEff(m)

Fair == \A m \in Model : Apart(m) /\ TotalEff(m) > 0 =>
          /\ Balanced(Current(slots), Eff, Candidates(m))
          /\ Owed(slots, Picks(m), picks[m], m)

\* The slots of all providers, whichever models share them, are level.
SlotsLevel == Level(Current(slots), Provider, LargestTurn)

IInv == RouterTypeOK /\ Fair /\ SlotsLevel

LEMMA Weights ==
  /\ Eff \in [Provider -> Nat] /\ Eff \in [Provider -> Int]
  /\ \A p \in Provider : Eff[p] = EffectiveWeight(p)
  /\ \A m \in Model : /\ Candidates(m) \in SUBSET Provider /\ IsFiniteSet(Candidates(m))
                      /\ TotalEff(m) = Total(Eff, Candidates(m)) /\ TotalEff(m) \in Nat
                      /\ Len(Group[m]) \in Nat \ {0} /\ DOMAIN Group[m] = 1..Len(Group[m])
                      /\ \A i \in 1..Len(Group[m]) : Group[m][i] \in Candidates(m)
                      /\ \A p \in Candidates(m) : \E i \in 1..Len(Group[m]) : p = Group[m][i]
<1>1. Eff \in [Provider -> Nat] /\ \A p \in Provider : Eff[p] = EffectiveWeight(p)
    BY BalancerAssumption DEF Eff, EffectiveWeight
<1>2. Eff \in [Provider -> Int]
    BY <1>1
<1>3. ASSUME NEW m \in Model
      PROVE  /\ Candidates(m) \in SUBSET Provider /\ IsFiniteSet(Candidates(m))
             /\ TotalEff(m) = Total(Eff, Candidates(m)) /\ TotalEff(m) \in Nat
  <2>1. Candidates(m) \in SUBSET Provider
      BY BalancerAssumption DEF Candidates
  <2>2. IsFiniteSet(Candidates(m))
      BY <2>1, BalancerAssumption, FS_Subset
  <2>3. TotalEff(m) = Total(Eff, Candidates(m))
      BY DEF TotalEff, Eff
  <2>4. TotalEff(m) \in Nat
      BY <1>1, <2>1, <2>2, <2>3, TotalSubset
  <2> QED
      BY <2>1, <2>2, <2>3, <2>4
<1>4. ASSUME NEW m \in Model
      PROVE  /\ Len(Group[m]) \in Nat \ {0} /\ DOMAIN Group[m] = 1..Len(Group[m])
             /\ \A i \in 1..Len(Group[m]) : Group[m][i] \in Candidates(m)
             /\ \A p \in Candidates(m) : \E i \in 1..Len(Group[m]) : p = Group[m][i]
  <2>1. Group[m] \in Seq(Provider) /\ Group[m] # <<>>
      BY BalancerAssumption
  <2>2. Len(Group[m]) \in Nat /\ DOMAIN Group[m] = 1..Len(Group[m])
      BY <2>1
  <2>3. Len(Group[m]) # 0
      BY <2>1
  <2> QED
      BY <2>2, <2>3 DEF Candidates
<1> QED
    BY <1>1, <1>2, <1>3, <1>4

\* There is a heaviest turn, even of infinitely many models: none is heavier than all
\* providers together.
LEMMA HeaviestTurn ==
  LargestTurn \in Nat /\ \A m \in Model : TotalEff(m) <= LargestTurn
<1> DEFINE all == Total(Eff, Provider)
           S == {0} \cup {TotalEff(m) : m \in Model}
           T == {all - x : x \in S}
<1>1. IsFiniteSet(Provider) /\ Eff \in [Provider -> Nat] /\ Provider \in SUBSET Provider
    BY BalancerAssumption, Weights
<1>2. all \in Nat
    BY <1>1, TotalSubset
<1>3. ASSUME NEW m \in Model PROVE TotalEff(m) \in Nat /\ TotalEff(m) <= all
  <2>1. /\ Candidates(m) \in SUBSET Provider /\ TotalEff(m) = Total(Eff, Candidates(m))
        /\ TotalEff(m) \in Nat
      BY Weights
  <2> QED
      BY <1>1, <2>1, TotalSubset
<1> HIDE DEF all
<1>4. \A x \in S : x \in Nat /\ x <= all
    BY <1>2, <1>3
<1>5. 0 \in S /\ \A m \in Model : TotalEff(m) \in S
    OBVIOUS
<1> HIDE DEF S
<1>6. T \subseteq Nat /\ T # {}
    BY <1>2, <1>4, <1>5
<1>7. PICK y \in T : \A z \in T : ~(z < y)
  <2> HIDE DEF T
  <2> QED
      BY <1>6, NatMin
<1>8. PICK x \in S : y = all - x
    OBVIOUS
<1>9. ASSUME NEW z \in S PROVE x >= z
  <2>1. all - z \in T
      OBVIOUS
  <2>2. ~(all - z < all - x)
      BY <1>7, <1>8, <2>1
  <2> QED
      BY <1>2, <1>4, <2>2
<1>10. Max(S) \in S /\ \A z \in S : Max(S) >= z
    BY <1>9 DEF Max
<1>11. LargestTurn = Max(S)
    BY DEF LargestTurn, S
<1> QED
    BY <1>4, <1>5, <1>10, <1>11

\* Of candidates with integer weights, one is the first of the heaviest.
LEMMA HeaviestOf ==
  ASSUME NEW m \in Model, NEW r, \A p \in Candidates(m) : r[p] \in Int
  PROVE  /\ Heaviest(r, Group[m]) \in Candidates(m)
         /\ \A p \in Candidates(m) : r[p] <= r[Heaviest(r, Group[m])]
<1> DEFINE g == Group[m]
           Best(i, j) == r[g[i]] > r[g[j]] \/ (r[g[i]] = r[g[j]] /\ i <= j)
           N == {n \in Nat : n \in 1..Len(g) => \E i \in 1..n : \A j \in 1..n : Best(i, j)}
<1>0. /\ Len(g) \in Nat \ {0} /\ DOMAIN g = 1..Len(g)
      /\ \A i \in 1..Len(g) : g[i] \in Candidates(m) /\ r[g[i]] \in Int
      /\ \A p \in Candidates(m) : \E i \in 1..Len(g) : p = g[i]
    BY Weights
<1> HIDE DEF g
<1>1. 0 \in N
    OBVIOUS
<1>2. ASSUME NEW n \in Nat, n \in N PROVE n + 1 \in N
  <2> SUFFICES ASSUME n + 1 \in 1..Len(g)
               PROVE  \E i \in 1..n + 1 : \A j \in 1..n + 1 : Best(i, j)
      OBVIOUS
  <2>1. CASE n = 0
    <3>1. 1 \in 1..n + 1 /\ \A j \in 1..n + 1 : j = 1
        BY <2>1
    <3>2. Best(1, 1)
        OBVIOUS
    <3> QED
        BY <3>1, <3>2
  <2>2. CASE n # 0
    <3>1. PICK i \in 1..n : \A j \in 1..n : Best(i, j)
        BY <1>0, <1>2, <2>2
    <3>2. /\ i \in 1..Len(g) /\ \A j \in 1..n : j \in 1..Len(g)
          /\ i \in 1..n + 1 /\ n + 1 \in 1..n + 1
          /\ \A j \in 1..n + 1 : j \in 1..n \/ j = n + 1
        BY <1>0
    <3>3. CASE r[g[n + 1]] > r[g[i]]
      <4>1. ASSUME NEW j \in 1..n PROVE Best(n + 1, j)
        <5>1. r[g[i]] \in Int /\ r[g[j]] \in Int /\ r[g[n + 1]] \in Int
            BY <1>0, <3>2
        <5>2. r[g[i]] > r[g[j]] \/ r[g[i]] = r[g[j]]
            BY <3>1
        <5>3. r[g[n + 1]] > r[g[j]]
            BY <3>3, <5>1, <5>2
        <5> QED
            BY <5>3
      <4>2. Best(n + 1, n + 1)
          OBVIOUS
      <4> QED
          BY <3>2, <4>1, <4>2
    <3>4. CASE ~(r[g[n + 1]] > r[g[i]])
      <4>1. Best(i, n + 1)
          BY <1>0, <3>2, <3>4
      <4> QED
          BY <3>1, <3>2, <4>1
    <3> QED
        BY <3>3, <3>4
  <2> QED
      BY <2>1, <2>2
<1> HIDE DEF N
<1>3. Len(g) \in N
    BY <1>0, <1>1, <1>2, NatInductive
<1>4. \E i \in DOMAIN g : \A j \in DOMAIN g : Best(i, j)
  <2>1. Len(g) \in 1..Len(g)
      BY <1>0
  <2>2. \E i \in 1..Len(g) : \A j \in 1..Len(g) : Best(i, j)
    <3> HIDE DEF Best
    <3> QED
        BY <1>3, <2>1 DEF N
  <2> QED
      BY <1>0, <2>2
<1> DEFINE b == CHOOSE i \in DOMAIN g : \A j \in DOMAIN g : Best(i, j)
<1>5. b \in DOMAIN g /\ \A j \in DOMAIN g : Best(b, j)
    BY <1>4
<1>6. Heaviest(r, g) = g[b]
    BY DEF Heaviest
<1> HIDE DEF b
<1>7. \A j \in DOMAIN g : r[g[j]] <= r[g[b]]
    BY <1>0, <1>5
<1>8. g[b] \in Candidates(m) /\ \A p \in Candidates(m) : r[p] <= r[g[b]]
    BY <1>0, <1>5, <1>7
<1> QED
    BY <1>6, <1>8 DEF g

-----------------------------------------------------------------------------
(***************************************************************************)
(* The steps                                                               *)
(***************************************************************************)

LEMMA Typed ==
  ASSUME TypeOK
  PROVE  /\ Current(slots) \in [Provider -> Int] /\ DOMAIN slots \subseteq Provider
         /\ \A p \in Provider :
              Current(slots)[p] = IF p \in DOMAIN slots THEN slots[p] ELSE 0
         /\ picks \in [Model -> [Provider -> Nat]]
         /\ \A m \in Model : Picks(m) \in Nat
<1>1. /\ Current(slots) \in [Provider -> Int] /\ DOMAIN slots \subseteq Provider
      /\ \A p \in Provider : Current(slots)[p] = IF p \in DOMAIN slots THEN slots[p] ELSE 0
      /\ picks \in [Model -> [Provider -> Nat]]
    BY DEF TypeOK, Current
<1>2. ASSUME NEW m \in Model PROVE Picks(m) \in Nat
  <2>1. picks[m] \in [Provider -> Nat] /\ IsFiniteSet(Provider) /\ Provider \in SUBSET Provider
      BY <1>1, BalancerAssumption
  <2>2. Total(picks[m], Provider) \in Nat
      BY <2>1, TotalSubset
  <2> QED
      BY <2>2 DEF Picks
<1> QED
    BY <1>1, <1>2

\* What a selection does: b is the heaviest once all have gained their weights.
LEMMA SelectEffect ==
  ASSUME TypeOK, NEW m \in Model, Select(m)
  PROVE  \E b \in Candidates(m) :
           /\ b = Heaviest(Raised(m), Group[m])
           /\ \A p \in Candidates(m) : Current(slots)[p] + Eff[p] <= Current(slots)[b] + Eff[b]
           /\ DOMAIN slots' = DOMAIN slots \cup Candidates(m)
           /\ \A p \in DOMAIN slots' : slots'[p] \in Int
           /\ Current(slots') \in [Provider -> Int]
           /\ Current(slots')[b] = Current(slots)[b] + Eff[b] - TotalEff(m)
           /\ \A p \in Candidates(m) \ {b} : Current(slots')[p] = Current(slots)[p] + Eff[p]
           /\ \A p \in Provider \ Candidates(m) : Current(slots')[p] = Current(slots)[p]
           /\ picks' = [picks EXCEPT ![m][b] = @ + 1]
<1> DEFINE C == Candidates(m)
           r == Raised(m)
           b == Heaviest(r, Group[m])
           c == Current(slots)
<1>1. /\ c \in [Provider -> Int] /\ DOMAIN slots \subseteq Provider
      /\ \A p \in Provider : c[p] = IF p \in DOMAIN slots THEN slots[p] ELSE 0
    BY Typed
<1>2. /\ C \in SUBSET Provider /\ Eff \in [Provider -> Nat] /\ TotalEff(m) \in Nat
      /\ \A p \in Provider : Eff[p] = EffectiveWeight(p)
    BY Weights
<1>3. slots' = [r EXCEPT ![b] = @ - TotalEff(m)] /\ picks' = [picks EXCEPT ![m][b] = @ + 1]
    BY DEF Select
<1> HIDE DEF c
<1>4. /\ DOMAIN r = DOMAIN slots \cup C
      /\ \A p \in C : r[p] = c[p] + Eff[p]
      /\ \A p \in DOMAIN slots \ C : r[p] = c[p]
    BY <1>1, <1>2 DEF Raised, WithSlots
<1> HIDE DEF r, C
<1>5. \A p \in C : r[p] \in Int
    BY <1>1, <1>2, <1>4
<1>6. b \in C /\ \A p \in C : r[p] <= r[b]
    BY <1>5, HeaviestOf DEF C
<1>b. b = Heaviest(Raised(m), Group[m])
    BY DEF r
<1> HIDE DEF b
<1>7. /\ DOMAIN slots' = DOMAIN slots \cup C
      /\ slots'[b] = c[b] + Eff[b] - TotalEff(m)
      /\ \A p \in C \ {b} : slots'[p] = c[p] + Eff[p]
      /\ \A p \in DOMAIN slots \ C : slots'[p] = c[p]
  <2>1. b \in DOMAIN r /\ r[b] = c[b] + Eff[b]
      BY <1>4, <1>6
  <2>2. /\ DOMAIN slots' = DOMAIN r /\ slots'[b] = r[b] - TotalEff(m)
        /\ \A p \in DOMAIN r \ {b} : slots'[p] = r[p]
      BY <1>3, <2>1
  <2>3. DOMAIN slots' = DOMAIN slots \cup C
      BY <1>4, <2>2
  <2>4. \A p \in C \ {b} : p \in DOMAIN r \ {b} /\ r[p] = c[p] + Eff[p]
      BY <1>4
  <2>5. \A p \in DOMAIN slots \ C : p \in DOMAIN r \ {b} /\ r[p] = c[p]
      BY <1>4, <1>6
  <2>6. slots'[b] = c[b] + Eff[b] - TotalEff(m)
    <3>1. c[b] \in Int /\ Eff[b] \in Nat
        BY <1>1, <1>2, <1>6
    <3> QED
        BY <1>2, <2>1, <2>2, <3>1
  <2>7. \A p \in C \ {b} : slots'[p] = c[p] + Eff[p]
      BY <2>2, <2>4
  <2>8. \A p \in DOMAIN slots \ C : slots'[p] = c[p]
      BY <2>2, <2>5
  <2> QED
      BY <2>3, <2>6, <2>7, <2>8
<1>8. \A p \in DOMAIN slots' : slots'[p] \in Int
  <2> TAKE p \in DOMAIN slots'
  <2>1. p \in Provider /\ c[p] \in Int /\ Eff[p] \in Nat
      BY <1>1, <1>2, <1>7
  <2> QED
      BY <1>2, <1>6, <1>7, <2>1
<1>9. /\ Current(slots') \in [Provider -> Int]
      /\ \A p \in Provider :
           Current(slots')[p] = IF p \in DOMAIN slots' THEN slots'[p] ELSE 0
    BY <1>8 DEF Current
<1>10. /\ Current(slots')[b] = c[b] + Eff[b] - TotalEff(m)
       /\ \A p \in C \ {b} : Current(slots')[p] = c[p] + Eff[p]
    BY <1>2, <1>6, <1>7, <1>9
<1>11. \A p \in Provider \ C : Current(slots')[p] = c[p]
    BY <1>1, <1>7, <1>9
<1>12. \A p \in C : c[p] + Eff[p] <= c[b] + Eff[b]
    BY <1>4, <1>6
<1> QED
    BY <1>3, <1>6, <1>7, <1>8, <1>9, <1>10, <1>11, <1>12, <1>b DEF C, c

\* How often the candidates were picked.
LEMMA PicksEffect ==
  ASSUME TypeOK, NEW m \in Model, NEW b \in Provider,
         picks' = [picks EXCEPT ![m][b] = @ + 1]
  PROVE  /\ picks' \in [Model -> [Provider -> Nat]]
         /\ Picks(m)' = Picks(m) + 1
         /\ picks'[m][b] = picks[m][b] + 1
         /\ \A p \in Provider \ {b} : picks'[m][p] = picks[m][p]
         /\ \A n \in Model \ {m} : picks'[n] = picks[n] /\ Picks(n)' = Picks(n)
<1>1. picks \in [Model -> [Provider -> Nat]]
    BY Typed
<1>2. /\ picks' \in [Model -> [Provider -> Nat]]
      /\ picks'[m][b] = picks[m][b] + 1
      /\ \A p \in Provider \ {b} : picks'[m][p] = picks[m][p]
      /\ \A n \in Model \ {m} : picks'[n] = picks[n]
    BY <1>1
<1>3. \A n \in Model \ {m} : Picks(n)' = Picks(n)
    BY <1>2 DEF Picks
<1>4. Picks(m)' = Picks(m) + 1
  <2> DEFINE c == picks[m]
             d == picks'[m]
  <2>1. c \in [Provider -> Int] /\ d \in [Provider -> Int]
      BY <1>1, <1>2
  <2>2. d[b] = c[b] + 1 /\ \A p \in Provider \ {b} : d[p] = c[p]
      BY <1>2
  <2>3. IsFiniteSet(Provider) /\ Provider \in SUBSET Provider /\ 1 \in Int
      BY BalancerAssumption
  <2> HIDE DEF c, d
  <2>4. Total(d, Provider) = Total(c, Provider) + 1
      BY <2>1, <2>2, <2>3, TotalOneMore
  <2> QED
      BY <2>4 DEF Picks, c, d
<1> QED
    BY <1>2, <1>3, <1>4

\* A new provider starts from zero, which is where it was.
LEMMA RegisterEffect ==
  ASSUME TypeOK, NEW p \in Provider, Register(p)
  PROVE  /\ Current(slots') = Current(slots) /\ picks' = picks
         /\ DOMAIN slots' = DOMAIN slots \cup {p}
         /\ \A q \in DOMAIN slots' : slots'[q] \in Int
<1>1. DOMAIN slots \subseteq Provider /\ \A q \in DOMAIN slots : slots[q] \in Int
    BY DEF TypeOK
<1>2. slots' = [q \in DOMAIN slots \cup {p} |-> IF q \in DOMAIN slots THEN slots[q] ELSE 0]
    BY DEF Register, WithSlots
<1>3. /\ DOMAIN slots' = DOMAIN slots \cup {p}
      /\ \A q \in DOMAIN slots' : slots'[q] = IF q \in DOMAIN slots THEN slots[q] ELSE 0
    BY <1>2
<1>4. \A q \in DOMAIN slots' : slots'[q] \in Int
    BY <1>1, <1>3
<1>5. ASSUME NEW q \in Provider
      PROVE  (IF q \in DOMAIN slots' THEN slots'[q] ELSE 0)
             = (IF q \in DOMAIN slots THEN slots[q] ELSE 0)
    BY <1>3
<1>6. Current(slots') = Current(slots)
    BY <1>5 DEF Current
<1> QED
    BY <1>3, <1>4, <1>6 DEF Register

\* The four kinds of step.
LEMMA Steps ==
  ASSUME RouterTypeOK, [RouterNext]_routerVars
  PROVE  \/ /\ UNCHANGED <<slots, picks>>
            /\ \/ UNCHANGED <<routing, request, decision>>
               \/ /\ routing' = routing /\ request' \in Requests
                  /\ \/ decision' = NotFound
                     \/ decision' = Decision("explicit", request'.provider, request'.model)
         \/ /\ \E p \in Provider : Register(p)
            /\ UNCHANGED <<routing, request, decision>>
         \/ \E m \in Model : \E p : /\ Select(m)
                                    /\ routing' = routing /\ request' \in Requests
                                    /\ decision' = Decision("balanced", p, m)
<1>1. CASE UNCHANGED routerVars
    BY <1>1 DEF routerVars
<1>2. CASE \E p \in Provider : Register(p) /\ UNCHANGED <<routing, request, decision>>
    BY <1>2
<1>3. ASSUME NEW req \in Requests, RouteExplicit(req) \/ RouteNotFound(req)
      PROVE  /\ UNCHANGED <<slots, picks>> /\ routing' = routing /\ request' \in Requests
             /\ \/ decision' = NotFound
                \/ decision' = Decision("explicit", request'.provider, request'.model)
    BY <1>3 DEF RouteExplicit, RouteNotFound, Return
<1>4. ASSUME NEW req \in Requests, RouteBalanced(req)
      PROVE  \E m \in Model : \E p : /\ Select(m)
                                     /\ routing' = routing /\ request' \in Requests
                                     /\ decision' = Decision("balanced", p, m)
    BY <1>4 DEF RouteBalanced, Return
<1> QED
    BY <1>1, <1>2, <1>3, <1>4 DEF RouterNext

LEMMA TypeStep ==
  ASSUME RouterTypeOK, [RouterNext]_routerVars
  PROVE  RouterTypeOK'
<1>0. TypeOK
    BY DEF RouterTypeOK
<1>1. TypeOK'
  <2>1. /\ DOMAIN slots \subseteq Provider /\ (\A p \in DOMAIN slots : slots[p] \in Int)
        /\ (\A m \in Model : Picks(m) > 0 => Candidates(m) \subseteq DOMAIN slots)
        /\ picks \in [Model -> [Provider -> Nat]]
      BY <1>0 DEF TypeOK
  <2>2. CASE UNCHANGED <<slots, picks>>
    <3>1. \A m \in Model : Picks(m)' = Picks(m)
        BY <2>2 DEF Picks
    <3> QED
        BY <2>1, <2>2, <3>1 DEF TypeOK
  <2>3. ASSUME NEW p \in Provider, Register(p) PROVE TypeOK'
    <3>1. /\ DOMAIN slots' = DOMAIN slots \cup {p} /\ picks' = picks
          /\ \A q \in DOMAIN slots' : slots'[q] \in Int
        BY <1>0, <2>3, RegisterEffect
    <3>2. \A m \in Model : Picks(m)' = Picks(m)
        BY <3>1 DEF Picks
    <3>3. \A m \in Model : Picks(m)' > 0 => Candidates(m) \subseteq DOMAIN slots'
        BY <2>1, <3>1, <3>2
    <3> QED
        BY <2>1, <3>1, <3>3 DEF TypeOK
  <2>4. ASSUME NEW m \in Model, Select(m) PROVE TypeOK'
    <3>1. PICK b \in Candidates(m) :
            /\ DOMAIN slots' = DOMAIN slots \cup Candidates(m)
            /\ \A p \in DOMAIN slots' : slots'[p] \in Int
            /\ picks' = [picks EXCEPT ![m][b] = @ + 1]
        BY <1>0, <2>4, SelectEffect
    <3>2. b \in Provider /\ Candidates(m) \in SUBSET Provider
        BY Weights
    <3>3. /\ picks' \in [Model -> [Provider -> Nat]]
          /\ \A n \in Model \ {m} : Picks(n)' = Picks(n)
        BY <1>0, <3>1, <3>2, PicksEffect
    <3>4. \A n \in Model : Picks(n)' > 0 => Candidates(n) \subseteq DOMAIN slots'
        BY <2>1, <3>1, <3>3
    <3> QED
        BY <2>1, <3>1, <3>2, <3>3, <3>4 DEF TypeOK
  <2> QED
      BY <2>2, <2>3, <2>4, Steps
<1>2. routing' \in Configs /\ request' \in Requests
    BY Steps DEF RouterTypeOK
<1>3. /\ decision'.kind \in {"none", "explicit", "balanced", "not_found"}
      /\ decision'.model \in Names \cup Model \cup {NoName}
  <2>1. CASE decision' = decision
      BY <2>1 DEF RouterTypeOK
  <2>2. CASE decision' = NotFound
      BY <2>2 DEF NotFound, Decision
  <2>3. CASE decision' = Decision("explicit", request'.provider, request'.model)
    <3>1. {r.model : r \in Requests} \subseteq Names
        BY DEF Names
    <3>2. request'.model \in {r.model : r \in Requests}
        BY <1>2
    <3>3. decision'.kind = "explicit" /\ decision'.model = request'.model
        BY <2>3 DEF Decision
    <3> QED
        BY <3>1, <3>2, <3>3
  <2>4. CASE \E m \in Model : \E p : decision' = Decision("balanced", p, m)
      BY <2>4 DEF Decision
  <2> QED
      BY <2>1, <2>2, <2>3, <2>4, Steps
<1> QED
    BY <1>1, <1>2, <1>3 DEF RouterTypeOK

\* A model with providers of its own, when one of its own requests selects.
LEMMA OwnTurn ==
  ASSUME TypeOK, NEW m \in Model, Select(m), TotalEff(m) > 0,
         Balanced(Current(slots), Eff, Candidates(m)), Owed(slots, Picks(m), picks[m], m)
  PROVE  /\ Balanced(Current(slots'), Eff, Candidates(m))
         /\ Owed(slots', Picks(m)', picks'[m], m)
<1> DEFINE C == Candidates(m)
           T == TotalEff(m)
           c == Current(slots)
           d == Current(slots')
           r == [p \in Provider |-> c[p] + Eff[p]]
<1>1. PICK b \in C :
        /\ \A p \in C : c[p] + Eff[p] <= c[b] + Eff[b]
        /\ d \in [Provider -> Int] /\ d[b] = c[b] + Eff[b] - T
        /\ \A p \in C \ {b} : d[p] = c[p] + Eff[p]
        /\ picks' = [picks EXCEPT ![m][b] = @ + 1]
    BY SelectEffect
<1>2. /\ C \in SUBSET Provider /\ IsFiniteSet(C) /\ T = Total(Eff, C) /\ T \in Nat
      /\ Eff \in [Provider -> Nat]
    BY Weights
<1>3. c \in [Provider -> Int] /\ Picks(m) \in Nat /\ picks[m] \in [Provider -> Nat]
    BY Typed
<1>o. \A p \in C : c[p] = Picks(m) * Eff[p] - picks[m][p] * T
    BY DEF Owed
<1>d. Balanced(c, Eff, C) /\ T > 0
    OBVIOUS
<1>b. b \in C /\ b \in Provider
    BY <1>2
<1>4. /\ Picks(m)' = Picks(m) + 1 /\ picks'[m][b] = picks[m][b] + 1
      /\ \A p \in Provider \ {b} : picks'[m][p] = picks[m][p]
    BY <1>1, <1>b, PicksEffect
<1> HIDE DEF C, T, c, d
<1>5. /\ r \in [Provider -> Int] /\ \A p \in C : r[p] = c[p] + Eff[p]
      /\ d[b] = r[b] - T /\ (\A p \in C \ {b} : d[p] = r[p]) /\ \A p \in C : r[p] <= r[b]
    BY <1>1, <1>2, <1>3, <1>b
<1> HIDE DEF r
<1>6. Balanced(d, Eff, C)
    BY <1>1, <1>2, <1>3, <1>5, <1>d, Turn
<1>7. ASSUME NEW p \in C PROVE d[p] = (Picks(m) + 1) * Eff[p] - picks'[m][p] * T
  <2>1. /\ c[p] = Picks(m) * Eff[p] - picks[m][p] * T
        /\ Eff[p] \in Nat /\ picks[m][p] \in Nat /\ p \in Provider
      BY <1>2, <1>3, <1>o
  <2>2. (Picks(m) + 1) * Eff[p] = Picks(m) * Eff[p] + Eff[p]
      BY <1>3, <2>1
  <2>3. CASE p = b
    <3>1. d[p] = c[p] + Eff[p] - T /\ picks'[m][p] = picks[m][p] + 1
        BY <1>1, <1>4, <2>3
    <3>2. (picks[m][p] + 1) * T = picks[m][p] * T + T
        BY <1>2, <2>1
    <3>3. Picks(m) * Eff[p] \in Int /\ picks[m][p] * T \in Int
        BY <1>2, <1>3, <2>1
    <3> QED
        BY <1>2, <2>1, <2>2, <3>1, <3>2, <3>3
  <2>4. CASE p # b
    <3>1. d[p] = c[p] + Eff[p] /\ picks'[m][p] = picks[m][p]
        BY <1>1, <1>4, <2>1, <2>4
    <3>3. Picks(m) * Eff[p] \in Int /\ picks[m][p] * T \in Int
        BY <1>2, <1>3, <2>1
    <3> QED
        BY <1>2, <2>1, <2>2, <3>1, <3>3
  <2> QED
      BY <2>3, <2>4
<1>8. Owed(slots', Picks(m)', picks'[m], m)
    BY <1>4, <1>7 DEF Owed, C, T, d
<1> QED
    BY <1>6, <1>8 DEF C, d

\* A step that leaves the slots of the candidates and what they got alone.
LEMMA OthersTurn ==
  ASSUME NEW m \in Model, NEW s, NEW t, NEW n, NEW x,
         Current(s) \in [Provider -> Int], Current(t) \in [Provider -> Int],
         \A p \in Candidates(m) : Current(s)[p] = Current(t)[p],
         Balanced(Current(s), Eff, Candidates(m)), Owed(s, n, x, m)
  PROVE  Balanced(Current(t), Eff, Candidates(m)) /\ Owed(t, n, x, m)
<1>1. Candidates(m) \in SUBSET Provider /\ IsFiniteSet(Candidates(m))
    BY Weights
<1>2. Balanced(Current(t), Eff, Candidates(m))
    BY <1>1, BalancedSame
<1> QED
    BY <1>2 DEF Owed

LEMMA FairStep ==
  ASSUME RouterTypeOK, RouterTypeOK', Fair, [RouterNext]_routerVars
  PROVE  Fair'
<1> SUFFICES ASSUME NEW m \in Model, Apart(m), TotalEff(m) > 0
             PROVE  /\ Balanced(Current(slots'), Eff, Candidates(m))
                    /\ Owed(slots', Picks(m)', picks'[m], m)
    BY DEF Fair
<1>0. TypeOK /\ TypeOK'
    BY DEF RouterTypeOK
<1>1. Balanced(Current(slots), Eff, Candidates(m)) /\ Owed(slots, Picks(m), picks[m], m)
    BY DEF Fair
<1>2. CASE UNCHANGED <<slots, picks>>
  <2>1. Picks(m)' = Picks(m)
      BY <1>2 DEF Picks
  <2> QED
      BY <1>1, <1>2, <2>1
<1>3. ASSUME NEW p \in Provider, Register(p)
      PROVE  /\ Balanced(Current(slots'), Eff, Candidates(m))
             /\ Owed(slots', Picks(m)', picks'[m], m)
  <2>1. Current(slots') = Current(slots) /\ picks' = picks
      BY <1>0, <1>3, RegisterEffect
  <2>2. Picks(m)' = Picks(m)
      BY <2>1 DEF Picks
  <2> QED
      BY <1>1, <2>1, <2>2 DEF Owed
<1>4. CASE Select(m)
    BY <1>0, <1>1, <1>4, OwnTurn
<1>5. ASSUME NEW n \in Model \ {m}, Select(n)
      PROVE  /\ Balanced(Current(slots'), Eff, Candidates(m))
             /\ Owed(slots', Picks(m)', picks'[m], m)
  <2>1. PICK b \in Candidates(n) :
          /\ Current(slots') \in [Provider -> Int]
          /\ \A p \in Provider \ Candidates(n) : Current(slots')[p] = Current(slots)[p]
          /\ picks' = [picks EXCEPT ![n][b] = @ + 1]
      BY <1>0, <1>5, SelectEffect
  <2>2. b \in Provider /\ Candidates(m) \in SUBSET Provider
      BY Weights
  <2>3. picks'[m] = picks[m] /\ Picks(m)' = Picks(m)
      BY <1>0, <2>1, <2>2, PicksEffect
  <2>4. \A p \in Candidates(m) : Current(slots)[p] = Current(slots')[p]
      BY <2>1, <2>2 DEF Apart
  <2>5. Current(slots) \in [Provider -> Int]
      BY <1>0, Typed
  <2>6. Balanced(Current(slots'), Eff, Candidates(m)) /\ Owed(slots', Picks(m), picks[m], m)
      BY <1>1, <2>1, <2>4, <2>5, OthersTurn
  <2> QED
      BY <2>3, <2>6
<1> QED
    BY <1>2, <1>3, <1>4, <1>5, Steps

LEMMA LevelInit == RouterInit => SlotsLevel
<1> SUFFICES ASSUME RouterInit PROVE SlotsLevel
    OBVIOUS
<1>1. DOMAIN slots = {}
    BY DEF RouterInit, Init
<1>2. Current(slots) \in [Provider -> Int] /\ \A p \in Provider : Current(slots)[p] = 0
    BY <1>1 DEF Current
<1>3. IsFiniteSet(Provider) /\ LargestTurn \in Nat
    BY BalancerAssumption, HeaviestTurn
<1> QED
    BY <1>2, <1>3, LevelZero DEF SlotsLevel

LEMMA LevelStep ==
  ASSUME RouterTypeOK, SlotsLevel, [RouterNext]_routerVars
  PROVE  SlotsLevel'
<1>0. TypeOK
    BY DEF RouterTypeOK
<1>1. LargestTurn \in Nat /\ IsFiniteSet(Provider)
    BY BalancerAssumption, HeaviestTurn
<1>2. SlotsLevel' <=> Level(Current(slots'), Provider, LargestTurn)
    BY DEF SlotsLevel
<1>3. CASE UNCHANGED <<slots, picks>>
    BY <1>2, <1>3 DEF SlotsLevel
<1>4. ASSUME NEW p \in Provider, Register(p) PROVE SlotsLevel'
  <2>1. Current(slots') = Current(slots)
      BY <1>0, <1>4, RegisterEffect
  <2> QED
      BY <1>2, <2>1 DEF SlotsLevel
<1>5. ASSUME NEW m \in Model, Select(m) PROVE SlotsLevel'
  <2> DEFINE c == Current(slots)
             d == Current(slots')
             C == Candidates(m)
  <2>1. PICK b \in C :
          /\ \A p \in C : c[p] + Eff[p] <= c[b] + Eff[b]
          /\ d \in [Provider -> Int]
          /\ d[b] = c[b] + Eff[b] - TotalEff(m)
          /\ \A p \in C \ {b} : d[p] = c[p] + Eff[p]
          /\ \A p \in Provider \ C : d[p] = c[p]
      BY <1>0, <1>5, SelectEffect
  <2>2. /\ C \in SUBSET Provider /\ TotalEff(m) = Total(Eff, C)
        /\ Eff \in [Provider -> Nat]
      BY Weights
  <2>3. c \in [Provider -> Int]
      BY <1>0, Typed
  <2>4. Total(Eff, C) <= LargestTurn
      BY <2>2, HeaviestTurn
  <2>5. Level(c, Provider, LargestTurn)
      BY DEF SlotsLevel
  <2> HIDE DEF c, d, C
  <2>6. TurnOf(c, d, Eff, Provider, C, b)
      BY <2>1, <2>2 DEF TurnOf
  <2>7. Level(d, Provider, LargestTurn)
      BY <1>1, <2>1, <2>2, <2>3, <2>4, <2>5, <2>6, LevelTurn
  <2> QED
      BY <1>2, <2>7 DEF d
<1> QED
    BY <1>3, <1>4, <1>5, Steps

LEMMA InitIInv == RouterInit => IInv
<1> SUFFICES ASSUME RouterInit PROVE IInv
    OBVIOUS
<1>1. /\ DOMAIN slots = {} /\ picks = [m \in Model |-> [p \in Provider |-> 0]]
      /\ routing \in Configs /\ decision = Decision("none", NoName, NoName)
    BY DEF RouterInit, Init
<1>2. request \in Requests
    BY RouterAssumption DEF RouterInit
<1>3. ASSUME NEW m \in Model PROVE Picks(m) = 0
  <2> DEFINE z == picks[m]
  <2>1. /\ z \in [Provider -> Int] /\ IsFiniteSet(Provider) /\ Provider \in SUBSET Provider
        /\ \A p \in Provider : z[p] = 0
      BY <1>1, BalancerAssumption
  <2> HIDE DEF z
  <2>2. Total(z, Provider) = 0
      BY <2>1, TotalZero
  <2> QED
      BY <2>2 DEF Picks, z
<1>4. TypeOK
    BY <1>1, <1>3 DEF TypeOK
<1>5. RouterTypeOK
    BY <1>1, <1>2, <1>4 DEF RouterTypeOK, Decision
<1>6. ASSUME NEW m \in Model, TotalEff(m) > 0
      PROVE  /\ Balanced(Current(slots), Eff, Candidates(m))
             /\ Owed(slots, Picks(m), picks[m], m)
  <2>1. /\ Candidates(m) \in SUBSET Provider /\ IsFiniteSet(Candidates(m))
        /\ Eff \in [Provider -> Nat] /\ Total(Eff, Candidates(m)) > 0 /\ TotalEff(m) \in Nat
      BY <1>6, Weights
  <2>2. Current(slots) \in [Provider -> Int] /\ \A p \in Provider : Current(slots)[p] = 0
      BY <1>1 DEF Current
  <2>3. Balanced(Current(slots), Eff, Candidates(m))
      BY <2>1, <2>2, BalancedZero
  <2>4. ASSUME NEW p \in Candidates(m)
        PROVE  Current(slots)[p] = Picks(m) * Eff[p] - picks[m][p] * TotalEff(m)
    <3>1. p \in Provider /\ Eff[p] \in Nat /\ picks[m][p] = 0 /\ Picks(m) = 0
        BY <1>1, <1>3, <2>1
    <3> QED
        BY <2>1, <2>2, <3>1
  <2> QED
      BY <2>3, <2>4 DEF Owed
<1> QED
    BY <1>5, <1>6, LevelInit DEF IInv, Fair

LEMMA IInvStep == IInv /\ [RouterNext]_routerVars => IInv'
<1> SUFFICES ASSUME IInv, [RouterNext]_routerVars PROVE IInv'
    OBVIOUS
<1>1. RouterTypeOK /\ Fair /\ SlotsLevel
    BY DEF IInv
<1>2. RouterTypeOK'
    BY <1>1, TypeStep
<1>3. Fair'
    BY <1>1, <1>2, FairStep
<1>4. SlotsLevel'
    BY <1>1, LevelStep
<1> QED
    BY <1>2, <1>3, <1>4 DEF IInv

LEMMA Invariant == RouterSpec => []IInv
<1>1. RouterInit => IInv
    BY InitIInv
<1>2. IInv /\ [RouterNext]_routerVars => IInv'
    BY IInvStep
<1> QED
    BY <1>1, <1>2, PTL DEF RouterSpec

-----------------------------------------------------------------------------
(***************************************************************************)
(* The pass over the categories                                            *)
(***************************************************************************)

Numbers == [c \in DOMAIN Categories |-> c]

NoBest == [targets |-> <<>>, confidence |-> 0]
BestIs(score, c) == [targets |-> Categories[c], confidence |-> score[c]]

\* What is best, after one category more.
Pass(score, c, best) ==
  IF MoreConfident(score[c], best.confidence) THEN BestIs(score, c) ELSE best

Passes(f, score) ==
  f = [s \in SUBSET DOMAIN Numbers |->
         IF s = {} THEN NoBest ELSE Pass(score, Numbers[Max(s)], f[s \ {Max(s)}])]

LEMMA CategoryNumbers ==
  /\ Len(Categories) \in Nat /\ DOMAIN Numbers = 1..Len(Categories)
  /\ DOMAIN Categories = 1..Len(Categories) /\ \A c \in DOMAIN Categories : Numbers[c] = c
<1>1. DOMAIN Categories = 1..Len(Categories) /\ Len(Categories) \in Nat
    BY RouterAssumption
<1> QED
    BY <1>1 DEF Numbers

LEMMA PassExists ==
  ASSUME NEW score
  PROVE  \E f : Passes(f, score)
<1> DEFINE n == Len(Categories)
           V == {NoBest} \cup {BestIs(score, c) : c \in 1..n}
           f == [p \in (1..n) \X V |-> Pass(score, p[1], p[2])]
<1>1. n \in Nat /\ NoBest \in V
    BY CategoryNumbers
<1>2. ASSUME NEW c \in 1..n, NEW v \in V
      PROVE  Pass(score, c, v) \in V /\ <<c, v>> \in (1..n) \X V
  <2> HIDE DEF n
  <2>1. BestIs(score, c) \in V
      OBVIOUS
  <2> QED
      BY <2>1 DEF Pass
<1>3. f \in [(1..n) \X V -> V]
    BY <1>2
<1> HIDE DEF V
<1>4. \A c \in 1..n : \A v \in V : f[<<c, v>>] = Pass(score, c, v)
    BY <1>2
<1> HIDE DEF f, n
<1>5. PICK g : Folds(g, f, NoBest, n)
    BY <1>1, FoldExists
<1>6. ASSUME NEW s \in SUBSET (1..n)
      PROVE  g[s] = IF s = {} THEN NoBest ELSE Pass(score, Numbers[Max(s)], g[s \ {Max(s)}])
  <2>1. /\ s = {} => g[s] = NoBest
        /\ s # {} => /\ Max(s) \in s /\ g[s \ {Max(s)}] \in V
                     /\ g[s] = f[<<Max(s), g[s \ {Max(s)}]>>]
    <3>1. n \in Nat /\ NoBest \in V /\ f \in [(1..n) \X V -> V] /\ Folds(g, f, NoBest, n)
        BY <1>1, <1>3, <1>5
    <3> DEFINE base == NoBest
    <3> HIDE DEF base
    <3>2. n \in Nat /\ base \in V /\ f \in [(1..n) \X V -> V] /\ Folds(g, f, base, n)
        BY <3>1 DEF base
    <3>3. /\ s = {} => g[s] = base
          /\ s # {} => /\ Max(s) \in s /\ s \ {Max(s)} \in SUBSET (1..n)
                       /\ g[s \ {Max(s)}] \in V /\ g[s] = f[<<Max(s), g[s \ {Max(s)}]>>]
          /\ g[s] \in V
        BY <3>2, FoldStep
    <3> QED
        BY <3>3 DEF base
  <2>2. CASE s # {}
    <3>1. Max(s) \in 1..n
        BY <2>1, <2>2
    <3>2. Numbers[Max(s)] = Max(s)
        BY <3>1, CategoryNumbers DEF n
    <3> QED
        BY <1>4, <2>1, <2>2, <3>1, <3>2
  <2> QED
      BY <2>1, <2>2
<1>7. g = [s \in SUBSET (1..n) |-> g[s]]
    BY <1>5 DEF Folds
<1>8. Passes(g, score)
    BY <1>6, <1>7, CategoryNumbers DEF Passes, n
<1> QED
    BY <1>8

\* SemanticTargets returns what the pass over all categories found.
LEMMA SemanticPass ==
  ASSUME NEW req
  PROVE  \E f : Passes(f, req.score) /\ SemanticTargets(req) = f[DOMAIN Numbers].targets
<1>1. PICK f : Passes(f, req.score)
    BY PassExists
<1> QED
    BY <1>1 DEF SemanticTargets, FoldLeft, MapThenFoldSet, Passes, Pass, NoBest, BestIs,
                Numbers

Reaches(score, c) == score[c] >= Similar /\ score[c] > 0

\* Of the categories s none reaches the threshold, or best is one that does, and
\* none of them does better.
BestOf(best, score, s) ==
  \/ best = NoBest /\ \A c \in s : ~Reaches(score, c)
  \/ \E c \in s : /\ best = BestIs(score, c) /\ Reaches(score, c)
                  /\ \A d \in s : Reaches(score, d) => score[d] <= score[c]

LEMMA PassFindsBest ==
  ASSUME NEW score \in [DOMAIN Categories -> Nat], NEW f, Passes(f, score)
  PROVE  BestOf(f[DOMAIN Numbers], score, DOMAIN Numbers)
<1> DEFINE S == DOMAIN Numbers
           U == {s \in SUBSET S : BestOf(f[s], score, s)}
<1>0. /\ IsFiniteSet(S) /\ \A c \in S : score[c] \in Nat /\ Numbers[c] = c
      /\ Similar \in Nat
  <2>1. S = 1..Len(Categories) /\ S = DOMAIN Categories /\ Len(Categories) \in Nat
      BY CategoryNumbers
  <2>2. IsFiniteSet(S)
      BY <2>1, FS_Interval
  <2> HIDE DEF S
  <2> QED
      BY <2>1, <2>2, CategoryNumbers, RouterAssumption
<1>f. \A s \in SUBSET S : f[s] = IF s = {} THEN NoBest
                                  ELSE Pass(score, Numbers[Max(s)], f[s \ {Max(s)}])
    BY DEF Passes
<1>m. \A s \in SUBSET S : s # {} => Max(s) \in s
    BY CategoryNumbers, LastOne
<1> HIDE DEF S
<1>1. ASSUME NEW s \in SUBSET S, \A t \in SUBSET s : t # s => t \in U
      PROVE  s \in U
  <2>1. CASE s = {}
      BY <1>f, <2>1 DEF BestOf
  <2>2. CASE s # {}
    <3> DEFINE x == Max(s)
               t == s \ {x}
               b == f[t]
    <3>1. x \in s /\ x \in S /\ t \in SUBSET s /\ t # s
        BY <1>m, <2>2
    <3>2. t \in U
        BY <1>1, <3>1
    <3>3. BestOf(b, score, t)
        BY <3>2
    <3>4. f[s] = IF MoreConfident(score[x], b.confidence) THEN BestIs(score, x) ELSE b
        BY <1>0, <1>f, <2>2, <3>1 DEF Pass
    <3>5. s = t \cup {x}
        BY <3>1
    <3>6. score[x] \in Nat /\ \A c \in t : score[c] \in Nat
        BY <1>0, <3>1
    <3> HIDE DEF x, t, b
    <3>7. CASE b = NoBest /\ \A c \in t : ~Reaches(score, c)
      <4>1. b.confidence = 0
          BY <3>7 DEF NoBest
      <4>2. CASE Reaches(score, x)
        <5>1. f[s] = BestIs(score, x)
            BY <3>4, <4>1, <4>2 DEF MoreConfident, Reaches
        <5>2. \A d \in s : Reaches(score, d) => score[d] <= score[x]
            BY <3>5, <3>6, <3>7
        <5> QED
            BY <3>1, <4>2, <5>1, <5>2 DEF BestOf
      <4>3. CASE ~Reaches(score, x)
        <5>1. f[s] = b
            BY <3>4, <4>1, <4>3 DEF MoreConfident, Reaches
        <5>2. \A d \in s : ~Reaches(score, d)
            BY <3>5, <3>7, <4>3
        <5> QED
            BY <3>7, <5>1, <5>2 DEF BestOf
      <4> QED
          BY <4>2, <4>3
    <3>8. ASSUME NEW c \in t, b = BestIs(score, c), Reaches(score, c),
                 \A d \in t : Reaches(score, d) => score[d] <= score[c]
          PROVE  s \in U
      <4>1. b.confidence = score[c]
          BY <3>8 DEF BestIs
      <4>2. CASE MoreConfident(score[x], score[c])
        <5>1. f[s] = BestIs(score, x)
            BY <3>4, <4>1, <4>2
        <5>2. Reaches(score, x) /\ score[c] <= score[x]
            BY <3>6, <4>2 DEF MoreConfident, Reaches
        <5>3. \A d \in s : Reaches(score, d) => score[d] <= score[x]
            BY <3>5, <3>6, <3>8, <5>2
        <5> QED
            BY <3>1, <5>1, <5>2, <5>3 DEF BestOf
      <4>3. CASE ~MoreConfident(score[x], score[c])
        <5>1. f[s] = b
            BY <3>4, <4>1, <4>3
        <5>2. Reaches(score, x) => score[x] <= score[c]
            BY <3>6, <4>3 DEF MoreConfident, Reaches
        <5>3. \A d \in s : Reaches(score, d) => score[d] <= score[c]
            BY <3>5, <3>8, <5>2
        <5>4. c \in s
            BY <3>5
        <5> QED
            BY <3>8, <5>1, <5>3, <5>4 DEF BestOf
      <4> QED
          BY <4>2, <4>3
    <3> QED
        BY <3>3, <3>7, <3>8 DEF BestOf
  <2> QED
      BY <2>1, <2>2
<1> HIDE DEF U
<1>2. S \in U
    BY <1>0, <1>1, SubsetInductive
<1> QED
    BY <1>2 DEF U, S

(***************************************************************************)
(* The loops of Route                                                      *)
(***************************************************************************)

\* The loop of FirstFound, over the places s of the names.
Loops(f, names) ==
  f = [s \in SUBSET DOMAIN names |->
         IF s = {} THEN NoName
         ELSE IF f[s \ {Max(s)}] # NoName THEN f[s \ {Max(s)}] ELSE names[Max(s)]]

LEMMA LoopExists ==
  ASSUME NEW n \in Nat, NEW names, DOMAIN names = 1..n
  PROVE  \E f : Loops(f, names)
<1> DEFINE V == {NoName} \cup {names[i] : i \in 1..n}
           f == [p \in (1..n) \X V |-> IF p[2] # NoName THEN p[2] ELSE names[p[1]]]
           base == NoName
<1>1. n \in Nat /\ base \in V
    OBVIOUS
<1>2. ASSUME NEW i \in 1..n, NEW v \in V
      PROVE  /\ names[i] \in V /\ <<i, v>> \in (1..n) \X V
             /\ (IF v # NoName THEN v ELSE names[i]) \in V
    OBVIOUS
<1>3. f \in [(1..n) \X V -> V]
    BY <1>2
<1> HIDE DEF V
<1>4. \A i \in 1..n : \A v \in V : f[<<i, v>>] = IF v # NoName THEN v ELSE names[i]
    BY <1>2
<1> HIDE DEF f, base
<1>5. PICK g : Folds(g, f, base, n)
    BY <1>1, FoldExists
<1>6. ASSUME NEW s \in SUBSET (1..n)
      PROVE  g[s] = IF s = {} THEN NoName
                    ELSE IF g[s \ {Max(s)}] # NoName THEN g[s \ {Max(s)}] ELSE names[Max(s)]
  <2>1. /\ s = {} => g[s] = base
        /\ s # {} => /\ Max(s) \in s /\ s \ {Max(s)} \in SUBSET (1..n)
                     /\ g[s \ {Max(s)}] \in V /\ g[s] = f[<<Max(s), g[s \ {Max(s)}]>>]
        /\ g[s] \in V
      BY <1>1, <1>3, <1>5, FoldStep
  <2>2. CASE s # {}
    <3>1. Max(s) \in 1..n
        BY <2>1, <2>2
    <3> QED
        BY <1>4, <2>1, <2>2, <3>1
  <2> QED
      BY <2>1, <2>2 DEF base
<1>7. g = [s \in SUBSET (1..n) |-> g[s]]
    BY <1>5 DEF Folds
<1>8. Loops(g, names)
    BY <1>6, <1>7 DEF Loops
<1> QED
    BY <1>8

\* Either all names are empty, or found is the first that is not.
FirstOf(found, names, s) ==
  \/ found = NoName /\ \A i \in s : names[i] = NoName
  \/ \E i \in s : /\ found = names[i] /\ names[i] # NoName
                  /\ \A k \in s : k < i => names[k] = NoName

LEMMA FirstIsFound ==
  ASSUME NEW n \in Nat, NEW names, DOMAIN names = 1..n
  PROVE  FirstOf(FirstFound(names), names, 1..n)
<1>l. PICK g : Loops(g, names)
    BY LoopExists
<1>1. PICK f : Loops(f, names) /\ FirstFound(names) = f[DOMAIN names]
    BY <1>l DEF FirstFound, FoldLeft, MapThenFoldSet, Loops
<1> DEFINE S == 1..n
           U == {s \in SUBSET S : FirstOf(f[s], names, s)}
<1>f. \A s \in SUBSET S :
        f[s] = IF s = {} THEN NoName
               ELSE IF f[s \ {Max(s)}] # NoName THEN f[s \ {Max(s)}] ELSE names[Max(s)]
    BY <1>1 DEF Loops
<1>m. \A s \in SUBSET S : /\ s # {} => Max(s) \in s /\ \A z \in s : z <= Max(s)
                          /\ \A z \in s : z \in Nat
  <2> SUFFICES ASSUME NEW s \in SUBSET S
               PROVE  /\ s # {} => Max(s) \in s /\ \A z \in s : z <= Max(s)
                      /\ \A z \in s : z \in Nat
      OBVIOUS
  <2>1. s # {} => Max(s) \in s /\ \A z \in s : z <= Max(s)
      BY LastOne
  <2> QED
      BY <2>1
<1>0. IsFiniteSet(S)
    BY FS_Interval
<1> HIDE DEF S
<1>3. ASSUME NEW s \in SUBSET S, \A t \in SUBSET s : t # s => t \in U
      PROVE  s \in U
  <2>1. CASE s = {}
      BY <1>f, <2>1 DEF FirstOf
  <2>2. CASE s # {}
    <3> DEFINE x == Max(s)
               t == s \ {x}
               b == f[t]
    <3>1. x \in s /\ t \in SUBSET s /\ t # s /\ \A z \in s : z <= x /\ z \in Nat
        BY <1>m, <2>2
    <3>2. t \in U
        BY <1>3, <3>1
    <3>3. FirstOf(b, names, t)
        BY <3>2
    <3>4. f[s] = IF b # NoName THEN b ELSE names[x]
        BY <1>f, <2>2
    <3>5. s = t \cup {x}
        BY <3>1
    <3> HIDE DEF x, t, b
    <3>6. CASE b = NoName /\ \A i \in t : names[i] = NoName
      <4>1. f[s] = names[x]
          BY <3>4, <3>6
      <4>2. CASE names[x] = NoName
        <5>1. \A i \in s : names[i] = NoName
            BY <3>5, <3>6, <4>2
        <5> QED
            BY <4>1, <4>2, <5>1 DEF FirstOf
      <4>3. CASE names[x] # NoName
        <5>1. \A k \in s : k < x => names[k] = NoName
          <6> TAKE k \in s
          <6> HAVE k < x
          <6>1. k # x
              BY <3>1
          <6> QED
              BY <3>5, <3>6, <6>1
        <5> QED
            BY <3>1, <4>1, <4>3, <5>1 DEF FirstOf
      <4> QED
          BY <4>2, <4>3
    <3>7. ASSUME NEW i \in t, b = names[i], names[i] # NoName,
                 \A k \in t : k < i => names[k] = NoName
          PROVE  s \in U
      <4>1. f[s] = names[i] /\ i \in s
          BY <3>4, <3>5, <3>7
      <4>2. \A k \in s : k < i => names[k] = NoName
        <5> TAKE k \in s
        <5> HAVE k < i
        <5>1. i <= x /\ i \in Nat /\ k \in Nat /\ x \in Nat
            BY <3>1, <4>1
        <5>2. k # x
            BY <5>1
        <5> QED
            BY <3>5, <3>7, <5>2
      <4> QED
          BY <3>7, <4>1, <4>2 DEF FirstOf
    <3> QED
        BY <3>3, <3>6, <3>7 DEF FirstOf
  <2> QED
      BY <2>1, <2>2
<1> HIDE DEF U
<1>4. S \in U
    BY <1>0, <1>3, SubsetInductive
<1> QED
    BY <1>1, <1>4 DEF U, S

\* The first served model of a list.
LEMMA FirstServedIs ==
  ASSUME NEW list \in Seq(STRING)
  PROVE  \/ FirstServed(list) = NoName /\ \A j \in DOMAIN list : list[j] \notin Model
         \/ \E j \in DOMAIN list : /\ FirstServed(list) = list[j] /\ list[j] \in Model
                                   /\ \A k \in 1..j - 1 : list[k] \notin Model
<1> DEFINE n == Len(list)
           D == DOMAIN list
           names == [j \in D |-> IF list[j] \in Model THEN list[j] ELSE NoName]
           found == FirstServed(list)
<1>1. n \in Nat /\ D = 1..n
    OBVIOUS
<1>2. /\ DOMAIN names = D
      /\ \A j \in D : names[j] = IF list[j] \in Model THEN list[j] ELSE NoName
    OBVIOUS
<1>3. found = FirstFound(names)
    BY DEF FirstServed
<1>4. NoName \notin Model
    BY RouterAssumption
<1> HIDE DEF n, D, names, found
<1>5. FirstOf(found, names, D)
    BY <1>1, <1>2, <1>3, FirstIsFound
<1>6. \A j \in D : (names[j] # NoName <=> list[j] \in Model)
                   /\ (names[j] # NoName => names[j] = list[j])
    BY <1>2, <1>4
<1>7. CASE found = NoName /\ \A j \in D : names[j] = NoName
    BY <1>6, <1>7 DEF D, found
<1>8. ASSUME NEW j \in D, found = names[j], names[j] # NoName,
             \A k \in D : k < j => names[k] = NoName
      PROVE  /\ found = list[j] /\ list[j] \in Model
             /\ \A k \in 1..j - 1 : list[k] \notin Model
  <2>1. ASSUME NEW k \in 1..j - 1 PROVE list[k] \notin Model
    <3>1. k \in D /\ k < j
        BY <1>1, <1>8
    <3> QED
        BY <1>6, <1>8, <3>1
  <2> QED
      BY <1>6, <1>8, <2>1
<1> QED
    BY <1>5, <1>7, <1>8 DEF FirstOf, D, found

\* The lists with the configuration as a parameter.
ChainOf(r, name) == IF name \in DOMAIN r.cascade THEN r.cascade[name] ELSE <<>>

TargetsOf(r, strategy, req) ==
  CASE strategy = "capability"   -> CapabilityTargets(req)
    [] strategy = "semantic"     -> SemanticTargets(req)
    [] strategy = "cost_cascade" -> IF ChainOf(r, req.model) # <<>> THEN ChainOf(r, req.model)
                                                                   ELSE ChainOf(r, "default")
    [] OTHER                     -> <<>>

ListsOf(r, req) ==
  [i \in DOMAIN r.strategies |-> TargetsOf(r, r.strategies[i], req)]
    \o <<ChainOf(r, "default"), <<req.model>>>>

NameList == Seq(STRING)
Has(list) == \E j \in DOMAIN list : list[j] \in Model
RoutedTo(ls) == FirstFound([i \in DOMAIN ls |-> FirstServed(ls[i])])

LEMMA ListsAre == ASSUME NEW req PROVE Lists(req) = ListsOf(routing, req)
  BY DEF Lists, ListsOf, Targets, TargetsOf, CascadeFor, Chain, ChainOf

LEMMA CapabilityTyped ==
  ASSUME NEW req
  PROVE  CapabilityTargets(req) \in NameList
<1> DEFINE D == DOMAIN Rules
           matching == {i \in D : MatchesRule(Rules[i], req)}
           n == Len(Rules)
<1>1. n \in Nat /\ D = 1..n /\ \A i \in D : Rules[i].targets \in NameList
    BY RouterAssumption DEF NameList
<1>2. <<>> \in NameList
    BY DEF NameList
<1>3. matching \subseteq 1..n
    BY <1>1
<1>4. matching # {} => Min(matching) \in matching
  <2> HIDE DEF matching, n
  <2> SUFFICES ASSUME matching # {} PROVE Min(matching) \in matching
      OBVIOUS
  <2>1. matching \subseteq Nat
      BY <1>1, <1>3
  <2>2. PICK x \in matching : \A y \in matching : ~(y < x)
      BY <2>1, NatMin
  <2>3. \A y \in matching : x <= y
      BY <2>1, <2>2
  <2> QED
      BY <2>3 DEF Min
<1>5. matching # {} => Min(matching) \in D
  <2> HIDE DEF n
  <2> QED
      BY <1>4
<1> HIDE DEF D, n
<1> QED
    BY <1>1, <1>2, <1>5 DEF CapabilityTargets, D

LEMMA SemanticTyped ==
  ASSUME NEW req \in Requests
  PROVE  SemanticTargets(req) \in NameList
<1>1. PICK f : /\ Passes(f, req.score)
               /\ SemanticTargets(req) = f[DOMAIN Numbers].targets
    BY SemanticPass
<1>2. req.score \in [DOMAIN Categories -> Nat]
    BY RouterAssumption
<1>3. BestOf(f[DOMAIN Numbers], req.score, DOMAIN Numbers)
  <2> DEFINE score == req.score
  <2>1. score \in [DOMAIN Categories -> Nat] /\ Passes(f, score)
      BY <1>1, <1>2
  <2> HIDE DEF score
  <2>2. BestOf(f[DOMAIN Numbers], score, DOMAIN Numbers)
      BY <2>1, PassFindsBest
  <2> QED
      BY <2>2 DEF score
<1>4. DOMAIN Numbers = DOMAIN Categories
    BY CategoryNumbers
<1>5. \A c \in DOMAIN Categories : Categories[c] \in NameList
    BY RouterAssumption DEF NameList
<1>6. <<>> \in NameList
    BY DEF NameList
<1>7. CASE f[DOMAIN Numbers] = NoBest
  <2>1. SemanticTargets(req) = <<>>
      BY <1>1, <1>7 DEF NoBest
  <2> QED
      BY <1>6, <2>1
<1>8. ASSUME NEW c \in DOMAIN Numbers, f[DOMAIN Numbers] = BestIs(req.score, c)
      PROVE  SemanticTargets(req) \in NameList
  <2>1. SemanticTargets(req) = Categories[c]
      BY <1>1, <1>8 DEF BestIs
  <2> QED
      BY <1>4, <1>5, <2>1
<1> QED
    BY <1>3, <1>7, <1>8 DEF BestOf

LEMMA ListsTyped ==
  ASSUME NEW r \in Configs, NEW req \in Requests
  PROVE  ListsOf(r, req) \in Seq(NameList)
<1>1. \A name : ChainOf(r, name) \in NameList
  <2>1. \A m \in DOMAIN r.cascade : r.cascade[m] \in NameList
      BY RouterAssumption DEF NameList
  <2>2. <<>> \in NameList
      BY DEF NameList
  <2> QED
      BY <2>1, <2>2 DEF ChainOf
<1>2. CapabilityTargets(req) \in NameList /\ SemanticTargets(req) \in NameList
    BY CapabilityTyped, SemanticTyped
<1>3. <<>> \in NameList /\ <<req.model>> \in NameList
    BY RouterAssumption DEF NameList
<1>4. ASSUME NEW s PROVE TargetsOf(r, s, req) \in NameList
    BY <1>1, <1>2, <1>3 DEF TargetsOf
<1> DEFINE st == r.strategies
           a == [i \in DOMAIN st |-> TargetsOf(r, st[i], req)]
           b == <<ChainOf(r, "default"), <<req.model>>>>
<1>5. DOMAIN st = 1..Len(st) /\ Len(st) \in Nat
  <2>1. st \in Seq(STRING)
      BY RouterAssumption
  <2> HIDE DEF st
  <2> QED
      BY <2>1
<1> HIDE DEF st
<1>6. a \in Seq(NameList)
  <2>1. \A i \in 1..Len(st) : TargetsOf(r, st[i], req) \in NameList
      BY <1>4
  <2> DEFINE NL == NameList
             t(i) == TargetsOf(r, st[i], req)
  <2>2. a = [i \in 1..Len(st) |-> t(i)]
      BY <1>5
  <2> HIDE DEF NL, t
  <2>3. \A i \in 1..Len(st) : t(i) \in NL
      BY <2>1 DEF t, NL
  <2>4. [i \in 1..Len(st) |-> t(i)] \in Seq(NL)
      BY <1>5, <2>3
  <2> QED
      BY <2>2, <2>4 DEF NL
<1>7. b \in Seq(NameList)
  <2> DEFINE NL == NameList
             x == ChainOf(r, "default")
             y == <<req.model>>
  <2>1. x \in NL /\ y \in NL
      BY <1>1, <1>3
  <2> HIDE DEF NL, x, y
  <2>2. <<x, y>> \in Seq(NL)
      BY <2>1
  <2> QED
      BY <2>2 DEF NL, x, y
<1> HIDE DEF a, b
<1>8. a \o b \in Seq(NameList)
    BY <1>6, <1>7
<1> QED
    BY <1>8 DEF ListsOf, a, b, st

\* The first served model of the first list that has one.
LEMMA RoutedIs ==
  ASSUME NEW ls \in Seq(NameList)
  PROVE  \/ RoutedTo(ls) = NoName /\ \A i \in DOMAIN ls : ~Has(ls[i])
         \/ \E i \in DOMAIN ls : \E j \in DOMAIN ls[i] :
              /\ RoutedTo(ls) = ls[i][j] /\ ls[i][j] \in Model
              /\ \A k \in 1..j - 1 : ls[i][k] \notin Model
              /\ \A k \in 1..i - 1 : ~Has(ls[k])
<1> DEFINE n == Len(ls)
           D == DOMAIN ls
           names == [i \in D |-> FirstServed(ls[i])]
           found == RoutedTo(ls)
<1>1. n \in Nat /\ D = 1..n /\ \A i \in D : ls[i] \in NameList
    OBVIOUS
<1>2. DOMAIN names = D /\ \A i \in D : names[i] = FirstServed(ls[i])
    OBVIOUS
<1>3. found = FirstFound(names)
    BY DEF RoutedTo
<1>4. NoName \notin Model
    BY RouterAssumption
<1> HIDE DEF n, D, names, found
<1>5. FirstOf(found, names, D)
    BY <1>1, <1>2, <1>3, FirstIsFound
<1>6. ASSUME NEW i \in D
      PROVE  /\ names[i] = NoName => ~Has(ls[i])
             /\ names[i] # NoName =>
                  \E j \in DOMAIN ls[i] : /\ names[i] = ls[i][j] /\ ls[i][j] \in Model
                                          /\ \A k \in 1..j - 1 : ls[i][k] \notin Model
  <2> DEFINE list == ls[i]
  <2>1. list \in Seq(STRING) /\ names[i] = FirstServed(list)
      BY <1>1, <1>2 DEF NameList
  <2> HIDE DEF list
  <2>2. \/ FirstServed(list) = NoName /\ \A j \in DOMAIN list : list[j] \notin Model
        \/ \E j \in DOMAIN list : /\ FirstServed(list) = list[j] /\ list[j] \in Model
                                  /\ \A k \in 1..j - 1 : list[k] \notin Model
      BY <2>1, FirstServedIs
  <2>3. /\ names[i] = NoName => ~Has(list)
        /\ names[i] # NoName =>
             \E j \in DOMAIN list : /\ names[i] = list[j] /\ list[j] \in Model
                                    /\ \A k \in 1..j - 1 : list[k] \notin Model
      BY <1>4, <2>1, <2>2, Zenon DEF Has
  <2> QED
      BY <2>3 DEF list
<1>7. CASE found = NoName /\ \A i \in D : names[i] = NoName
    BY <1>6, <1>7 DEF D, found
<1>8. ASSUME NEW i \in D, found = names[i], names[i] # NoName,
             \A k \in D : k < i => names[k] = NoName
      PROVE  \E j \in DOMAIN ls[i] :
               /\ found = ls[i][j] /\ ls[i][j] \in Model
               /\ \A k \in 1..j - 1 : ls[i][k] \notin Model
               /\ \A k \in 1..i - 1 : ~Has(ls[k])
  <2>1. ASSUME NEW k \in 1..i - 1 PROVE ~Has(ls[k])
    <3>1. k \in D /\ k < i
        BY <1>1, <1>8
    <3> QED
        BY <1>6, <1>8, <3>1
  <2>2. PICK j \in DOMAIN ls[i] : /\ names[i] = ls[i][j] /\ ls[i][j] \in Model
                                  /\ \A k \in 1..j - 1 : ls[i][k] \notin Model
      BY <1>6, <1>8
  <2> QED
      BY <1>8, <2>1, <2>2
<1> QED
    BY <1>5, <1>7, <1>8, Zenon DEF FirstOf, D, found

\* FirstServedWins of the lists ls and the decision d.
Wins(ls, d) ==
  /\ d.kind = "not_found" => \A i \in DOMAIN ls : ~Has(ls[i])
  /\ d.kind = "balanced" =>
       \E i \in DOMAIN ls : \E j \in DOMAIN ls[i] :
         /\ d.model = ls[i][j] /\ d.provider \in Candidates(d.model)
         /\ \A k \in 1..j - 1 : ls[i][k] \notin Model
         /\ \A k \in 1..i - 1 : ~Has(ls[k])

LEMMA WinsIs == FirstServedWins <=> Wins(ListsOf(routing, request), decision)
<1>1. Lists(request) = ListsOf(routing, request)
    BY ListsAre
<1> DEFINE ls == ListsOf(routing, request)
<1> HIDE DEF ls
<1>2. Lists(request) = ls
    BY <1>1 DEF ls
<1>3. FirstServedWins <=> Wins(ls, decision)
  <2>1. CASE decision.kind = "not_found"
      BY <1>2, <2>1 DEF FirstServedWins, Wins, Has
  <2>2. CASE decision.kind = "balanced"
      BY <1>2, <2>2 DEF FirstServedWins, Wins, Has
  <2>3. CASE decision.kind # "not_found" /\ decision.kind # "balanced"
      BY <2>3 DEF FirstServedWins, Wins
  <2> QED
      BY <2>1, <2>2, <2>3
<1> QED
    BY <1>3 DEF ls

-----------------------------------------------------------------------------
(***************************************************************************)
(* Theorems                                                                *)
(***************************************************************************)

\* Slots are integers, and there is one for every candidate of a model that has been
\* asked for; what Route returns is a model of the configuration, of the registry or
\* of the request.
THEOREM TypeCorrect == RouterSpec => []RouterTypeOK
<1>1. IInv => RouterTypeOK
    BY DEF IInv
<1> QED
    BY <1>1, Invariant, PTL

\* After a whole number of turns nobody is owed anything: nobody has lost a turn, so
\* nobody is behind, and together they are owed nothing.
LEMMA WholeTurns ==
  ASSUME NEW P, NEW c \in [P -> Int], NEW C \in SUBSET P, IsFiniteSet(C), Total(c, C) = 0,
         NEW T \in Nat, T > 0, NEW a \in [P -> Int],
         \A p \in C : c[p] > -T /\ c[p] = a[p] * T
  PROVE  \A p \in C : c[p] = 0
<1>1. ASSUME NEW p \in C PROVE c[p] >= 0
  <2>1. a[p] \in Int /\ a[p] * T > -T
      BY <1>1
  <2>2. a[p] > -1
    <3> SUFFICES ASSUME a[p] <= -1 PROVE FALSE
        BY <2>1
    <3> DEFINE b == -1 - a[p]
    <3>1. b \in Nat /\ a[p] = -1 - b
        BY <2>1
    <3> HIDE DEF b
    <3>2. a[p] * T = -T - b * T /\ b * T \in Nat
        BY <3>1
    <3> QED
        BY <2>1, <3>2
  <2>3. a[p] * T >= 0
      BY <2>1, <2>2
  <2> QED
      BY <2>3
<1> DEFINE e == [p \in P |-> IF p \in C THEN c[p] ELSE 0]
<1>2. e \in [P -> Nat] /\ e \in [P -> Int] /\ \A p \in C : e[p] = c[p]
    BY <1>1
<1> HIDE DEF e
<1>3. Total(e, C) = 0
    BY <1>2, TotalSame
<1> TAKE p \in C
<1>4. {p} \in SUBSET C /\ p \in P
    OBVIOUS
<1>5. Total(e, {p}) <= 0
    BY <1>2, <1>3, <1>4, TotalSubset
<1>6. Total(e, {p}) = e[p]
    BY <1>2, <1>4, TotalOne
<1> QED
    BY <1>1, <1>2, <1>4, <1>5, <1>6

LEMMA Multiple ==
  ASSUME NEW n \in Nat, NEW T \in Nat, T > 0, n % T = 0
  PROVE  \E q \in Int : n = T * q
<1>1. n \div T \in Int
    OBVIOUS
<1>2. n = T * (n \div T)
    OBVIOUS
<1> QED
    BY <1>1, <1>2

\* Smooth weighted round-robin is fair, for any weights and any number of providers
\* and models, as long as a model shares no provider: no provider is ever a whole turn
\* ahead of its share, none is behind by more turns than a third of the number of
\* candidates, and after a whole cycle each has had exactly its share.
THEOREM EveryProviderItsShare == RouterSpec => []FairShare
<1>1. ASSUME IInv PROVE FairShare
  <2> SUFFICES ASSUME NEW m \in Model, Apart(m), TotalEff(m) > 0, NEW p \in Candidates(m)
               PROVE  LET ahead == picks[m][p] * TotalEff(m) - Picks(m) * EffectiveWeight(p)
                      IN  /\ ahead < TotalEff(m)
                          /\ 6 * ahead >= -((2 * Cardinality(Candidates(m)) - 1) * TotalEff(m))
                          /\ Picks(m) % TotalEff(m) = 0 => ahead = 0
      BY DEF FairShare
  <2> DEFINE C == Candidates(m)
             T == TotalEff(m)
             c == Current(slots)
             n == Picks(m)
             k == Cardinality(C)
  <2>1. Balanced(c, Eff, C) /\ Owed(slots, n, picks[m], m) /\ TypeOK
      BY <1>1 DEF IInv, Fair, RouterTypeOK
  <2>2. /\ C \in SUBSET Provider /\ IsFiniteSet(C) /\ T = Total(Eff, C) /\ T \in Nat
        /\ Eff \in [Provider -> Nat] /\ T > 0 /\ p \in C /\ Eff[p] = EffectiveWeight(p)
        /\ p \in Provider
      BY Weights
  <2>3. c \in [Provider -> Int] /\ n \in Nat /\ picks[m] \in [Provider -> Nat]
      BY <2>1, Typed
  <2>4. /\ Total(c, C) = 0 /\ (\A q \in C : c[q] > -T)
        /\ \A q \in C : 6 * c[q] <= (2 * k - 1) * T
      BY <2>1, <2>2 DEF Balanced
  <2>5. \A q \in C : c[q] = n * Eff[q] - picks[m][q] * T
      BY <2>1 DEF Owed
  <2>k. k \in Nat
      BY <2>2, FS_CardinalityType
  <2> HIDE DEF C, T, c, n, k
  <2> DEFINE x == picks[m][p] * T
             y == n * Eff[p]
  <2>6. x \in Int /\ y \in Int /\ c[p] = y - x /\ (2 * k - 1) * T \in Int
      BY <2>2, <2>3, <2>5, <2>k
  <2> HIDE DEF x, y
  <2>7. x - y < T /\ 6 * (x - y) >= -((2 * k - 1) * T)
    <3>1. c[p] > -T /\ 6 * c[p] <= (2 * k - 1) * T
        BY <2>2, <2>4
    <3> QED
        BY <2>2, <2>6, <3>1
  <2>8. ASSUME n % T = 0 PROVE x - y = 0
    <3>1. PICK q \in Int : n = q * T
      <4>1. \E q \in Int : n = T * q
          BY <2>2, <2>3, <2>8, Multiple
      <4> QED
          BY <2>2, <4>1
    <3> DEFINE a == [r \in Provider |-> q * Eff[r] - picks[m][r]]
    <3>2. a \in [Provider -> Int] /\ \A r \in Provider : a[r] = q * Eff[r] - picks[m][r]
        BY <2>2, <2>3
    <3> HIDE DEF a
    <3>3. ASSUME NEW r \in C PROVE c[r] = a[r] * T
      <4>1. r \in Provider /\ Eff[r] \in Nat /\ picks[m][r] \in Nat
          BY <2>2, <2>3
      <4>2. c[r] = (q * T) * Eff[r] - picks[m][r] * T
          BY <2>5, <3>1
      <4>3. (q * T) * Eff[r] - picks[m][r] * T = (q * Eff[r] - picks[m][r]) * T
          BY <2>2, <4>1
      <4> QED
          BY <3>2, <4>1, <4>2, <4>3
    <3>4. \A r \in C : c[r] > -T /\ c[r] = a[r] * T
        BY <2>4, <3>3
    <3>5. \A r \in C : c[r] = 0
      <4>1. c \in [Provider -> Int] /\ a \in [Provider -> Int] /\ C \in SUBSET Provider
          BY <2>2, <2>3, <3>2
      <4>2. IsFiniteSet(C) /\ Total(c, C) = 0 /\ T \in Nat /\ T > 0
          BY <2>2, <2>4
      <4> QED
          BY <3>4, <4>1, <4>2, WholeTurns
    <3> QED
        BY <2>2, <2>6, <3>5
  <2> QED
      BY <2>2, <2>7, <2>8 DEF x, y, T, n, k, C
<1> QED
    BY <1>1, Invariant, PTL

\* Whatever the models share, however many there are and however long requests are
\* routed, no slot runs away: it stays within one turn of the heaviest model for every
\* other provider, above and below.
THEOREM NoSlotRunsAway == RouterSpec => []SlotsStayBounded
<1>1. IInv => SlotsStayBounded
  <2> SUFFICES ASSUME IInv, NEW p \in DOMAIN slots
               PROVE  /\ -((Cardinality(Provider) - 1) * LargestTurn) <= slots[p]
                      /\ slots[p] <= (Cardinality(Provider) - 1) * LargestTurn
      BY DEF SlotsStayBounded
  <2>1. /\ Current(slots) \in [Provider -> Int] /\ p \in Provider
        /\ Current(slots)[p] = slots[p]
      BY Typed DEF IInv, RouterTypeOK
  <2>2. IsFiniteSet(Provider) /\ LargestTurn \in Nat
      BY BalancerAssumption, HeaviestTurn
  <2>3. Level(Current(slots), Provider, LargestTurn)
      BY DEF IInv, SlotsLevel
  <2>4. /\ -((Cardinality(Provider) - 1) * LargestTurn) <= Current(slots)[p]
        /\ Current(slots)[p] <= (Cardinality(Provider) - 1) * LargestTurn
      BY <2>1, <2>2, <2>3, LevelBounds
  <2> QED
      BY <2>1, <2>4
<1> QED
    BY <1>1, Invariant, PTL

\* A request is routed to the first served model of the first list that has one, and
\* routing fails only when no list has any, whatever the strategies, their lists and
\* the registry are.
THEOREM TheFirstServedWins == RouterSpec => []FirstServedWins
<1> DEFINE Inv == Wins(ListsOf(routing, request), decision)
<1>1. RouterInit => Inv
    BY DEF RouterInit, Wins, Decision
<1>2. ASSUME IInv, Inv, [RouterNext]_routerVars PROVE Inv'
  <2>0. TypeOK /\ routing \in Configs
      BY <1>2 DEF IInv, RouterTypeOK
  <2>i. Inv' <=> Wins(ListsOf(routing', request'), decision')
      OBVIOUS
  <2>1. CASE UNCHANGED <<routing, request, decision>>
      BY <1>2, <2>1
  <2>2. ASSUME NEW req \in Requests, RouteExplicit(req) PROVE Inv'
    <3>1. decision'.kind = "explicit"
        BY <2>2 DEF RouteExplicit, Return, Decision
    <3> QED
        BY <2>i, <3>1 DEF Wins
  <2>3. ASSUME NEW req \in Requests, RouteBalanced(req) \/ RouteNotFound(req) PROVE Inv'
    <3> DEFINE ls == ListsOf(routing, req)
               dec == decision'
    <3>1. routing' = routing /\ request' = req
        BY <2>3 DEF RouteBalanced, RouteNotFound, Return
    <3>2. ls \in Seq(NameList)
        BY <2>0, ListsTyped
    <3>3. Routed(req) = RoutedTo(ls)
      <4>1. Lists(req) = ls
          BY ListsAre
      <4> HIDE DEF ls
      <4> QED
          BY <4>1 DEF Routed, RoutedTo
    <3>4. Inv' <=> Wins(ls, dec)
        BY <2>i, <3>1
    <3> HIDE DEF ls
    <3>5. \/ RoutedTo(ls) = NoName /\ \A i \in DOMAIN ls : ~Has(ls[i])
          \/ \E i \in DOMAIN ls : \E j \in DOMAIN ls[i] :
               /\ RoutedTo(ls) = ls[i][j] /\ ls[i][j] \in Model
               /\ \A k \in 1..j - 1 : ls[i][k] \notin Model
               /\ \A k \in 1..i - 1 : ~Has(ls[k])
        BY <3>2, RoutedIs
    <3>6. NoName \notin Model
        BY RouterAssumption
    <3>7. CASE RouteNotFound(req)
      <4>1. RoutedTo(ls) = NoName /\ dec.kind = "not_found"
          BY <3>3, <3>7 DEF RouteNotFound, Return, NotFound, Decision
      <4>2. \A i \in DOMAIN ls : ~Has(ls[i])
          BY <3>5, <3>6, <4>1, Zenon
      <4>3. Wins(ls, dec)
          BY <4>1, <4>2 DEF Wins
      <4> QED
          BY <3>4, <4>3
    <3>8. CASE RouteBalanced(req)
      <4>1. PICK m \in Model :
              /\ m = Routed(req) /\ Select(m)
              /\ decision' = Decision("balanced", Heaviest(Raised(m), Group[m]), m)
          BY <3>8 DEF RouteBalanced, Return
      <4>2. Heaviest(Raised(m), Group[m]) \in Candidates(m)
          BY <2>0, <4>1, SelectEffect
      <4>3. /\ dec.kind = "balanced" /\ dec.model = m
            /\ dec.provider = Heaviest(Raised(m), Group[m])
          BY <4>1 DEF Decision
      <4> HIDE DEF dec
      <4>4. RoutedTo(ls) = m /\ RoutedTo(ls) # NoName
          BY <3>3, <3>6, <4>1
      <4>5. dec.model = RoutedTo(ls) /\ dec.provider \in Candidates(dec.model)
          BY <4>2, <4>3, <4>4
      <4>6. dec.kind = "balanced" /\ dec.kind # "not_found"
          BY <4>3
      <4>7. \E i \in DOMAIN ls : \E j \in DOMAIN ls[i] :
              /\ dec.model = ls[i][j] /\ dec.provider \in Candidates(dec.model)
              /\ \A k \in 1..j - 1 : ls[i][k] \notin Model
              /\ \A k \in 1..i - 1 : ~Has(ls[k])
          BY <3>5, <4>4, <4>5, Zenon
      <4>8. Wins(ls, dec)
          BY <4>6, <4>7 DEF Wins
      <4> QED
          BY <3>4, <4>8
    <3> QED
        BY <2>3, <3>7, <3>8
  <2> QED
      BY <1>2, <2>1, <2>2, <2>3 DEF RouterNext, routerVars
<1>3. Inv => FirstServedWins
    BY WinsIs
<1> QED
    BY <1>1, <1>2, <1>3, Invariant, PTL DEF RouterSpec

\* Semantic routing proposes the most similar category, or none when no category
\* reaches the threshold, for any number of categories in any order.
THEOREM MostSimilarProposed == RouterSpec => []MostSimilarCategory
<1>1. ASSUME IInv PROVE MostSimilarCategory
  <2> DEFINE score == request.score
             D == DOMAIN Categories
             reached == {c \in D : score[c] >= Similar /\ score[c] > 0}
             best == {c \in reached : \A d \in reached : score[d] <= score[c]}
             found == SemanticTargets(request)
  <2>1. request \in Requests
      BY <1>1 DEF IInv, RouterTypeOK
  <2>2. score \in [D -> Nat]
      BY <2>1, RouterAssumption
  <2>3. PICK f : Passes(f, score) /\ found = f[DOMAIN Numbers].targets
      BY SemanticPass
  <2>4. DOMAIN Numbers = D
      BY CategoryNumbers
  <2> HIDE DEF score, D, found
  <2>5. BestOf(f[D], score, D)
    <3>1. score \in [DOMAIN Categories -> Nat]
        BY <2>2 DEF D
    <3> QED
        BY <2>3, <2>4, <3>1, PassFindsBest
  <2>6. found \in IF reached = {} THEN {<<>>} ELSE {Categories[c] : c \in best}
    <3>1. CASE f[D] = NoBest /\ \A c \in D : ~Reaches(score, c)
      <4>1. reached = {} /\ found = <<>>
          BY <2>3, <2>4, <3>1 DEF Reaches, NoBest
      <4> QED
          BY <4>1
    <3>2. ASSUME NEW c \in D, f[D] = BestIs(score, c), Reaches(score, c),
                 \A d \in D : Reaches(score, d) => score[d] <= score[c]
          PROVE  reached # {} /\ found \in {Categories[e] : e \in best}
      <4>1. c \in reached
          BY <3>2 DEF Reaches
      <4>2. \A d \in reached : score[d] <= score[c]
          BY <3>2 DEF Reaches
      <4>3. found = Categories[c]
          BY <2>3, <2>4, <3>2 DEF BestIs
      <4>4. c \in best
          BY <4>1, <4>2
      <4> QED
          BY <4>1, <4>3, <4>4
    <3> HIDE DEF reached, best
    <3> QED
        BY <2>5, <3>1, <3>2 DEF BestOf
  <2> QED
      BY <2>6 DEF MostSimilarCategory, score, D, found
<1> QED
    BY <1>1, Invariant, PTL
=============================================================================
