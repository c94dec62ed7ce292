------------------------- MODULE SemanticCacheProofs -------------------------
(***************************************************************************)
(* Proofs about SemanticCache.tla for every set of callers, prompts and    *)
(* setups, every score, threshold, TTL, size limit and clock.              *)
(*                                                                         *)
(* Of any overlap: a step only puts entries where entries were, or where   *)
(* an array has room, and never shortens an array (Grows), so every header *)
(* ever copied still covers written cells (Shape).                         *)
(*                                                                         *)
(* Of calls that do not overlap: a lookup has the current slice until it   *)
(* removes what expired (Follows), has listed exactly the expired places   *)
(* it passed, in order (Listed), and no fresh one it passed is better than *)
(* its best (Ranked).  removeExpired is a fold over that list, so what it  *)
(* leaves is found by induction on the set of places that were applied,    *)
(* the highest first (Exact, SubsetInduction).                             *)
(***************************************************************************)
EXTENDS SemanticCache, FiniteSetTheorems, SequenceTheorems, TLAPS

(***************************************************************************)
(* Induction and folds                                                     *)
(***************************************************************************)

LEMMA NatMin ==
  ASSUME NEW T, T \subseteq Nat, T # {}
  PROVE  \E x \in T : \A y \in T : x <= y
<1>1. PICK x \in T : \A y \in T : ~(<<y, x>> \in OpToRel(<, Nat))
    BY NatLessThanWellFounded, WFMin, Zenon
<1>2. \A y \in T : ~(y < x)
    BY <1>1 DEF OpToRel
<1> QED
    BY <1>2

LEMMA NatInductive ==
  ASSUME NEW S, 0 \in S, \A n \in Nat : n \in S => n + 1 \in S
  PROVE  \A n \in Nat : n \in S
<1> DEFINE T == Nat \ S
<1> SUFFICES ASSUME T # {} PROVE FALSE
    OBVIOUS
<1>1. T \subseteq Nat
    OBVIOUS
<1> HIDE DEF T
<1>2. PICK x \in T : \A y \in T : x <= y
    BY <1>1, NatMin
<1> USE DEF T
<1>3. x \in Nat /\ x # 0
    BY <1>2
<1>4. x - 1 \in Nat /\ x - 1 < x
    BY <1>3
<1>5. x - 1 \in S
    BY <1>2, <1>4
<1> QED
    BY <1>2, <1>4, <1>5

\* c chooses an element of each subset of S.
Chooses(c, S) == \A s \in SUBSET S : s # {} => c[s] \in s

\* The recursion of a fold: the element chosen from s is added to the rest.
Fold(g, f, c, base, s) == IF s = {} THEN base ELSE f[<<c[s], g[s \ {c[s]}]>>]

Folds(g, f, c, base, S) == g = [s \in SUBSET S |-> Fold(g, f, c, base, s)]

LEMMA FoldExists ==
  ASSUME NEW S, IsFiniteSet(S), NEW f, NEW base, NEW c, Chooses(c, S)
  PROVE  \E g : Folds(g, f, c, base, S)
<1> DEFINE Upto(g, n) ==
             \A s \in SUBSET S : Cardinality(s) <= n => g[s] = Fold(g, f, c, base, s)
           N == {n \in Nat : \E g : Upto(g, n)}
<1>c. ASSUME NEW s \in SUBSET S
      PROVE  /\ Cardinality(s) \in Nat /\ Cardinality(s) <= Cardinality(S)
             /\ (Cardinality(s) = 0 <=> s = {})
             /\ s # {} => Cardinality(s \ {c[s]}) = Cardinality(s) - 1
  <2>1. IsFiniteSet(s) /\ Cardinality(s) <= Cardinality(S)
      BY FS_Subset
  <2>2. Cardinality(s) \in Nat /\ (Cardinality(s) = 0 <=> s = {})
      BY <2>1, FS_CardinalityType, FS_EmptySet
  <2>3. ASSUME s # {} PROVE Cardinality(s \ {c[s]}) = Cardinality(s) - 1
    <3>1. c[s] \in s
        BY <2>3 DEF Chooses
    <3> QED
        BY <2>1, <3>1, FS_RemoveElement
  <2> QED
      BY <2>1, <2>2, <2>3
<1>1. 0 \in N
  <2> DEFINE g == [s \in SUBSET S |-> base]
  <2>1. ASSUME NEW s \in SUBSET S, Cardinality(s) <= 0
        PROVE  g[s] = Fold(g, f, c, base, s)
    <3>1. Cardinality(s) \in Nat
        BY <1>c
    <3>2. Cardinality(s) = 0
        BY <2>1, <3>1
    <3>3. s = {}
        BY <1>c, <3>2
    <3> QED
        BY <3>3 DEF Fold
  <2>2. Upto(g, 0)
      BY <2>1
  <2> QED
      BY <2>2
<1>2. ASSUME NEW n \in Nat, n \in N PROVE n + 1 \in N
  <2>1. PICK g : Upto(g, n)
      BY <1>2
  <2> DEFINE h == [s \in SUBSET S |-> Fold(g, f, c, base, s)]
  <2>2. ASSUME NEW s \in SUBSET S, Cardinality(s) <= n + 1
        PROVE  h[s] = Fold(h, f, c, base, s)
    <3>1. CASE s = {}
        BY <3>1 DEF Fold
    <3>2. CASE s # {}
      <4> DEFINE t == s \ {c[s]}
      <4>1. t \in SUBSET S
          OBVIOUS
      <4>2. Cardinality(t) <= n
          BY <1>c, <2>2, <3>2
      <4>3. h[t] = g[t]
          BY <2>1, <4>1, <4>2
      <4>4. h[s] = f[<<c[s], g[t]>>]
          BY <3>2 DEF Fold
      <4> QED
          BY <3>2, <4>3, <4>4 DEF Fold
    <3> QED
        BY <3>1, <3>2
  <2>3. Upto(h, n + 1)
      BY <2>2
  <2>4. n + 1 \in Nat
      OBVIOUS
  <2> HIDE DEF Upto, h
  <2> QED
      BY <2>3, <2>4
<1> HIDE DEF N
<1>3. Cardinality(S) \in N
    BY <1>1, <1>2, <1>c, NatInductive
<1>4. PICK g : Upto(g, Cardinality(S))
    BY <1>3 DEF N
<1> DEFINE h == [s \in SUBSET S |-> Fold(g, f, c, base, s)]
<1>5. \A s \in SUBSET S : g[s] = Fold(g, f, c, base, s)
    BY <1>4, <1>c
<1>6. ASSUME NEW s \in SUBSET S PROVE Fold(h, f, c, base, s) = Fold(g, f, c, base, s)
  <2>1. s \ {c[s]} \in SUBSET S
      OBVIOUS
  <2> QED
      BY <1>5, <2>1 DEF Fold
<1>7. h = [s \in SUBSET S |-> Fold(h, f, c, base, s)]
    BY <1>6
<1> QED
    BY <1>7 DEF Folds

\* U holds the empty set and each set that it holds without its chosen element:
\* it holds all subsets of S.
Inductive(U, c, S) ==
  {} \in U /\ \A s \in SUBSET S : s # {} /\ s \ {c[s]} \in U => s \in U

LEMMA SubsetInduction ==
  ASSUME NEW S, IsFiniteSet(S), NEW c, NEW U, Chooses(c, S), Inductive(U, c, S)
  PROVE  \A s \in SUBSET S : s \in U
<1> DEFINE N == {n \in Nat : \A s \in SUBSET S : Cardinality(s) = n => s \in U}
<1>c. ASSUME NEW s \in SUBSET S
      PROVE  /\ Cardinality(s) \in Nat
             /\ (Cardinality(s) = 0 <=> s = {})
             /\ s # {} => Cardinality(s \ {c[s]}) = Cardinality(s) - 1
  <2>1. IsFiniteSet(s)
      BY FS_Subset
  <2>2. Cardinality(s) \in Nat /\ (Cardinality(s) = 0 <=> s = {})
      BY <2>1, FS_CardinalityType, FS_EmptySet
  <2>3. ASSUME s # {} PROVE Cardinality(s \ {c[s]}) = Cardinality(s) - 1
    <3>1. c[s] \in s
        BY <2>3 DEF Chooses
    <3> QED
        BY <2>1, <3>1, FS_RemoveElement
  <2> QED
      BY <2>2, <2>3
<1>1. 0 \in N
  <2>1. ASSUME NEW s \in SUBSET S, Cardinality(s) = 0 PROVE s \in U
    <3>1. s = {}
        BY <1>c, <2>1, Zenon
    <3> QED
        BY <3>1 DEF Inductive
  <2> QED
      BY <2>1, Zenon
<1>2. ASSUME NEW n \in Nat, n \in N PROVE n + 1 \in N
  <2>n. n + 1 \in Nat
      OBVIOUS
  <2> SUFFICES ASSUME NEW s \in SUBSET S, Cardinality(s) = n + 1
               PROVE  s \in U
      BY <2>n, Zenon
  <2>1. s # {}
    <3>1. n + 1 # 0
        OBVIOUS
    <3> QED
        BY <1>c, <3>1
  <2>2. Cardinality(s \ {c[s]}) = n
      BY <1>c, <2>1
  <2>3. s \ {c[s]} \in U
      BY <1>2, <2>2
  <2> QED
      BY <2>1, <2>3 DEF Inductive
<1> HIDE DEF N
<1>3. \A n \in Nat : n \in N
    BY <1>1, <1>2, NatInductive
<1> SUFFICES ASSUME NEW s \in SUBSET S PROVE s \in U
    OBVIOUS
<1>4. Cardinality(s) \in N
    BY <1>3, <1>c
<1>5. \A r \in SUBSET S : Cardinality(r) = Cardinality(s) => r \in U
    BY <1>4 DEF N
<1> QED
    BY <1>5

\* The least and the largest of some numbers.
LEMMA Ends ==
  ASSUME NEW n \in Nat, NEW s \in SUBSET (1..n), s # {}
  PROVE  /\ Min(s) \in s /\ \A i \in s : Min(s) <= i
         /\ Max(s) \in s /\ \A i \in s : i <= Max(s)
<1>1. \E x \in s : \A y \in s : x <= y
  <2>1. s \subseteq Nat
      OBVIOUS
  <2> QED
      BY <2>1, NatMin
<1>2. \E x \in s : \A y \in s : y <= x
  <2> DEFINE T == {n - i : i \in s}
  <2>0. s # {} /\ s \subseteq Nat /\ \A i \in s : n - i \in Nat
      OBVIOUS
  <2>1. T \subseteq Nat /\ T # {}
      BY <2>0
  <2> HIDE DEF T
  <2>2. PICK t \in T : \A y \in T : t <= y
      BY <2>1, NatMin
  <2>3. PICK x \in s : t = n - x
      BY DEF T
  <2>4. ASSUME NEW y \in s PROVE y <= x
    <3>1. n - y \in T
        BY DEF T
    <3>2. n - x <= n - y
        BY <2>2, <2>3, <3>1
    <3> QED
        BY <3>2
  <2> QED
      BY <2>4
<1> QED
    BY <1>1, <1>2 DEF Min, Max

(***************************************************************************)
(* The heap                                                                *)
(***************************************************************************)

Cells == Entries \cup {Empty}
Headers == [arr : Nat, len : Nat]

\* Every cell of the slice was written.
Written(m, h) == SliceOf(m, h) /\ \A i \in 1..h.len : m[h.arr][i] # Empty

\* No array disappears, has another size, or loses a written cell.
Grows(m, n) ==
  /\ Len(m) <= Len(n)
  /\ \A a \in 1..Len(m) :
       /\ Len(n[a]) = Len(m[a])
       /\ \A i \in 1..Len(m[a]) : m[a][i] # Empty => n[a][i] # Empty

LEMMA ArrayType ==
  ASSUME NEW m \in Heaps
  PROVE  /\ Len(m) \in Nat /\ DOMAIN m = 1..Len(m)
         /\ \A a \in 1..Len(m) :
              /\ m[a] \in Seq(Cells) /\ Len(m[a]) \in Nat /\ DOMAIN m[a] = 1..Len(m[a])
              /\ \A i \in 1..Len(m[a]) : m[a][i] \in Cells
<1>1. m \in Seq(Seq(Cells))
    BY DEF Heaps, Cells
<1>2. ASSUME NEW a \in 1..Len(m) PROVE m[a] \in Seq(Cells)
    BY <1>1, ElementOfSeq
<1> QED
    BY <1>1, <1>2

LEMMA GrowsSlice ==
  ASSUME NEW m \in Heaps, NEW n \in Heaps, Grows(m, n), NEW h \in Headers
  PROVE  /\ SliceOf(m, h) => SliceOf(n, h)
         /\ Written(m, h) => Written(n, h)
<1>1. Len(m) \in Nat /\ Len(n) \in Nat /\ Len(m) <= Len(n)
    BY ArrayType DEF Grows
<1>2. ASSUME SliceOf(m, h)
      PROVE  /\ SliceOf(n, h)
             /\ h.len > 0 => /\ h.arr \in 1..Len(m) /\ h.len <= Len(m[h.arr])
                             /\ Len(m[h.arr]) \in Nat
  <2>1. h.arr \in 0..Len(m) /\ h.arr \in Nat /\ h.len \in Nat
      BY <1>2 DEF SliceOf, Headers
  <2>2. CASE h.arr = 0
      BY <1>1, <1>2, <2>1, <2>2 DEF SliceOf
  <2>3. CASE h.arr # 0
    <3>1. h.arr \in 1..Len(m)
        BY <1>1, <2>1, <2>3
    <3>2. Len(n[h.arr]) = Len(m[h.arr])
        BY <3>1 DEF Grows
    <3>3. h.len <= Len(m[h.arr])
        BY <1>2, <2>3 DEF SliceOf
    <3>4. h.arr \in 0..Len(n)
        BY <1>1, <3>1
    <3>5. Len(m[h.arr]) \in Nat
        BY <3>1, ArrayType
    <3> QED
        BY <1>2, <2>3, <3>1, <3>2, <3>3, <3>4, <3>5 DEF SliceOf
  <2> QED
      BY <2>2, <2>3
<1>3. ASSUME Written(m, h), NEW i \in 1..h.len PROVE n[h.arr][i] # Empty
  <2>1. h.len \in Nat /\ i \in Nat /\ i <= h.len /\ h.len > 0
      BY <1>3 DEF Headers
  <2>2. h.arr \in 1..Len(m) /\ i \in 1..Len(m[h.arr])
      BY <1>2, <1>3, <2>1 DEF Written
  <2>3. m[h.arr][i] # Empty
      BY <1>3 DEF Written
  <2> QED
      BY <2>2, <2>3 DEF Grows
<1> QED
    BY <1>2, <1>3 DEF Written

LEMMA GrowsTwice ==
  ASSUME NEW m \in Heaps, NEW n \in Heaps, NEW o \in Heaps, Grows(m, n), Grows(n, o)
  PROVE  Grows(m, o)
<1>1. Len(m) \in Nat /\ Len(n) \in Nat /\ Len(o) \in Nat
    BY ArrayType
<1>2. Len(m) <= Len(n) /\ Len(n) <= Len(o)
    BY DEF Grows
<1>3. ASSUME NEW a \in 1..Len(m)
      PROVE  /\ Len(o[a]) = Len(m[a])
             /\ \A i \in 1..Len(m[a]) : m[a][i] # Empty => o[a][i] # Empty
  <2>1. a \in 1..Len(n)
      BY <1>1, <1>2
  <2> QED
      BY <2>1 DEF Grows
<1> QED
    BY <1>1, <1>2, <1>3 DEF Grows

LEMMA GrowsSame ==
  ASSUME NEW m \in Heaps
  PROVE  Grows(m, m)
<1>1. Len(m) \in Nat
    BY ArrayType
<1> QED
    BY <1>1 DEF Grows

\* One cell is overwritten by an entry.
LEMMA PutCell ==
  ASSUME NEW m \in Heaps, NEW a \in 1..Len(m), NEW i \in 1..Len(m[a]),
         NEW e \in Entries, e # Empty
  PROVE  LET n == [m EXCEPT ![a][i] = e]
         IN  /\ n \in Heaps /\ Grows(m, n)
             /\ Len(n) = Len(m)
             /\ \A b \in 1..Len(m) : b # a => n[b] = m[b]
             /\ Len(n[a]) = Len(m[a])
             /\ \A j \in 1..Len(m[a]) : n[a][j] = IF j = i THEN e ELSE m[a][j]
<1> DEFINE n == [m EXCEPT ![a][i] = e]
           s == [m[a] EXCEPT ![i] = e]
<1>1. m[a] \in Seq(Cells) /\ m \in Seq(Seq(Cells)) /\ e \in Cells
    BY ArrayType DEF Heaps, Cells
<1>2. /\ s \in Seq(Cells) /\ Len(s) = Len(m[a])
      /\ \A j \in 1..Len(m[a]) : s[j] = IF j = i THEN e ELSE m[a][j]
    BY <1>1, ExceptSeq
<1>3. n = [m EXCEPT ![a] = s]
    OBVIOUS
<1> HIDE DEF s, n
<1>4. /\ n \in Seq(Seq(Cells)) /\ Len(n) = Len(m)
      /\ \A b \in 1..Len(m) : n[b] = IF b = a THEN s ELSE m[b]
    BY <1>1, <1>2, <1>3, ExceptSeq
<1>5. Len(m) \in Nat
    BY ArrayType
<1>6. Grows(m, n)
  <2>1. ASSUME NEW b \in 1..Len(m)
        PROVE  /\ Len(n[b]) = Len(m[b])
               /\ \A j \in 1..Len(m[b]) : m[b][j] # Empty => n[b][j] # Empty
    <3>1. CASE b = a
        BY <1>2, <1>4, <3>1
    <3>2. CASE b # a
        BY <1>4, <3>2
    <3> QED
        BY <3>1, <3>2
  <2> QED
      BY <1>4, <1>5, <2>1 DEF Grows
<1>7. n \in Heaps
    BY <1>4 DEF Heaps, Cells
<1>8. /\ \A b \in 1..Len(m) : b # a => n[b] = m[b]
      /\ Len(n[a]) = Len(m[a])
      /\ \A j \in 1..Len(m[a]) : n[a][j] = IF j = i THEN e ELSE m[a][j]
    BY <1>2, <1>4
<1> QED
    BY <1>4, <1>6, <1>7, <1>8 DEF n

(***************************************************************************)
(* What removeExpired and LoadFromStore compute                            *)
(***************************************************************************)

States == {x \in [mem : Heaps, hdr : Headers] : Written(x.mem, x.hdr)}

\* One index of removeExpired.
Removed(i, x) == IF i > x.hdr.len THEN x ELSE SwapRemove(x.mem, x.hdr, i)

\* it[s] is what the indices at the places s leave of m and h, the last place first.
RemovesBy(it, m, h, indices) ==
  it = [s \in SUBSET DOMAIN indices |->
          IF s = {} THEN [mem |-> m, hdr |-> h]
                    ELSE Removed(indices[Min(s)], it[s \ {Min(s)}])]

LEMMA RemoveIsFold ==
  ASSUME NEW m \in Heaps, NEW h \in Headers, Written(m, h),
         NEW indices \in Seq(Nat \ {0}),
         \A i \in Nat \ {0} : \A x \in States : Removed(i, x) \in States
  PROVE  \E it : /\ RemovesBy(it, m, h, indices)
                 /\ RemoveIndices(m, h, indices) = it[DOMAIN indices]
<1> DEFINE S == DOMAIN indices
           base == [mem |-> m, hdr |-> h]
           f == [p \in S \X States |-> Removed(indices[p[1]], p[2])]
           c == [s \in SUBSET S |-> Min(s)]
<1>1. S = 1..Len(indices) /\ Len(indices) \in Nat /\ IsFiniteSet(S)
    BY FS_Interval
<1>2. Chooses(c, S)
    BY <1>1, Ends DEF Chooses
<1>3. base \in States
    BY DEF States
<1>4. PICK g : Folds(g, f, c, base, S)
  <2> HIDE DEF S, f, c, base
  <2> QED
      BY <1>1, <1>2, FoldExists
<1> DEFINE U == {s \in SUBSET S : g[s] \in States}
<1>5. {} \in U
    BY <1>3, <1>4 DEF Fold, Folds
<1>6. ASSUME NEW s \in SUBSET S, s # {}, s \ {c[s]} \in U
      PROVE  /\ g[s] = Removed(indices[Min(s)], g[s \ {Min(s)}])
             /\ s \in U
  <2>1. Min(s) \in s /\ c[s] = Min(s)
      BY <1>2, <1>6 DEF Chooses
  <2>2. g[s] = f[<<Min(s), g[s \ {Min(s)}]>>]
      BY <1>4, <1>6, <2>1 DEF Fold, Folds
  <2>3. g[s \ {Min(s)}] \in States
      BY <1>6, <2>1
  <2>4. g[s] = Removed(indices[Min(s)], g[s \ {Min(s)}])
      BY <2>1, <2>2, <2>3
  <2>5. indices[Min(s)] \in Nat \ {0}
      BY <2>1
  <2> QED
      BY <2>3, <2>4, <2>5
<1>7. \A s \in SUBSET S : s \in U
  <2>1. Inductive(U, c, S)
      BY <1>5, <1>6 DEF Inductive
  <2> HIDE DEF S, f, c, U
  <2> QED
      BY <1>1, <1>2, <2>1, SubsetInduction
<1>8. RemovesBy(g, m, h, indices)
  <2>1. ASSUME NEW s \in SUBSET S
        PROVE  g[s] = IF s = {} THEN base ELSE Removed(indices[Min(s)], g[s \ {Min(s)}])
    <3>1. CASE s = {}
        BY <1>4, <3>1 DEF Fold, Folds
    <3>2. CASE s # {}
      <4>1. s \ {c[s]} \in U
          BY <1>7
      <4> QED
          BY <1>6, <3>2, <4>1
    <3> QED
        BY <3>1, <3>2
  <2>2. g = [s \in SUBSET S |-> g[s]]
      BY <1>4 DEF Folds
  <2> QED
      BY <2>1, <2>2 DEF RemovesBy
<1> HIDE DEF S, f, c, U, base
<1> QED
    BY <1>8 DEF RemoveIndices, FoldRight, MapThenFoldSet, RemovesBy, Removed

\* One prompt of LoadFromStore.
Appended(p, x) == AppendTo(x.mem, x.hdr, Entry(p, now, now))

\* it[s] is what m and h become by the prompts at the places s, the first place first.
AppendsBy(it, m, h, prompts) ==
  it = [s \in SUBSET DOMAIN prompts |->
          IF s = {} THEN [mem |-> m, hdr |-> h]
                    ELSE Appended(prompts[Max(s)], it[s \ {Max(s)}])]

LEMMA AppendIsFold ==
  ASSUME NEW m \in Heaps, NEW h \in Headers, Written(m, h),
         NEW prompts \in Seq(Prompt),
         \A p \in Prompt : \A x \in States : Appended(p, x) \in States
  PROVE  \E it : /\ AppendsBy(it, m, h, prompts)
                 /\ AppendAll(m, h, prompts) = it[DOMAIN prompts]
<1> DEFINE S == DOMAIN prompts
           base == [mem |-> m, hdr |-> h]
           f == [p \in S \X States |-> Appended(prompts[p[1]], p[2])]
           c == [s \in SUBSET S |-> Max(s)]
<1>1. S = 1..Len(prompts) /\ Len(prompts) \in Nat /\ IsFiniteSet(S)
    BY FS_Interval
<1>2. Chooses(c, S)
    BY <1>1, Ends DEF Chooses
<1>3. base \in States
    BY DEF States
<1>4. PICK g : Folds(g, f, c, base, S)
  <2> HIDE DEF S, f, c, base
  <2> QED
      BY <1>1, <1>2, FoldExists
<1> DEFINE U == {s \in SUBSET S : g[s] \in States}
<1>5. {} \in U
    BY <1>3, <1>4 DEF Fold, Folds
<1>6. ASSUME NEW s \in SUBSET S, s # {}, s \ {c[s]} \in U
      PROVE  /\ g[s] = Appended(prompts[Max(s)], g[s \ {Max(s)}])
             /\ s \in U
  <2>1. Max(s) \in s /\ c[s] = Max(s)
      BY <1>2, <1>6 DEF Chooses
  <2>2. g[s] = f[<<Max(s), g[s \ {Max(s)}]>>]
      BY <1>4, <1>6, <2>1 DEF Fold, Folds
  <2>3. g[s \ {Max(s)}] \in States
      BY <1>6, <2>1
  <2>4. g[s] = Appended(prompts[Max(s)], g[s \ {Max(s)}])
      BY <2>1, <2>2, <2>3
  <2>5. prompts[Max(s)] \in Prompt
      BY <2>1
  <2> QED
      BY <2>3, <2>4, <2>5
<1>7. \A s \in SUBSET S : s \in U
  <2>1. Inductive(U, c, S)
      BY <1>5, <1>6 DEF Inductive
  <2> HIDE DEF S, f, c, U
  <2> QED
      BY <1>1, <1>2, <2>1, SubsetInduction
<1>8. AppendsBy(g, m, h, prompts)
  <2>1. ASSUME NEW s \in SUBSET S
        PROVE  g[s] = IF s = {} THEN base ELSE Appended(prompts[Max(s)], g[s \ {Max(s)}])
    <3>1. CASE s = {}
        BY <1>4, <3>1 DEF Fold, Folds
    <3>2. CASE s # {}
      <4>1. s \ {c[s]} \in U
          BY <1>7
      <4> QED
          BY <1>6, <3>2, <4>1
    <3> QED
        BY <3>1, <3>2
  <2>2. g = [s \in SUBSET S |-> g[s]]
      BY <1>4 DEF Folds
  <2> QED
      BY <2>1, <2>2 DEF AppendsBy
<1> HIDE DEF S, f, c, U, base
<1> QED
    BY <1>8 DEF AppendAll, FoldLeft, MapThenFoldSet, AppendsBy, Appended

(***************************************************************************)
(* What the operations on a slice do                                       *)
(***************************************************************************)

LEMMA EntryWritten == \A e \in Entries : e # Empty /\ e \in Cells
  BY CacheAssumption DEF Entries, Empty, Cells

LEMMA CellOfSlice ==
  ASSUME NEW m \in Heaps, NEW h \in Headers, Written(m, h), NEW i \in 1..h.len
  PROVE  /\ h.arr \in 1..Len(m) /\ i \in 1..Len(m[h.arr]) /\ h.len \in 1..Len(m[h.arr])
         /\ m[h.arr][i] \in Entries
<1>1. h.len \in Nat /\ h.arr \in Nat /\ i \in Nat /\ 1 <= i /\ i <= h.len
    BY DEF Headers
<1>2. h.arr # 0 /\ h.arr \in 0..Len(m) /\ h.len <= Len(m[h.arr]) /\ Len(m) \in Nat
    BY <1>1, ArrayType DEF Written, SliceOf
<1>3. h.arr \in 1..Len(m) /\ Len(m[h.arr]) \in Nat
    BY <1>1, <1>2, ArrayType
<1>4. i \in 1..Len(m[h.arr]) /\ h.len \in 1..Len(m[h.arr])
    BY <1>1, <1>2, <1>3
<1>5. m[h.arr][i] \in Cells /\ m[h.arr][i] # Empty
    BY <1>3, <1>4, ArrayType DEF Written
<1> QED
    BY <1>3, <1>4, <1>5 DEF Cells

LEMMA SliceEnd ==
  ASSUME NEW m \in Heaps, NEW h \in Headers, SliceOf(m, h), h.arr # 0
  PROVE  /\ h.arr \in 1..Len(m) /\ h.len \in 0..Len(m[h.arr])
         /\ Len(m[h.arr]) \in Nat
<1>1. h.len \in Nat /\ h.arr \in Nat
    BY DEF Headers
<1>2. h.arr \in 0..Len(m) /\ h.len <= Len(m[h.arr]) /\ Len(m) \in Nat
    BY ArrayType DEF SliceOf
<1>3. h.arr \in 1..Len(m) /\ Len(m[h.arr]) \in Nat
    BY <1>1, <1>2, ArrayType
<1> QED
    BY <1>1, <1>2, <1>3

LEMMA AppendEffect ==
  ASSUME NEW m \in Heaps, NEW h \in Headers, Written(m, h), NEW e \in Entries
  PROVE  /\ AppendTo(m, h, e) \in States
         /\ Grows(m, AppendTo(m, h, e).mem)
         /\ AppendTo(m, h, e).hdr.len = h.len + 1
         /\ AppendTo(m, h, e).hdr.arr # 0
<1> DEFINE full == h.arr = 0 \/ h.len = Len(m[h.arr])
<1>0. /\ h.len \in Nat /\ h.arr \in Nat /\ Len(m) \in Nat /\ SliceOf(m, h)
      /\ e # Empty /\ e \in Cells /\ Empty \in Cells
    BY ArrayType, EntryWritten DEF Headers, Written, Cells
<1>1. CASE full
  <2> DEFINE size == IF h.len = 0 THEN 1 ELSE 2 * h.len
             old  == IF h.arr = 0 THEN <<>> ELSE m[h.arr]
             new  == [i \in 1..size |-> IF i <= h.len THEN old[i]
                                        ELSE IF i = h.len + 1 THEN e ELSE Empty]
             n == Append(m, new)
             g == [arr |-> Len(m) + 1, len |-> h.len + 1]
  <2>1. AppendTo(m, h, e) = [mem |-> n, hdr |-> g]
      BY <1>1 DEF AppendTo
  <2>2. size \in Nat /\ h.len + 1 <= size
      BY <1>0
  <2>3. ASSUME NEW i \in 1..h.len PROVE old[i] \in Entries
    <3>1. h.arr # 0
        BY CellOfSlice
    <3> QED
        BY <3>1, CellOfSlice
  <2> HIDE DEF size, old
  <2>4. ASSUME NEW i \in 1..size
        PROVE  /\ new[i] \in Cells
               /\ i <= h.len + 1 => new[i] # Empty
    <3>1. CASE i <= h.len
      <4>1. i \in 1..h.len
          BY <1>0, <2>2, <3>1
      <4>2. new[i] = old[i]
          BY <3>1
      <4> QED
          BY <2>3, <4>1, <4>2, EntryWritten
    <3>2. CASE i > h.len
        BY <1>0, <2>2, <3>2
    <3> QED
        BY <1>0, <2>2, <3>1, <3>2
  <2>5. new \in Seq(Cells) /\ Len(new) = size
    <3>1. new \in [1..size -> Cells]
        BY <2>4
    <3> HIDE DEF new
    <3> QED
        BY <2>2, <3>1
  <2> HIDE DEF new
  <2>6. m \in Seq(Seq(Cells))
      BY DEF Heaps, Cells
  <2>7. /\ n \in Seq(Seq(Cells)) /\ Len(n) = Len(m) + 1
        /\ \A a \in 1..Len(m) : n[a] = m[a]
        /\ n[Len(m) + 1] = new
      BY <2>5, <2>6, AppendProperties
  <2> HIDE DEF n
  <2>8. n \in Heaps
      BY <2>7 DEF Heaps, Cells
  <2>9. Grows(m, n)
      BY <1>0, <2>7 DEF Grows
  <2>10. g \in Headers /\ SliceOf(n, g)
      BY <1>0, <2>2, <2>5, <2>7 DEF SliceOf, Headers
  <2>11. ASSUME NEW i \in 1..g.len PROVE n[g.arr][i] # Empty
    <3>1. i \in 1..size /\ i <= h.len + 1
        BY <1>0, <2>2
    <3> QED
        BY <2>4, <2>7, <3>1
  <2> QED
      BY <1>0, <2>1, <2>8, <2>9, <2>10, <2>11 DEF States, Written
<1>2. CASE ~full
  <2> DEFINE k == h.len + 1
             n == [m EXCEPT ![h.arr][k] = e]
             g == [h EXCEPT !.len = @ + 1]
  <2>1. AppendTo(m, h, e) = [mem |-> n, hdr |-> g]
      BY <1>2 DEF AppendTo
  <2>2. /\ h.arr \in 1..Len(m) /\ h.len + 1 \in 1..Len(m[h.arr])
      BY <1>0, <1>2, SliceEnd
  <2>a. h.arr \in 1..Len(m) /\ k \in 1..Len(m[h.arr]) /\ e # Empty
      BY <1>0, <2>2
  <2> HIDE DEF k, full
  <2>3. /\ n \in Heaps /\ Grows(m, n)
        /\ Len(n) = Len(m)
        /\ Len(n[h.arr]) = Len(m[h.arr])
        /\ \A j \in 1..Len(m[h.arr]) : n[h.arr][j] = IF j = k THEN e ELSE m[h.arr][j]
      BY <2>a, PutCell
  <2> HIDE DEF n
  <2> USE DEF k
  <2>4. g \in Headers /\ g.arr = h.arr /\ g.len = h.len + 1
      BY <1>0 DEF Headers
  <2>5. SliceOf(n, g)
      BY <1>0, <2>2, <2>3, <2>4 DEF SliceOf, Headers
  <2>6. ASSUME NEW i \in 1..g.len PROVE n[g.arr][i] # Empty
    <3>1. i \in 1..Len(m[h.arr]) /\ (i = h.len + 1 \/ i \in 1..h.len)
        BY <1>0, <2>2, <2>4
    <3>2. i # h.len + 1 => m[h.arr][i] # Empty
        BY <3>1 DEF Written
    <3> QED
        BY <1>0, <2>3, <2>4, <3>1, <3>2
  <2>7. h.arr # 0
      BY <1>2 DEF full
  <2> HIDE DEF g
  <2>8. Written(n, g)
      BY <2>5, <2>6 DEF Written
  <2> QED
      BY <2>1, <2>3, <2>4, <2>7, <2>8 DEF States
<1> QED
    BY <1>1, <1>2

\* What a swap with the last cell does to the heap.
LEMMA SwapEffect ==
  ASSUME NEW m \in Heaps, NEW h \in Headers, Written(m, h), NEW i \in 1..h.len
  PROVE  LET s == SwapRemove(m, h, i)
         IN  /\ s \in States
             /\ Grows(m, s.mem)
             /\ s.hdr.len = h.len - 1
             /\ s.hdr.arr = h.arr
             /\ \A b \in 1..Len(m) : b # h.arr => s.mem[b] = m[b]
             /\ Len(s.mem) = Len(m) /\ Len(s.mem[h.arr]) = Len(m[h.arr])
             /\ \A j \in 1..Len(m[h.arr]) :
                  s.mem[h.arr][j] = IF j = i THEN m[h.arr][h.len] ELSE m[h.arr][j]
<1> DEFINE e == m[h.arr][h.len]
           n == [m EXCEPT ![h.arr][i] = e]
           g == [h EXCEPT !.len = @ - 1]
<1>0. h.len \in Nat /\ h.arr \in Nat /\ Len(m) \in Nat /\ i \in Nat /\ i >= 1 /\ i <= h.len
    BY ArrayType DEF Headers
<1>1. /\ h.arr \in 1..Len(m) /\ i \in 1..Len(m[h.arr]) /\ h.len \in 1..Len(m[h.arr])
      /\ m[h.arr][h.len] \in Entries
  <2>1. h.len \in 1..h.len
      BY <1>0
  <2> QED
      BY <2>1, CellOfSlice
<1>2. SwapRemove(m, h, i) = [mem |-> n, hdr |-> g]
    BY DEF SwapRemove
<1>3. e \in Entries /\ e # Empty
    BY <1>1, EntryWritten
<1> HIDE DEF e
<1>4. /\ n \in Heaps /\ Grows(m, n)
      /\ Len(n) = Len(m)
      /\ \A b \in 1..Len(m) : b # h.arr => n[b] = m[b]
      /\ Len(n[h.arr]) = Len(m[h.arr])
      /\ \A j \in 1..Len(m[h.arr]) : n[h.arr][j] = IF j = i THEN e ELSE m[h.arr][j]
    BY <1>1, <1>3, PutCell
<1> HIDE DEF n
<1>5. g \in Headers /\ g.arr = h.arr /\ g.len = h.len - 1
    BY <1>0 DEF Headers
<1> HIDE DEF g
<1>6. Written(n, g)
  <2>1. Written(n, h)
      BY <1>4, GrowsSlice
  <2>2. SliceOf(n, g)
      BY <1>0, <1>1, <1>4, <1>5, <2>1 DEF SliceOf, Written, Headers
  <2>3. \A j \in 1..g.len : j \in 1..h.len
      BY <1>0, <1>5
  <2> QED
      BY <1>5, <2>1, <2>2, <2>3 DEF Written
<1> QED
    BY <1>1, <1>2, <1>4, <1>5, <1>6 DEF States, e

LEMMA OldestInSlice ==
  ASSUME NEW m \in Heaps, NEW h \in Headers, Written(m, h), h.len > 0
  PROVE  Oldest(m, h) \in 1..h.len
<1> DEFINE used(i) == m[h.arr][i].lastAccess
           U == {used(i) : i \in 1..h.len}
<1>1. h.len \in Nat /\ \A i \in 1..h.len : used(i) \in Nat
  <2>1. \A i \in 1..h.len : m[h.arr][i] \in Entries
      BY CellOfSlice
  <2> QED
      BY <2>1, CacheAssumption DEF Entries, Headers
<1>2. U \subseteq Nat /\ U # {}
  <2>1. 1 \in 1..h.len
      BY <1>1
  <2> QED
      BY <1>1, <2>1
<1>3. PICK u \in U : \A v \in U : u <= v
  <2> HIDE DEF U
  <2> QED
      BY <1>2, NatMin
<1> DEFINE T == {i \in 1..h.len : used(i) = u}
<1>4. T \subseteq Nat /\ T # {}
    BY <1>1
<1>5. PICK i \in T : \A j \in T : i <= j
  <2> HIDE DEF T
  <2> QED
      BY <1>4, NatMin
<1>6. i \in 1..h.len /\ used(i) = u
    BY <1>5
<1>7. ASSUME NEW j \in 1..h.len PROVE used(i) < used(j) \/ (used(i) = used(j) /\ i <= j)
  <2>1. used(j) \in U /\ used(j) \in Nat /\ used(i) \in Nat
      BY <1>1, <1>6
  <2>2. used(i) <= used(j)
      BY <1>3, <1>6, <2>1
  <2>3. used(j) = used(i) => j \in T
      BY <1>6
  <2>4. used(j) = used(i) => i <= j
      BY <1>5, <2>3
  <2> HIDE DEF used, T, U
  <2> QED
      BY <2>1, <2>2, <2>4
<1> QED
    BY <1>6, <1>7 DEF Oldest

\* Evicting removes one entry of a slice that is too long.
LEMMA EvictEffect ==
  ASSUME NEW x \in States
  PROVE  /\ EvictOne(x) \in States /\ Grows(x.mem, EvictOne(x).mem)
         /\ EvictOne(x).hdr.arr = x.hdr.arr
         /\ EvictOne(x).hdr.len = IF x.hdr.len > MaxEntries THEN x.hdr.len - 1 ELSE x.hdr.len
<1>1. x.mem \in Heaps /\ x.hdr \in Headers /\ Written(x.mem, x.hdr)
    BY DEF States
<1>2. CASE x.hdr.len > MaxEntries
  <2>1. x.hdr.len > 0
      BY <1>1, <1>2, CacheAssumption DEF Headers
  <2>2. Oldest(x.mem, x.hdr) \in 1..x.hdr.len
      BY <1>1, <2>1, OldestInSlice
  <2> DEFINE i == Oldest(x.mem, x.hdr)
  <2>3. EvictOne(x) = SwapRemove(x.mem, x.hdr, i)
      BY <1>2 DEF EvictOne
  <2> HIDE DEF i
  <2>4. i \in 1..x.hdr.len
      BY <2>2 DEF i
  <2> QED
      BY <1>1, <1>2, <2>3, <2>4, SwapEffect
<1>3. CASE ~(x.hdr.len > MaxEntries)
    BY <1>1, <1>3, GrowsSame DEF EvictOne
<1> QED
    BY <1>2, <1>3

\* Some numbers up to n, in order.
LEMMA InOrder ==
  \A n \in Nat : \A S \in SUBSET (1..n) :
    \E f \in [1..Cardinality(S) -> S] :
      \A j, k \in 1..Cardinality(S) : j < k => f[j] < f[k]
<1> DEFINE Ordered(S) == \E f \in [1..Cardinality(S) -> S] :
                           \A j, k \in 1..Cardinality(S) : j < k => f[j] < f[k]
           N == {n \in Nat : \A S \in SUBSET (1..n) : Ordered(S)}
<1>1. 0 \in N
  <2>1. ASSUME NEW S \in SUBSET (1..0) PROVE Ordered(S)
    <3>0. S = {}
        OBVIOUS
    <3>1. Cardinality(S) = 0 /\ 1..Cardinality(S) = {}
        BY <3>0, FS_EmptySet
    <3>2. [i \in {} |-> 0] \in [1..Cardinality(S) -> S]
        BY <3>1
    <3> QED
        BY <3>1, <3>2
  <2> QED
      BY <2>1
<1>2. ASSUME NEW n \in Nat, n \in N PROVE n + 1 \in N
  <2>1. ASSUME NEW S \in SUBSET (1..n + 1) PROVE Ordered(S)
    <3> DEFINE T == S \ {n + 1}
               c == Cardinality(T)
    <3>1. T \in SUBSET (1..n)
        BY <1>2
    <3>2. IsFiniteSet(T) /\ c \in Nat
      <4>1. IsFiniteSet(1..n)
          BY FS_Interval
      <4> QED
          BY <3>1, <4>1, FS_Subset, FS_CardinalityType
    <3>3. Ordered(T)
        BY <1>2, <3>1
    <3>4. PICK f \in [1..c -> T] : \A j, k \in 1..c : j < k => f[j] < f[k]
        BY <3>3
    <3>5. CASE n + 1 \notin S
      <4>1. T = S
          BY <3>5
      <4> QED
          BY <3>3, <4>1
    <3>6. CASE n + 1 \in S
      <4>1. S = T \cup {n + 1} /\ n + 1 \notin T
          BY <3>6
      <4> HIDE DEF T
      <4>2. Cardinality(S) = c + 1
          BY <3>2, <4>1, FS_AddElement
      <4> DEFINE g == [k \in 1..c + 1 |-> IF k = c + 1 THEN n + 1 ELSE f[k]]
      <4> HIDE DEF c
      <4>3. \A k \in 1..c + 1 : k # c + 1 => k \in 1..c
          BY <3>2
      <4>4. g \in [1..c + 1 -> S]
          BY <3>2, <4>1, <4>3
      <4>5. ASSUME NEW j \in 1..c + 1, NEW k \in 1..c + 1, j < k PROVE g[j] < g[k]
        <5>1. j \in 1..c
            BY <3>2, <4>5
        <5>2. CASE k = c + 1
          <6>0. f[j] \in 1..n
              BY <3>1, <5>1
          <6>1. g[j] \in 1..n /\ g[k] = n + 1
              BY <3>2, <5>1, <5>2, <6>0
          <6> QED
              BY <1>2, <6>1
        <5>3. CASE k # c + 1
            BY <3>2, <3>4, <4>3, <4>5, <5>1, <5>3
        <5> QED
            BY <5>2, <5>3
      <4> HIDE DEF g
      <4> QED
          BY <4>2, <4>4, <4>5
    <3> QED
        BY <3>5, <3>6
  <2>2. n + 1 \in Nat
      OBVIOUS
  <2> HIDE DEF Ordered
  <2> QED
      BY <2>1, <2>2
<1> HIDE DEF N
<1>3. \A n \in Nat : n \in N
    BY <1>1, <1>2, NatInductive
<1> QED
    BY <1>3 DEF N

LEMMA UpTo ==
  ASSUME NEW n \in Nat
  PROVE  /\ IsFiniteSet(1..n) /\ Cardinality(1..n) = n
         /\ \A T : \A f \in [1..n -> T] : f \in Seq(T) /\ Len(f) = n
<1>1. IsFiniteSet(1..n) /\ Cardinality(1..n) = n
    BY FS_Interval
<1>2. ASSUME NEW T, NEW f \in [1..n -> T] PROVE f \in Seq(T) /\ Len(f) = n
    OBVIOUS
<1> QED
    BY <1>1, <1>2

\* Compaction keeps the array's size and overwrites its front with entries.
LEMMA CompactEffect ==
  ASSUME NEW x \in States, x.hdr.arr # 0
  PROVE  /\ CompactExpired(x) \in States /\ Grows(x.mem, CompactExpired(x).mem)
         /\ CompactExpired(x).hdr.arr = x.hdr.arr
         /\ CompactExpired(x).hdr.len <= x.hdr.len
<1> DEFINE m == x.mem
           h == x.hdr
           a == m[h.arr]
<1>1. /\ m \in Heaps /\ h \in Headers /\ Written(m, h) /\ SliceOf(m, h)
      /\ h.len \in Nat /\ h.arr \in Nat
    BY DEF States, Written, Headers
<1>2. CASE h.len > (MaxEntries * 3) \div 2
  <2> DEFINE fresh == {i \in 1..h.len : ~Expired(a[i], now)}
             c == Cardinality(fresh)
             f == FreshIn(m, h)
             b == [i \in 1..Len(a) |-> IF i \in DOMAIN f THEN a[f[i]] ELSE a[i]]
             n == [m EXCEPT ![h.arr] = b]
             g == [h EXCEPT !.len = Cardinality(DOMAIN f)]
  <2>1. /\ h.arr \in 1..Len(m) /\ h.len \in 0..Len(a) /\ Len(a) \in Nat
        /\ a \in Seq(Cells) /\ m \in Seq(Seq(Cells))
    <3>1. h.arr \in 1..Len(m) /\ h.len \in 0..Len(a) /\ Len(a) \in Nat
        BY <1>1, SliceEnd
    <3> QED
        BY <1>1, <3>1, ArrayType DEF Heaps, Cells
  <2>2. c \in Nat /\ c <= h.len
    <3>1. IsFiniteSet(1..h.len) /\ Cardinality(1..h.len) = h.len
        BY <1>1, UpTo
    <3>2. fresh \in SUBSET (1..h.len)
        OBVIOUS
    <3> HIDE DEF fresh
    <3>3. IsFiniteSet(fresh) /\ Cardinality(fresh) <= h.len
        BY <3>1, <3>2, FS_Subset
    <3> QED
        BY <3>3, FS_CardinalityType
  <2>3. f \in [1..c -> fresh]
    <3>1. fresh \in SUBSET (1..h.len)
        OBVIOUS
    <3>2. \E o \in [1..c -> fresh] : \A j, k \in 1..c : j < k => o[j] < o[k]
      <4> HIDE DEF fresh
      <4> QED
          BY <1>1, <3>1, InOrder
    <3>3. \E o \in [1..c -> fresh] : \A j, k \in DOMAIN o : j < k => o[j] < o[k]
      <4> HIDE DEF fresh, c
      <4> QED
          BY <3>2
    <3> QED
        BY <3>3 DEF FreshIn
  <2>4. CompactExpired(x) = [mem |-> n, hdr |-> g]
      BY <1>2 DEF CompactExpired, Compacted
  <2> HIDE DEF f, c
  <2>5. ASSUME NEW i \in 1..c PROVE f[i] \in 1..h.len
      BY <2>3
  <2>6. ASSUME NEW i \in 1..Len(a)
        PROVE  b[i] \in Cells /\ (a[i] # Empty => b[i] # Empty)
    <3>1. CASE i \in 1..c
      <4>1. a[f[i]] \in Entries
          BY <1>1, <2>5, <3>1, CellOfSlice
      <4>2. b[i] = a[f[i]]
          BY <2>3, <3>1
      <4> QED
          BY <4>1, <4>2, EntryWritten
    <3>2. CASE i \notin 1..c
      <4>1. b[i] = a[i]
          BY <2>3, <3>2
      <4> QED
          BY <2>1, <4>1, ElementOfSeq
    <3> QED
        BY <3>1, <3>2
  <2> HIDE DEF a
  <2>7. b \in Seq(Cells) /\ Len(b) = Len(a)
    <3>1. b \in [1..Len(a) -> Cells]
        BY <2>6
    <3> HIDE DEF b
    <3> QED
        BY <2>1, <3>1, UpTo
  <2> HIDE DEF b
  <2>8. /\ n \in Seq(Seq(Cells)) /\ Len(n) = Len(m)
        /\ \A d \in 1..Len(m) : n[d] = IF d = h.arr THEN b ELSE m[d]
    <3> HIDE DEF m, h
    <3> QED
        BY <2>1, <2>7, ExceptSeq
  <2> HIDE DEF n
  <2>9. n \in Heaps
      BY <2>8 DEF Heaps, Cells
  <2>10. Grows(m, n)
    <3>1. Len(m) \in Nat
        BY <1>1, ArrayType
    <3>2. ASSUME NEW d \in 1..Len(m)
          PROVE  /\ Len(n[d]) = Len(m[d])
                 /\ \A i \in 1..Len(m[d]) : m[d][i] # Empty => n[d][i] # Empty
      <4>1. CASE d = h.arr
          BY <2>6, <2>7, <2>8, <4>1 DEF a
      <4>2. CASE d # h.arr
          BY <2>8, <4>2
      <4> QED
          BY <4>1, <4>2
    <3> QED
        BY <2>8, <3>1, <3>2 DEF Grows
  <2>11. g.arr = h.arr /\ g.len = c /\ g \in Headers
    <3>1. DOMAIN f = 1..c
        BY <2>3
    <3>2. Cardinality(1..c) = c
        BY <2>2, UpTo
    <3> QED
        BY <1>1, <2>2, <3>1, <3>2 DEF Headers
  <2> HIDE DEF g
  <2>12. Written(n, g)
    <3>1. Written(n, h)
        BY <1>1, <2>9, <2>10, GrowsSlice
    <3>2. SliceOf(n, g)
        BY <1>1, <2>2, <2>11, <3>1 DEF SliceOf, Written, Headers
    <3>3. \A j \in 1..g.len : j \in 1..h.len
        BY <1>1, <2>2, <2>11
    <3> QED
        BY <2>11, <3>1, <3>2, <3>3 DEF Written
  <2> QED
      BY <2>2, <2>4, <2>9, <2>10, <2>11, <2>12 DEF States
<1>3. CASE ~(h.len > (MaxEntries * 3) \div 2)
    BY <1>1, <1>3, GrowsSame DEF CompactExpired
<1> QED
    BY <1>2, <1>3

LEMMA RemovedEffect ==
  ASSUME NEW x \in States, NEW i \in Nat \ {0}
  PROVE  /\ Removed(i, x) \in States /\ Grows(x.mem, Removed(i, x).mem)
         /\ Removed(i, x).hdr.arr = x.hdr.arr
         /\ Removed(i, x).hdr.len <= x.hdr.len
<1>1. /\ x.mem \in Heaps /\ x.hdr \in Headers /\ Written(x.mem, x.hdr)
      /\ x.hdr.len \in Nat
    BY DEF States, Headers
<1>2. CASE i > x.hdr.len
    BY <1>1, <1>2, GrowsSame DEF Removed
<1>3. CASE ~(i > x.hdr.len)
  <2>1. i \in 1..x.hdr.len
      BY <1>1, <1>3
  <2>2. Removed(i, x) = SwapRemove(x.mem, x.hdr, i)
      BY <1>3 DEF Removed
  <2> QED
      BY <1>1, <2>1, <2>2, SwapEffect
<1> QED
    BY <1>2, <1>3

LEMMA RemoveEffect ==
  ASSUME NEW m \in Heaps, NEW h \in Headers, Written(m, h), NEW indices \in Seq(Nat \ {0})
  PROVE  LET s == RemoveIndices(m, h, indices)
         IN  /\ s \in States /\ Grows(m, s.mem)
             /\ s.hdr.arr = h.arr /\ s.hdr.len <= h.len
<1> DEFINE S == DOMAIN indices
           c == [s \in SUBSET S |-> Min(s)]
<1>1. S = 1..Len(indices) /\ Len(indices) \in Nat /\ IsFiniteSet(S)
    BY UpTo
<1>2. Chooses(c, S)
    BY <1>1, Ends DEF Chooses
<1>3. PICK it : RemovesBy(it, m, h, indices) /\ RemoveIndices(m, h, indices) = it[S]
  <2>1. \A i \in Nat \ {0} : \A x \in States : Removed(i, x) \in States
      BY RemovedEffect
  <2> QED
      BY <2>1, RemoveIsFold
<1> DEFINE Kept(x) == /\ x \in States /\ Grows(m, x.mem)
                      /\ x.hdr.arr = h.arr /\ x.hdr.len <= h.len
           U == {s \in SUBSET S : Kept(it[s])}
<1>4. {} \in U
    BY <1>3, GrowsSame DEF RemovesBy, States, Headers
<1>5. ASSUME NEW s \in SUBSET S, s # {}, s \ {c[s]} \in U PROVE s \in U
  <2> DEFINE i == indices[Min(s)]
             x == it[s \ {Min(s)}]
  <2>1. Min(s) \in S /\ Min(s) \in s
      BY <1>1, <1>5, Ends
  <2>2. i \in Nat \ {0}
      BY <2>1
  <2>3. Kept(x)
      BY <1>5
  <2>4. it[s] = Removed(i, x)
      BY <1>3, <1>5 DEF RemovesBy
  <2> HIDE DEF i, x
  <2>5. /\ it[s] \in States /\ Grows(x.mem, it[s].mem)
        /\ it[s].hdr.arr = x.hdr.arr /\ it[s].hdr.len <= x.hdr.len
      BY <2>2, <2>3, <2>4, RemovedEffect
  <2>6. Grows(m, it[s].mem)
    <3>1. x.mem \in Heaps /\ it[s].mem \in Heaps
        BY <2>3, <2>5 DEF States
    <3> QED
        BY <2>3, <2>5, <3>1, GrowsTwice
  <2>7. it[s].hdr.len <= h.len
    <3>1. x.hdr.len \in Nat /\ it[s].hdr.len \in Nat /\ h.len \in Nat
        BY <2>3, <2>5 DEF States, Headers
    <3> QED
        BY <2>3, <2>5, <3>1
  <2> QED
      BY <2>3, <2>5, <2>6, <2>7
<1>6. S \in U
  <2>1. Inductive(U, c, S)
      BY <1>4, <1>5 DEF Inductive
  <2> HIDE DEF U, S, c
  <2> QED
      BY <1>1, <1>2, <2>1, SubsetInduction
<1> QED
    BY <1>3, <1>6

LEMMA RecoverEffect ==
  ASSUME NEW m \in Heaps, NEW h \in Headers, Written(m, h), NEW prompts \in Seq(Prompt),
         now \in 0..MaxTime
  PROVE  LET s == AppendAll(m, h, prompts)
         IN  s \in States /\ Grows(m, s.mem)
<1> DEFINE S == DOMAIN prompts
           c == [s \in SUBSET S |-> Max(s)]
<1>1. S = 1..Len(prompts) /\ Len(prompts) \in Nat /\ IsFiniteSet(S)
    BY UpTo
<1>2. Chooses(c, S)
    BY <1>1, Ends DEF Chooses
<1>a. ASSUME NEW p \in Prompt, NEW x \in States
      PROVE  Appended(p, x) \in States /\ Grows(x.mem, Appended(p, x).mem)
  <2>1. Entry(p, now, now) \in Entries
      BY DEF Entry, Entries
  <2>2. x.mem \in Heaps /\ x.hdr \in Headers /\ Written(x.mem, x.hdr)
      BY DEF States
  <2> QED
      BY <2>1, <2>2, AppendEffect DEF Appended
<1>3. PICK it : AppendsBy(it, m, h, prompts) /\ AppendAll(m, h, prompts) = it[S]
  <2>1. \A p \in Prompt : \A x \in States : Appended(p, x) \in States
      BY <1>a
  <2> QED
      BY <2>1, AppendIsFold
<1> DEFINE U == {s \in SUBSET S : it[s] \in States /\ Grows(m, it[s].mem)}
<1>4. {} \in U
    BY <1>3, GrowsSame DEF AppendsBy, States
<1>5. ASSUME NEW s \in SUBSET S, s # {}, s \ {c[s]} \in U PROVE s \in U
  <2> DEFINE p == prompts[Max(s)]
             x == it[s \ {Max(s)}]
  <2>1. Max(s) \in S /\ Max(s) \in s
      BY <1>1, <1>5, Ends
  <2>2. p \in Prompt
      BY <2>1
  <2>3. x \in States /\ Grows(m, x.mem)
      BY <1>5
  <2>4. it[s] = Appended(p, x)
      BY <1>3, <1>5 DEF AppendsBy
  <2> HIDE DEF p, x
  <2>5. it[s] \in States /\ Grows(x.mem, it[s].mem)
      BY <1>a, <2>2, <2>3, <2>4
  <2>6. Grows(m, it[s].mem)
    <3>1. x.mem \in Heaps /\ it[s].mem \in Heaps
        BY <2>3, <2>5 DEF States
    <3> QED
        BY <2>3, <2>5, <3>1, GrowsTwice
  <2> QED
      BY <2>5, <2>6
<1>6. S \in U
  <2>1. Inductive(U, c, S)
      BY <1>4, <1>5 DEF Inductive
  <2> HIDE DEF U, S, c
  <2> QED
      BY <1>1, <1>2, <2>1, SubsetInduction
<1> QED
    BY <1>3, <1>6

LEMMA StoreEffect ==
  ASSUME NEW m \in Heaps, NEW h \in Headers, Written(m, h), NEW e \in Entries
  PROVE  LET s == CompactExpired(EvictOne(AppendTo(m, h, e)))
         IN  /\ s \in States /\ Grows(m, s.mem)
             /\ s.hdr.len <= (IF h.len >= MaxEntries THEN h.len ELSE h.len + 1)
<1> DEFINE x == AppendTo(m, h, e)
           y == EvictOne(x)
           z == CompactExpired(y)
<1>1. x \in States /\ Grows(m, x.mem) /\ x.hdr.len = h.len + 1 /\ x.hdr.arr # 0
    BY AppendEffect
<1> HIDE DEF x
<1>2. /\ y \in States /\ Grows(x.mem, y.mem) /\ y.hdr.arr = x.hdr.arr
      /\ y.hdr.len = IF x.hdr.len > MaxEntries THEN x.hdr.len - 1 ELSE x.hdr.len
    BY <1>1, EvictEffect
<1> HIDE DEF y
<1>3. z \in States /\ Grows(y.mem, z.mem) /\ z.hdr.len <= y.hdr.len
    BY <1>1, <1>2, CompactEffect
<1> HIDE DEF z
<1>4. x.mem \in Heaps /\ y.mem \in Heaps /\ z.mem \in Heaps
    BY <1>1, <1>2, <1>3 DEF States
<1>5. Grows(m, z.mem)
  <2>1. Grows(m, y.mem)
      BY <1>1, <1>2, <1>4, GrowsTwice
  <2> QED
      BY <1>3, <1>4, <2>1, GrowsTwice
<1>6. /\ h.len \in Nat /\ x.hdr.len \in Nat /\ y.hdr.len \in Nat /\ z.hdr.len \in Nat
      /\ MaxEntries \in Nat
    BY <1>1, <1>2, <1>3, CacheAssumption DEF States, Headers
<1>7. z.hdr.len <= (IF h.len >= MaxEntries THEN h.len ELSE h.len + 1)
    BY <1>1, <1>2, <1>3, <1>6
<1> QED
    BY <1>3, <1>5, <1>7 DEF x, y, z

(***************************************************************************)
(* The invariant                                                           *)
(***************************************************************************)

Cursor(m, p) == m[p.arr][p.idx]

\* A lookup only reads cells that were written, and points to one.
ReaderOK(m, l) ==
  /\ l \in ReadType
  /\ Written(m, l.h)
  /\ l.pc # "idle" => l.q \in Prompt /\ l.i > 0
  /\ l.pc = "idle" => l.expired = <<>>
  /\ l.best # NoBest => /\ l.best.arr \in DOMAIN m
                        /\ l.best.idx \in DOMAIN m[l.best.arr]
                        /\ Cursor(m, l.best) # Empty
  /\ l.pc = "score" => l.i <= l.h.len
  /\ l.pc = "respond" => l.best # NoBest

WriterOK(l) ==
  /\ l \in [pc : {"idle", "store"}, entry : Entries \cup {Empty}]
  /\ l.pc = "store" => l.entry \in Entries

Shape ==
  /\ setup \in Setups
  /\ mem \in Heaps /\ hdr \in Headers /\ Written(mem, hdr)
  /\ now \in 0..MaxTime
  /\ rd \in [Readers -> ReadType] /\ \A r \in Readers : ReaderOK(mem, rd[r])
  /\ wr \in [Writers -> [pc : {"idle", "store"}, entry : Entries \cup {Empty}]]
  /\ \A w \in Writers : WriterOK(wr[w])
  /\ recovered \in BOOLEAN

\* The places a lookup found expired are those up to its index that had, in order.
Listed(m, h, l) ==
  /\ \A k \in 1..Len(l.expired) :
       /\ l.expired[k] \in 1..h.len /\ l.expired[k] < l.i
       /\ Expired(m[h.arr][l.expired[k]], l.t)
  /\ \A j, k \in 1..Len(l.expired) : j < k => l.expired[j] < l.expired[k]
  /\ \A i \in 1..h.len : i < l.i /\ Expired(m[h.arr][i], l.t) =>
       \E k \in 1..Len(l.expired) : l.expired[k] = i

\* Its best is fresh and similar, and no fresh entry up to its index is better.
Ranked(m, h, l) ==
  /\ l.score >= Threshold
  /\ \A i \in 1..h.len : i < l.i /\ ~Expired(m[h.arr][i], l.t) =>
       Score[<<l.q, m[h.arr][i].of>>] <= l.score
  /\ l.best # NoBest => /\ ~Expired(Cursor(m, l.best), l.t)
                        /\ Score[<<l.q, Cursor(m, l.best).of>>] = l.score

\* A lookup alone has the current slice until it has removed what expired.
Follows(m, h, l) ==
  /\ h.len <= l.h.len
  /\ l.i <= l.h.len \/ l.expired # <<>> => l.h = h
  /\ l.pc = "clock" => l.i = 1 /\ l.expired = <<>> /\ l.best = NoBest
  /\ l.pc = "score" => ~Expired(m[h.arr][l.i], l.t)
  /\ l.pc = "respond" => l.i > l.h.len /\ l.expired = <<>>

LookupAlone(m, h, l) == Listed(m, h, l) /\ Ranked(m, h, l) /\ Follows(m, h, l)

Alone(r) ==
  /\ \A q \in Readers : rd[q].pc # "idle" => q = r
  /\ \A w \in Writers : wr[w].pc = "idle"

Serial ==
  setup.serial => \A r \in Readers : rd[r].pc # "idle" =>
                    Alone(r) /\ LookupAlone(mem, hdr, rd[r])

IInv == Shape /\ Serial

(***************************************************************************)
(* Every step keeps the shape                                              *)
(***************************************************************************)

\* A lookup's variables stay sound when the heap grows.
LEMMA ReaderGrows ==
  ASSUME NEW m \in Heaps, NEW n \in Heaps, Grows(m, n), NEW l, ReaderOK(m, l)
  PROVE  ReaderOK(n, l)
<1>1. l \in ReadType /\ l.h \in Headers
    BY DEF ReaderOK, ReadType, Headers
<1>2. Written(n, l.h)
    BY <1>1, GrowsSlice DEF ReaderOK
<1>3. ASSUME l.best # NoBest
      PROVE  /\ l.best.arr \in DOMAIN n /\ l.best.idx \in DOMAIN n[l.best.arr]
             /\ Cursor(n, l.best) # Empty
  <2>1. /\ l.best.arr \in 1..Len(m) /\ l.best.idx \in 1..Len(m[l.best.arr])
        /\ m[l.best.arr][l.best.idx] # Empty
      BY <1>3, ArrayType DEF ReaderOK, Cursor
  <2>2. /\ Len(n[l.best.arr]) = Len(m[l.best.arr]) /\ Len(m) <= Len(n)
        /\ n[l.best.arr][l.best.idx] # Empty
      BY <2>1 DEF Grows
  <2>3. Len(m) \in Nat /\ Len(n) \in Nat
      BY ArrayType
  <2>4. l.best.arr \in 1..Len(n)
      BY <2>1, <2>2, <2>3
  <2> QED
      BY <2>1, <2>2, <2>4, ArrayType DEF Cursor
<1> QED
    BY <1>1, <1>2, <1>3 DEF ReaderOK

\* A step of one lookup that changes nothing but its variables.
LEMMA ShapeRead ==
  ASSUME Shape, NEW r \in Readers, NEW l, ReaderOK(mem, l), rd' = [rd EXCEPT ![r] = l],
         UNCHANGED <<setup, mem, hdr, now, wr, recovered>>
  PROVE  Shape'
<1>1. l \in ReadType
    BY DEF ReaderOK
<1>2. rd' \in [Readers -> ReadType] /\ \A q \in Readers : rd'[q] = IF q = r THEN l ELSE rd[q]
    BY <1>1 DEF Shape
<1>3. \A q \in Readers : ReaderOK(mem', rd'[q])
    BY <1>2 DEF Shape
<1> QED
    BY <1>2, <1>3 DEF Shape

\* A step that only writes entries into the heap.
LEMMA ShapeHeap ==
  ASSUME Shape, mem' \in Heaps, Grows(mem, mem'), hdr' \in Headers, Written(mem', hdr')
  PROVE  \A r \in Readers : ReaderOK(mem', rd[r])
  BY ReaderGrows DEF Shape

LEMMA IdleReads ==
  ASSUME Shape
  PROVE  ReaderOK(mem, IdleRead)
<1>1. IdleRead \in ReadType
    BY CacheAssumption DEF IdleRead, ReadType, Nil, NoBest
<1>2. Written(mem, IdleRead.h)
    BY ArrayType DEF Shape, IdleRead, Nil, Written, SliceOf
<1> QED
    BY <1>1, <1>2 DEF ReaderOK, IdleRead

\* The fields of a lookup that a step of its scan changes.
LEMMA ReadUpdates ==
  ASSUME NEW l \in ReadType, NEW i \in Nat, NEW e \in Seq(Nat \ {0})
  PROVE  /\ [l EXCEPT !.pc = "scan", !.i = i] \in ReadType
         /\ [l EXCEPT !.expired = e] \in ReadType
         /\ [l EXCEPT !.expired = e, !.i = i] \in ReadType
<1> DEFINE S == Seq(Nat \ {0})
           T == [pc : {"idle", "clock", "scan", "score", "respond"},
                 q : Prompt \cup {NoPrompt}, h : [arr : Nat, len : Nat], t : 0..MaxTime,
                 i : Nat, best : [arr : Nat, idx : Nat], score : Nat, expired : S]
<1>1. ReadType = T
    BY DEF ReadType
<1>2. e \in S
    OBVIOUS
<1> HIDE DEF S
<1>3. /\ [l EXCEPT !.pc = "scan", !.i = i] \in T
      /\ [l EXCEPT !.expired = e] \in T
      /\ [l EXCEPT !.expired = e, !.i = i] \in T
    BY <1>1, <1>2
<1> HIDE DEF T
<1> QED
    BY <1>1, <1>3

LEMMA ReadRanked ==
  ASSUME NEW l \in ReadType, NEW i \in Nat, NEW n \in Nat, NEW p \in [arr : Nat, idx : Nat]
  PROVE  [l EXCEPT !.pc = "scan", !.i = i, !.score = n, !.best = p] \in ReadType
<1> DEFINE S == Seq(Nat \ {0})
           T == [pc : {"idle", "clock", "scan", "score", "respond"},
                 q : Prompt \cup {NoPrompt}, h : [arr : Nat, len : Nat], t : 0..MaxTime,
                 i : Nat, best : [arr : Nat, idx : Nat], score : Nat, expired : S]
<1>1. ReadType = T
    BY DEF ReadType
<1> HIDE DEF S
<1>2. [l EXCEPT !.pc = "scan", !.i = i, !.score = n, !.best = p] \in T
    BY <1>1
<1> HIDE DEF T
<1> QED
    BY <1>1, <1>2

LEMMA ShapeLookupStart ==
  ASSUME Shape, NEW r \in Readers, LookupStart(r)
  PROVE  Shape'
<1>1. PICK q \in setup.prompts :
        rd' = [rd EXCEPT ![r] = [IdleRead EXCEPT !.pc = "clock", !.q = q, !.h = hdr,
                                                 !.i = 1, !.score = Threshold]]
    BY DEF LookupStart
<1> DEFINE l == [IdleRead EXCEPT !.pc = "clock", !.q = q, !.h = hdr,
                                 !.i = 1, !.score = Threshold]
<1>2. q \in Prompt /\ hdr \in Headers /\ Written(mem, hdr)
    BY CacheAssumption DEF Shape
<1>3. /\ l.pc = "clock" /\ l.q = q /\ l.h = hdr /\ l.t = 0 /\ l.i = 1
      /\ l.best = NoBest /\ l.score = Threshold /\ l.expired = <<>>
    BY DEF IdleRead
<1>4. l \in ReadType
  <2>1. IdleRead \in ReadType
      BY IdleReads DEF ReaderOK
  <2> QED
      BY <1>2, <2>1, CacheAssumption DEF ReadType, Headers
<1> HIDE DEF l
<1>5. ReaderOK(mem, l)
    BY <1>2, <1>3, <1>4 DEF ReaderOK
<1> QED
    BY <1>1, <1>5, ShapeRead DEF LookupStart, l

LEMMA ShapeReadClock ==
  ASSUME Shape, NEW r \in Readers, ReadClock(r)
  PROVE  Shape'
<1> DEFINE l == [rd[r] EXCEPT !.pc = "scan", !.t = now]
<1>1. rd' = [rd EXCEPT ![r] = l]
    BY DEF ReadClock, Shape
<1>2. ReaderOK(mem, rd[r]) /\ rd[r].pc = "clock" /\ rd[r] \in ReadType /\ now \in 0..MaxTime
    BY DEF Shape, ReadClock
<1>3. ReaderOK(mem, l)
    BY <1>2 DEF ReaderOK, ReadType
<1> HIDE DEF l
<1> QED
    BY <1>1, <1>3, ShapeRead DEF ReadClock

LEMMA ShapeScan ==
  ASSUME Shape, NEW r \in Readers, Scan(r)
  PROVE  Shape'
<1> DEFINE a == [rd[r] EXCEPT !.expired = Append(@, rd[r].i), !.i = @ + 1]
           b == [rd[r] EXCEPT !.pc = "score"]
<1>1. rd' = [rd EXCEPT ![r] = a] \/ rd' = [rd EXCEPT ![r] = b]
  <2>1. CASE Expired(Cell(r), rd[r].t)
      BY <2>1 DEF Scan, Shape
  <2>2. CASE ~Expired(Cell(r), rd[r].t)
      BY <2>2 DEF Scan, Shape
  <2> QED
      BY <2>1, <2>2
<1>2. /\ ReaderOK(mem, rd[r]) /\ rd[r].pc = "scan" /\ rd[r] \in ReadType
      /\ rd[r].i > 0 /\ rd[r].i <= rd[r].h.len
    BY DEF Shape, Scan, ReaderOK
<1>3. ReaderOK(mem, a)
  <2>1. Append(rd[r].expired, rd[r].i) \in Seq(Nat \ {0})
      BY <1>2, AppendProperties DEF ReadType
  <2>0. rd[r].i + 1 \in Nat
      BY <1>2 DEF ReadType
  <2>2. a \in ReadType
      BY <1>2, <2>0, <2>1, ReadUpdates
  <2>3. /\ a.pc = rd[r].pc /\ a.q = rd[r].q /\ a.h = rd[r].h /\ a.best = rd[r].best
        /\ a.i = rd[r].i + 1 /\ rd[r].i \in Nat
      BY <1>2 DEF ReadType
  <2> HIDE DEF a
  <2>4. a.i > 0
      BY <1>2, <2>3
  <2> QED
      BY <1>2, <2>2, <2>3, <2>4 DEF ReaderOK
<1>4. ReaderOK(mem, b)
    BY <1>2 DEF ReaderOK, ReadType
<1> HIDE DEF a, b
<1> QED
    BY <1>1, <1>3, <1>4, ShapeRead DEF Scan

LEMMA ShapeCompare ==
  ASSUME Shape, NEW r \in Readers, Compare(r)
  PROVE  Shape'
<1> DEFINE s == Score[<<rd[r].q, Cell(r).of>>]
           p == [arr |-> rd[r].h.arr, idx |-> rd[r].i]
           a == [rd[r] EXCEPT !.pc = "scan", !.i = @ + 1, !.score = s, !.best = p]
           b == [rd[r] EXCEPT !.pc = "scan", !.i = @ + 1]
<1>1. rd' = [rd EXCEPT ![r] = a] \/ rd' = [rd EXCEPT ![r] = b]
  <2>1. CASE Better(s, rd[r])
      BY <2>1 DEF Compare, Shape
  <2>2. CASE ~Better(s, rd[r])
      BY <2>2 DEF Compare, Shape
  <2> QED
      BY <2>1, <2>2
<1>2. /\ ReaderOK(mem, rd[r]) /\ rd[r].pc = "score" /\ rd[r] \in ReadType /\ rd[r].i > 0
      /\ rd[r].i <= rd[r].h.len /\ rd[r].q \in Prompt /\ mem \in Heaps
      /\ rd[r].h \in Headers /\ rd[r].i \in Nat /\ rd[r].i + 1 \in Nat
    BY DEF Shape, Compare, ReaderOK, ReadType, Headers
<1>3. /\ rd[r].h.arr \in 1..Len(mem) /\ rd[r].i \in 1..Len(mem[rd[r].h.arr])
      /\ Cell(r) \in Entries
  <2>1. rd[r].i \in 1..rd[r].h.len
      BY <1>2 DEF Headers
  <2>2. Written(mem, rd[r].h)
      BY <1>2 DEF ReaderOK
  <2> QED
      BY <1>2, <2>1, <2>2, CellOfSlice DEF Cell
<1>4. s \in Nat
    BY <1>2, <1>3, CacheAssumption DEF Entries
<1> HIDE DEF s
<1>5. /\ p \in [arr : Nat, idx : Nat] /\ p.arr \in DOMAIN mem /\ p.idx \in DOMAIN mem[p.arr]
      /\ Cursor(mem, p) # Empty
    BY <1>2, <1>3, ArrayType, EntryWritten DEF Cursor, Headers, Cell
<1> HIDE DEF p
<1>6. ReaderOK(mem, a)
  <2>1. a \in ReadType
      BY <1>2, <1>4, <1>5, ReadRanked
  <2>2. /\ a.pc = "scan" /\ a.q = rd[r].q /\ a.h = rd[r].h /\ a.best = p
        /\ a.i = rd[r].i + 1
      BY <1>2 DEF ReadType
  <2> HIDE DEF a
  <2>3. a.i > 0
      BY <1>2, <2>2
  <2> QED
      BY <1>2, <1>5, <2>1, <2>2, <2>3 DEF ReaderOK
<1>7. ReaderOK(mem, b)
  <2>0. rd[r].expired \in Seq(Nat \ {0})
      BY <1>2 DEF ReadType
  <2>1. b \in ReadType
      BY <1>2, <2>0, ReadUpdates
  <2>2. /\ b.pc = "scan" /\ b.q = rd[r].q /\ b.h = rd[r].h /\ b.best = rd[r].best
        /\ b.i = rd[r].i + 1
      BY <1>2 DEF ReadType
  <2> HIDE DEF b
  <2>3. b.i > 0
      BY <1>2, <2>2
  <2> QED
      BY <1>2, <2>1, <2>2, <2>3 DEF ReaderOK
<1> HIDE DEF a, b
<1> QED
    BY <1>1, <1>6, <1>7, ShapeRead DEF Compare

LEMMA ShapeLookupEnd ==
  ASSUME Shape, NEW r \in Readers, LookupMiss(r) \/ LookupHit(r)
  PROVE  Shape'
<1>1. /\ rd' = [rd EXCEPT ![r] = IdleRead]
      /\ UNCHANGED <<setup, mem, hdr, now, wr, recovered>>
    BY DEF LookupMiss, LookupHit
<1>2. ReaderOK(mem, IdleRead)
    BY IdleReads
<1> QED
    BY <1>1, <1>2, ShapeRead

LEMMA ShapeRemoveExpired ==
  ASSUME Shape, NEW r \in Readers, RemoveExpired(r)
  PROVE  Shape' /\ Grows(mem, mem') /\ hdr'.len <= hdr.len
<1> DEFINE l == [rd[r] EXCEPT !.expired = <<>>]
           s == RemoveIndices(mem, hdr, rd[r].expired)
<1>1. /\ mem' = s.mem /\ hdr' = s.hdr /\ rd' = [rd EXCEPT ![r] = l]
      /\ UNCHANGED <<setup, now, wr, recovered>>
    BY DEF RemoveExpired, Shape
<1>2. /\ ReaderOK(mem, rd[r]) /\ rd[r] \in ReadType /\ rd[r].expired \in Seq(Nat \ {0})
      /\ mem \in Heaps /\ hdr \in Headers /\ Written(mem, hdr)
    BY DEF Shape, ReadType
<1>3. s \in States /\ Grows(mem, s.mem) /\ s.hdr.len <= hdr.len
    BY <1>2, RemoveEffect
<1> HIDE DEF s
<1>4. mem' \in Heaps /\ Grows(mem, mem') /\ hdr' \in Headers /\ Written(mem', hdr')
    BY <1>1, <1>3 DEF States
<1>5. \A q \in Readers : ReaderOK(mem', rd[q])
    BY <1>4, ShapeHeap
<1>6. ReaderOK(mem', l)
  <2>1. l \in ReadType
      BY <1>2, EmptySeq DEF ReadType
  <2>2. /\ l.pc = rd[r].pc /\ l.q = rd[r].q /\ l.h = rd[r].h /\ l.best = rd[r].best
        /\ l.i = rd[r].i /\ l.expired = <<>>
      BY <1>2 DEF ReadType
  <2>3. ReaderOK(mem', rd[r])
      BY <1>5
  <2> HIDE DEF l
  <2> QED
      BY <2>1, <2>2, <2>3 DEF ReaderOK
<1>7. l \in ReadType
    BY <1>6 DEF ReaderOK
<1> HIDE DEF l
<1>8. rd' \in [Readers -> ReadType] /\ \A q \in Readers : rd'[q] = IF q = r THEN l ELSE rd[q]
    BY <1>1, <1>7 DEF Shape
<1>9. \A q \in Readers : ReaderOK(mem', rd'[q])
    BY <1>5, <1>6, <1>8
<1> QED
    BY <1>1, <1>3, <1>4, <1>8, <1>9 DEF Shape

\* What is touched is an entry, and keeps its content and its age.
LEMMA TouchEffect ==
  ASSUME Shape, NEW r \in Readers, Touch(r)
  PROVE  /\ mem' \in Heaps /\ Grows(mem, mem') /\ Len(mem') = Len(mem)
         /\ \A a \in 1..Len(mem) :
              /\ Len(mem'[a]) = Len(mem[a])
              /\ \A i \in 1..Len(mem[a]) : /\ mem'[a][i].of = mem[a][i].of
                                           /\ mem'[a][i].storedAt = mem[a][i].storedAt
<1> DEFINE p == rd[r].best
           e == [mem[p.arr][p.idx] EXCEPT !.lastAccess = rd[r].t]
<1>1. mem' = [mem EXCEPT ![p.arr][p.idx] = e]
    BY DEF Touch
<1>2. /\ ReaderOK(mem, rd[r]) /\ rd[r] \in ReadType /\ p # NoBest /\ mem \in Heaps
    BY DEF Shape, Touch
<1>3. /\ p.arr \in 1..Len(mem) /\ p.idx \in 1..Len(mem[p.arr])
      /\ mem[p.arr][p.idx] # Empty
    BY <1>2, ArrayType DEF ReaderOK, Cursor
<1> HIDE DEF p
<1>4. mem[p.arr][p.idx] \in Entries
    BY <1>2, <1>3, ArrayType DEF Cells
<1>5. e \in Entries /\ e # Empty /\ e.of = mem[p.arr][p.idx].of
      /\ e.storedAt = mem[p.arr][p.idx].storedAt
  <2>1. rd[r].t \in 0..MaxTime
      BY <1>2 DEF ReadType
  <2>2. e \in Entries /\ e.of = mem[p.arr][p.idx].of
          /\ e.storedAt = mem[p.arr][p.idx].storedAt
      BY <1>4, <2>1 DEF Entries
  <2> QED
      BY <2>2, EntryWritten
<1> DEFINE n == [mem EXCEPT ![p.arr][p.idx] = e]
<1>n. mem' = n
    BY <1>1
<1> HIDE DEF e
<1>6. /\ n \in Heaps /\ Grows(mem, n) /\ Len(n) = Len(mem)
      /\ \A b \in 1..Len(mem) : b # p.arr => n[b] = mem[b]
      /\ Len(n[p.arr]) = Len(mem[p.arr])
      /\ \A j \in 1..Len(mem[p.arr]) :
            n[p.arr][j] = IF j = p.idx THEN e ELSE mem[p.arr][j]
  <2> DEFINE a == p.arr
             i == p.idx
  <2>1. /\ mem \in Heaps /\ a \in 1..Len(mem) /\ i \in 1..Len(mem[a])
        /\ e \in Entries /\ e # Empty
      BY <1>2, <1>3, <1>5
  <2> HIDE DEF a, i
  <2>2. LET o == [mem EXCEPT ![a][i] = e]
        IN  /\ o \in Heaps /\ Grows(mem, o) /\ Len(o) = Len(mem)
            /\ \A b \in 1..Len(mem) : b # a => o[b] = mem[b]
            /\ Len(o[a]) = Len(mem[a])
            /\ \A j \in 1..Len(mem[a]) : o[a][j] = IF j = i THEN e ELSE mem[a][j]
      BY <2>1, PutCell
  <2> QED
      BY <2>2 DEF a, i
<1> HIDE DEF n
<1>7. ASSUME NEW a \in 1..Len(mem)
      PROVE  /\ Len(n[a]) = Len(mem[a])
             /\ \A i \in 1..Len(mem[a]) : /\ n[a][i].of = mem[a][i].of
                                          /\ n[a][i].storedAt = mem[a][i].storedAt
  <2>1. CASE a = p.arr
      BY <1>5, <1>6, <2>1
  <2>2. CASE a # p.arr
      BY <1>6, <2>2
  <2> QED
      BY <2>1, <2>2
<1> QED
    BY <1>n, <1>6, <1>7

LEMMA ShapeTouch ==
  ASSUME Shape, NEW r \in Readers, Touch(r)
  PROVE  Shape'
<1> DEFINE l == [rd[r] EXCEPT !.pc = "respond"]
<1>1. rd' = [rd EXCEPT ![r] = l] /\ UNCHANGED <<setup, hdr, now, wr, recovered>>
    BY DEF Touch, Shape
<1>2. mem' \in Heaps /\ Grows(mem, mem')
    BY TouchEffect
<1>3. hdr \in Headers /\ Written(mem', hdr)
    BY <1>2, GrowsSlice DEF Shape
<1>4. \A q \in Readers : ReaderOK(mem', rd[q])
    BY <1>1, <1>2, <1>3, ShapeHeap
<1>5. ReaderOK(mem', l)
  <2>1. ReaderOK(mem', rd[r]) /\ rd[r].best # NoBest /\ rd[r].pc = "scan"
      BY <1>4 DEF Touch, Scanned
  <2> QED
      BY <2>1 DEF ReaderOK, ReadType
<1>6. l \in ReadType
    BY <1>5 DEF ReaderOK
<1> HIDE DEF l
<1>7. rd' \in [Readers -> ReadType] /\ \A q \in Readers : rd'[q] = IF q = r THEN l ELSE rd[q]
    BY <1>1, <1>6 DEF Shape
<1>8. \A q \in Readers : ReaderOK(mem', rd'[q])
    BY <1>4, <1>5, <1>7
<1> QED
    BY <1>1, <1>2, <1>3, <1>7, <1>8 DEF Shape

LEMMA ShapeStoreStart ==
  ASSUME Shape, NEW w \in Writers, StoreStart(w)
  PROVE  Shape'
<1>1. PICK p \in setup.prompts :
        wr' = [wr EXCEPT ![w] = [pc |-> "store", entry |-> Entry(p, now, now)]]
    BY DEF StoreStart
<1>2. Entry(p, now, now) \in Entries
    BY CacheAssumption DEF Shape, Entry, Entries
<1>3. WriterOK([pc |-> "store", entry |-> Entry(p, now, now)])
    BY <1>2 DEF WriterOK
<1>4. /\ wr' \in [Writers -> [pc : {"idle", "store"}, entry : Entries \cup {Empty}]]
      /\ \A v \in Writers : WriterOK(wr'[v])
    BY <1>1, <1>3 DEF Shape, WriterOK
<1>5. UNCHANGED <<setup, mem, hdr, now, rd, recovered>>
    BY DEF StoreStart
<1> QED
    BY <1>4, <1>5 DEF Shape

LEMMA ShapeStoreCommit ==
  ASSUME Shape, NEW w \in Writers, StoreCommit(w)
  PROVE  /\ Shape' /\ Grows(mem, mem')
         /\ hdr.len >= MaxEntries => hdr'.len <= hdr.len
<1> DEFINE s == CompactExpired(EvictOne(AppendTo(mem, hdr, wr[w].entry)))
<1>1. /\ mem' = s.mem /\ hdr' = s.hdr /\ wr' = [wr EXCEPT ![w] = IdleWrite]
      /\ UNCHANGED <<setup, now, rd, recovered>>
    BY DEF StoreCommit
<1>2. /\ wr[w].entry \in Entries /\ mem \in Heaps /\ hdr \in Headers /\ Written(mem, hdr)
    BY DEF Shape, WriterOK, StoreCommit
<1>3. /\ s \in States /\ Grows(mem, s.mem)
      /\ s.hdr.len <= (IF hdr.len >= MaxEntries THEN hdr.len ELSE hdr.len + 1)
    BY <1>2, StoreEffect
<1> HIDE DEF s
<1>4. mem' \in Heaps /\ Grows(mem, mem') /\ hdr' \in Headers /\ Written(mem', hdr')
    BY <1>1, <1>3 DEF States
<1>5. \A q \in Readers : ReaderOK(mem', rd'[q])
    BY <1>1, <1>4, ShapeHeap
<1>6. /\ wr' \in [Writers -> [pc : {"idle", "store"}, entry : Entries \cup {Empty}]]
      /\ \A v \in Writers : WriterOK(wr'[v])
  <2>1. WriterOK(IdleWrite)
      BY DEF WriterOK, IdleWrite
  <2> QED
      BY <1>1, <2>1 DEF Shape, WriterOK
<1> QED
    BY <1>1, <1>3, <1>4, <1>5, <1>6 DEF Shape

LEMMA ShapeLoad ==
  ASSUME Shape, LoadFromStore
  PROVE  Shape' /\ Grows(mem, mem')
<1> DEFINE s == AppendAll(mem, hdr, setup.persisted)
<1>1. /\ mem' = s.mem /\ hdr' = s.hdr /\ recovered' = TRUE
      /\ UNCHANGED <<setup, now, rd, wr>>
    BY DEF LoadFromStore
<1>2. /\ mem \in Heaps /\ hdr \in Headers /\ Written(mem, hdr) /\ now \in 0..MaxTime
      /\ setup.persisted \in Seq(Prompt)
    BY CacheAssumption DEF Shape
<1>3. s \in States /\ Grows(mem, s.mem)
    BY <1>2, RecoverEffect
<1> HIDE DEF s
<1>4. mem' \in Heaps /\ Grows(mem, mem') /\ hdr' \in Headers /\ Written(mem', hdr')
    BY <1>1, <1>3 DEF States
<1>5. \A q \in Readers : ReaderOK(mem', rd'[q])
    BY <1>1, <1>4, ShapeHeap
<1> QED
    BY <1>1, <1>4, <1>5 DEF Shape

LEMMA ShapeTick ==
  ASSUME Shape, Tick
  PROVE  Shape'
<1>1. now' \in 0..MaxTime
    BY CacheAssumption DEF Shape, Tick
<1> QED
    BY <1>1 DEF Shape, Tick

LEMMA ShapeInit ==
  ASSUME Init
  PROVE  Shape
<1>1. mem \in Heaps /\ hdr \in Headers /\ Written(mem, hdr) /\ Len(mem) = 0
    BY DEF Init, Heaps, Headers, Nil, Written, SliceOf
<1>2. setup \in Setups /\ now \in 0..MaxTime /\ recovered \in BOOLEAN
  <2>1. now = 0 /\ recovered = FALSE /\ setup \in Setups /\ MaxTime \in Nat
      BY CacheAssumption DEF Init
  <2>2. recovered \in BOOLEAN
      BY <2>1, Zenon
  <2>3. now \in 0..MaxTime
      BY <2>1
  <2> QED
      BY <2>1, <2>2, <2>3, Zenon
<1>3. ReaderOK(mem, IdleRead)
  <2>1. IdleRead \in ReadType
      BY CacheAssumption DEF IdleRead, ReadType, Nil, NoBest
  <2>2. Written(mem, IdleRead.h)
      BY <1>1 DEF IdleRead, Nil, Written, SliceOf
  <2> QED
      BY <2>1, <2>2 DEF ReaderOK, IdleRead
<1>4. rd \in [Readers -> ReadType] /\ \A r \in Readers : ReaderOK(mem, rd[r])
    BY <1>3 DEF Init, ReaderOK
<1>5. WriterOK(IdleWrite) /\ wr = [w \in Writers |-> IdleWrite]
    BY DEF WriterOK, IdleWrite, Init
<1> QED
    BY <1>1, <1>2, <1>4, <1>5 DEF Shape, WriterOK

\* Each step keeps the shape; none shrinks the heap or loses a written cell.
LEMMA ShapeStep ==
  ASSUME Shape, [Next]_vars
  PROVE  Shape'
<1>1. CASE UNCHANGED vars
    BY <1>1 DEF vars, Shape
<1>2. CASE Tick
    BY <1>2, ShapeTick
<1>3. CASE LoadFromStore
    BY <1>3, ShapeLoad
<1>4. ASSUME NEW r \in Readers,
             \/ LookupStart(r) \/ ReadClock(r) \/ Scan(r) \/ Compare(r)
             \/ RemoveExpired(r) \/ LookupMiss(r) \/ Touch(r) \/ LookupHit(r)
      PROVE  Shape'
    BY <1>4, ShapeLookupStart, ShapeReadClock, ShapeScan, ShapeCompare,
       ShapeRemoveExpired, ShapeLookupEnd, ShapeTouch
<1>5. ASSUME NEW w \in Writers, StoreStart(w) \/ StoreCommit(w)
      PROVE  Shape'
    BY <1>5, ShapeStoreStart, ShapeStoreCommit
<1> QED
    BY <1>1, <1>2, <1>3, <1>4, <1>5 DEF Next

\* Whatever overlaps, headers and pointers stay on written cells of arrays that exist.
THEOREM ShapeInvariant == Spec => []Shape
<1>1. Init => Shape
    BY ShapeInit
<1>2. Shape /\ [Next]_vars => Shape'
    BY ShapeStep
<1> QED
    BY <1>1, <1>2, PTL DEF Spec

\* The type invariant of the cache: every header, current or copied, is a slice of an
\* array that exists, and every pointer to a best entry points into one.
THEOREM TypeCorrect == Spec => []TypeOK
<1>1. Shape => TypeOK
  <2> SUFFICES ASSUME Shape PROVE TypeOK
      OBVIOUS
  <2>1. SliceOf(mem, hdr) /\ \A r \in Readers : SliceOf(mem, rd[r].h)
      BY DEF Shape, ReaderOK, Written
  <2>2. \A r \in Readers :
          /\ rd[r].pc # "idle" => rd[r].q \in Prompt
          /\ rd[r].best # NoBest => /\ rd[r].best.arr \in DOMAIN mem
                                    /\ rd[r].best.idx \in DOMAIN mem[rd[r].best.arr]
      BY DEF Shape, ReaderOK
  <2>3. \A w \in Writers : wr[w].pc = "store" => wr[w].entry \in Entries
      BY DEF Shape, WriterOK
  <2> QED
      BY <2>1, <2>2, <2>3 DEF Shape, TypeOK
<1> QED
    BY <1>1, ShapeInvariant, PTL

\* The scan of Lookup reads only entries that a Store or LoadFromStore wrote, even when
\* they move under it: no header covers a cell that append left empty.
THEOREM NoWindowHoldsAnUnwrittenCell == Spec => []WindowsHoldEntries
<1>1. Shape => WindowsHoldEntries
    BY DEF Shape, ReaderOK, Written, WindowsHoldEntries
<1> QED
    BY <1>1, ShapeInvariant, PTL

\* Store evicts as many entries as it appends once max_entries is reached, and
\* removeExpired only removes: a full cache does not grow but by LoadFromStore.
THEOREM FullCacheKeepsItsSize == Spec => FullCacheDoesNotGrow
<1>1. Shape /\ [Next]_vars =>
        [hdr.len >= MaxEntries /\ recovered' = recovered => hdr'.len <= hdr.len]_vars
  <2> SUFFICES ASSUME Shape, Next, recovered' = recovered, hdr.len >= MaxEntries
               PROVE  hdr'.len <= hdr.len
      BY DEF vars
  <2>0. hdr.len \in Nat
      BY DEF Shape, Headers
  <2>1. CASE Tick
      BY <2>0, <2>1 DEF Tick
  <2>2. CASE LoadFromStore
      BY <2>2 DEF LoadFromStore
  <2>3. ASSUME NEW r \in Readers,
               \/ LookupStart(r) \/ ReadClock(r) \/ Scan(r) \/ Compare(r)
               \/ RemoveExpired(r) \/ LookupMiss(r) \/ Touch(r) \/ LookupHit(r)
        PROVE  hdr'.len <= hdr.len
    <3>1. CASE RemoveExpired(r)
        BY <3>1, ShapeRemoveExpired
    <3>2. CASE ~RemoveExpired(r)
      <4>1. hdr' = hdr
          BY <2>3, <3>2
             DEF LookupStart, ReadClock, Scan, Compare, LookupMiss, Touch, LookupHit
      <4> QED
          BY <2>0, <4>1
    <3> QED
        BY <3>1, <3>2
  <2>4. ASSUME NEW w \in Writers, StoreStart(w) \/ StoreCommit(w)
        PROVE  hdr'.len <= hdr.len
    <3>1. CASE StoreStart(w)
        BY <2>0, <3>1 DEF StoreStart
    <3>2. CASE StoreCommit(w)
        BY <3>2, ShapeStoreCommit
    <3> QED
        BY <2>4, <3>1, <3>2
  <2> QED
      BY <2>1, <2>2, <2>3, <2>4 DEF Next
<1> QED
    BY <1>1, ShapeInvariant, PTL DEF Spec, FullCacheDoesNotGrow

(***************************************************************************)
(* What removeExpired computes for a lookup that runs alone                *)
(***************************************************************************)

\* The cells of the first n of a that are e.
Places(a, n, e) == {j \in 1..n : a[j] = e}

\* The last cell is moved to a place that is not e.
LEMMA CountMoved ==
  ASSUME NEW n \in Nat, NEW i \in 1..n, NEW a, NEW b, NEW e, a[i] # e,
         \A j \in 1..n - 1 : b[j] = IF j = i THEN a[n] ELSE a[j]
  PROVE  Cardinality(Places(b, n - 1, e)) = Cardinality(Places(a, n, e))
<1> DEFINE P == Places(a, n, e)
           Q == Places(b, n - 1, e)
<1>0. n \in 1..n /\ i \in Nat /\ i <= n /\ \A j \in 1..n : j # n => j \in 1..n - 1
    OBVIOUS
<1>1. CASE a[n] = e
  <2>1. n # i /\ n \in P /\ i \notin P
      BY <1>0, <1>1 DEF Places
  <2>2. Q = (P \ {n}) \cup {i}
    <3>1. ASSUME NEW j \in Q PROVE j \in (P \ {n}) \cup {i}
        BY <1>0, <3>1 DEF Places
    <3>2. ASSUME NEW j \in P, j # n PROVE j \in Q
        BY <1>0, <2>1, <3>2 DEF Places
    <3>3. i \in Q
        BY <1>0, <1>1, <2>1 DEF Places
    <3> QED
        BY <3>1, <3>2, <3>3
  <2>3. IsFiniteSet(P)
    <3>1. P \in SUBSET (1..n) /\ IsFiniteSet(1..n)
        BY FS_Interval DEF Places
    <3> QED
        BY <3>1, FS_Subset
  <2> HIDE DEF P, Q
  <2>4. IsFiniteSet(P \ {n}) /\ Cardinality(P \ {n}) = Cardinality(P) - 1
      BY <2>1, <2>3, FS_RemoveElement
  <2>5. Cardinality(Q) = Cardinality(P \ {n}) + 1
    <3>1. i \notin P \ {n}
        BY <2>1
    <3> QED
        BY <2>2, <2>4, <3>1, FS_AddElement
  <2>6. Cardinality(P) \in Nat
      BY <2>3, FS_CardinalityType
  <2>7. Cardinality(Q) = Cardinality(P)
      BY <2>4, <2>5, <2>6
  <2> QED
      BY <2>7 DEF P, Q
<1>2. CASE a[n] # e
  <2>1. ASSUME NEW j \in Q PROVE j \in P
      BY <1>0, <1>2, <2>1 DEF Places
  <2>2. ASSUME NEW j \in P PROVE j \in Q
      BY <1>0, <1>2, <2>2 DEF Places
  <2>3. P = Q
      BY <2>1, <2>2
  <2> QED
      BY <2>3
<1> QED
    BY <1>1, <1>2

\* x is what m and h became when the places in done were removed, and those in
\* rest, where the other entries expired at t are, were not yet.
Exact(m, h, t, done, rest, x) ==
  /\ x \in States
  /\ x.hdr.arr = h.arr /\ x.hdr.len <= h.len
  /\ Len(x.mem) = Len(m) /\ \A b \in 1..Len(m) : b # h.arr => x.mem[b] = m[b]
  /\ Len(x.mem[h.arr]) = Len(m[h.arr])
  /\ \A j \in 1..Len(m[h.arr]) : j \notin done => x.mem[h.arr][j] = m[h.arr][j]
  /\ \A j \in 1..x.hdr.len : Expired(x.mem[h.arr][j], t) => j \in rest
  /\ \A j \in 1..x.hdr.len : \E k \in 1..h.len : x.mem[h.arr][j] = m[h.arr][k]
  /\ \A e \in Entries : ~Expired(e, t) =>
       Cardinality(Places(x.mem[h.arr], x.hdr.len, e))
         = Cardinality(Places(m[h.arr], h.len, e))

LEMMA ExactStep ==
  ASSUME NEW m \in Heaps, NEW h \in Headers, Written(m, h), NEW t, NEW done, NEW rest,
         NEW x, Exact(m, h, t, done, rest, x),
         NEW i \in 1..h.len, i \in rest, i \notin done, \A j \in rest : j \in Nat /\ j <= i,
         Expired(m[h.arr][i], t)
  PROVE  Exact(m, h, t, done \cup {i}, rest \ {i}, Removed(i, x))
<1> DEFINE y == Removed(i, x)
           a == x.mem[h.arr]
           n == x.hdr.len
<1>0. /\ x \in States /\ x.hdr \in Headers /\ x.mem \in Heaps /\ Written(x.mem, x.hdr)
      /\ n \in Nat /\ h.len \in Nat /\ i \in Nat /\ i >= 1 /\ i <= h.len
      /\ x.hdr.arr = h.arr /\ n <= h.len
    BY DEF Exact, States, Headers
<1>1. h.arr \in 1..Len(m) /\ h.len \in 0..Len(m[h.arr]) /\ i \in 1..Len(m[h.arr])
  <2>1. h.arr \in 1..Len(m) /\ h.len \in 0..Len(m[h.arr])
    <3>1. SliceOf(m, h) /\ h.len > 0
        BY <1>0 DEF Written
    <3>2. h.arr \in 1..Len(m) /\ h.len <= Len(m[h.arr])
        BY <1>0, <3>1, ArrayType DEF SliceOf
    <3> QED
        BY <1>0, <3>2, ArrayType
  <2> QED
      BY <1>0, <2>1, ArrayType
<1>2. CASE i > n
  <2>1. y = x
      BY <1>2 DEF Removed
  <2>2. \A j \in 1..n : j # i
      BY <1>0, <1>2
  <2> HIDE DEF y, n
  <2> QED
      BY <2>1, <2>2 DEF Exact, n, y
<1>3. CASE i <= n
  <2>1. i \in 1..n
      BY <1>0, <1>3
  <2>2. y = SwapRemove(x.mem, x.hdr, i)
      BY <1>0, <1>3 DEF Removed
  <2> HIDE DEF y
  <2>3. /\ y \in States /\ y.hdr.len = n - 1 /\ y.hdr.arr = h.arr
        /\ \A b \in 1..Len(x.mem) : b # h.arr => y.mem[b] = x.mem[b]
        /\ Len(y.mem) = Len(x.mem) /\ Len(y.mem[h.arr]) = Len(a)
        /\ \A j \in 1..Len(a) : y.mem[h.arr][j] = IF j = i THEN a[n] ELSE a[j]
    <3> DEFINE o == x.mem
               g == x.hdr
    <3>1. o \in Heaps /\ g \in Headers /\ Written(o, g) /\ i \in 1..g.len
        BY <1>0, <2>1
    <3> HIDE DEF o, g
    <3>2. LET s == SwapRemove(o, g, i)
          IN  /\ s \in States /\ s.hdr.len = g.len - 1 /\ s.hdr.arr = g.arr
              /\ \A b \in 1..Len(o) : b # g.arr => s.mem[b] = o[b]
              /\ Len(s.mem) = Len(o) /\ Len(s.mem[g.arr]) = Len(o[g.arr])
              /\ \A j \in 1..Len(o[g.arr]) :
                   s.mem[g.arr][j] = IF j = i THEN o[g.arr][g.len] ELSE o[g.arr][j]
        BY <3>1, SwapEffect
    <3>3. g.arr = h.arr /\ g.len = n /\ o[h.arr] = a
        BY <1>0 DEF o, g
    <3> HIDE DEF n, a
    <3> QED
        BY <2>2, <3>2, <3>3 DEF o, g
  <2> DEFINE b == y.mem[h.arr]
  <2>4. Len(a) = Len(m[h.arr]) /\ Len(x.mem) = Len(m) /\ Len(m[h.arr]) \in Nat
      BY <1>1, ArrayType DEF Exact
  <2>5. a[i] = m[h.arr][i]
      BY <1>1 DEF Exact
  <2>6. \A j \in 1..n : j \in 1..Len(a)
      BY <1>0, <1>1, <2>4
  <2>7. \A j \in 1..n - 1 : j \in 1..n /\ j \in 1..Len(a) /\ j # n
      BY <1>0, <2>6
  <2>8. n \in 1..n
      BY <1>0, <2>1
  <2>9. \A j \in 1..n - 1 : b[j] = IF j = i THEN a[n] ELSE a[j]
      BY <2>3, <2>7
  <2>10. y.hdr.len <= h.len
      BY <1>0, <2>3
  <2>11. ASSUME NEW d \in 1..Len(m), d # h.arr PROVE y.mem[d] = m[d]
      BY <2>3, <2>4, <2>11 DEF Exact
  <2>12. ASSUME NEW j \in 1..Len(m[h.arr]), j \notin done \cup {i}
         PROVE  b[j] = m[h.arr][j]
      BY <2>3, <2>4, <2>12 DEF Exact
  <2>13. ASSUME NEW j \in 1..n - 1, Expired(b[j], t) PROVE j \in rest \ {i}
    <3>1. CASE j = i
      <4>1. Expired(a[n], t)
          BY <2>9, <2>13, <3>1
      <4>2. n \in rest
          BY <2>8, <4>1 DEF Exact
      <4>3. n <= i /\ j < n
          BY <1>0, <2>13, <4>2
      <4> QED
          BY <1>0, <3>1, <4>3
    <3>2. CASE j # i
      <4>1. Expired(a[j], t)
          BY <2>9, <2>13, <3>2
      <4> QED
          BY <2>7, <3>2, <4>1 DEF Exact
    <3> QED
        BY <3>1, <3>2
  <2>14. ASSUME NEW j \in 1..n - 1 PROVE \E k \in 1..h.len : b[j] = m[h.arr][k]
    <3>1. b[j] = a[n] \/ b[j] = a[j]
        BY <2>9
    <3>2. \A p \in 1..n : \E k \in 1..h.len : a[p] = m[h.arr][k]
        BY DEF Exact
    <3>3. j \in 1..n
        BY <2>7
    <3> HIDE DEF a, b, n
    <3> QED
        BY <2>8, <3>1, <3>2, <3>3
  <2>15. ASSUME NEW e \in Entries, ~Expired(e, t)
         PROVE  Cardinality(Places(b, n - 1, e)) = Cardinality(Places(m[h.arr], h.len, e))
    <3>1. a[i] # e
        BY <2>5, <2>15
    <3>2. Cardinality(Places(a, n, e)) = Cardinality(Places(m[h.arr], h.len, e))
        BY <2>15 DEF Exact
    <3> HIDE DEF a, b, n
    <3>3. Cardinality(Places(b, n - 1, e)) = Cardinality(Places(a, n, e))
        BY <1>0, <2>1, <2>9, <3>1, CountMoved
    <3> QED
        BY <3>2, <3>3
  <2>16. y.hdr.len = n - 1 /\ b = y.mem[h.arr]
      BY <2>3
  <2>17. /\ \A j \in 1..y.hdr.len : Expired(b[j], t) => j \in rest \ {i}
         /\ \A j \in 1..y.hdr.len : \E k \in 1..h.len : b[j] = m[h.arr][k]
         /\ \A e \in Entries : ~Expired(e, t) =>
              Cardinality(Places(b, y.hdr.len, e)) = Cardinality(Places(m[h.arr], h.len, e))
    <3> HIDE DEF n, b
    <3> QED
        BY <2>13, <2>14, <2>15, <2>16
  <2>18. Exact(m, h, t, done \cup {i}, rest \ {i}, y)
    <3>1. /\ y \in States /\ y.hdr.arr = h.arr /\ y.hdr.len <= h.len
          /\ Len(y.mem) = Len(m) /\ \A d \in 1..Len(m) : d # h.arr => y.mem[d] = m[d]
          /\ Len(y.mem[h.arr]) = Len(m[h.arr])
          /\ \A j \in 1..Len(m[h.arr]) :
               j \notin done \cup {i} => y.mem[h.arr][j] = m[h.arr][j]
        BY <2>3, <2>4, <2>10, <2>11, <2>12
    <3> HIDE DEF n, a
    <3> QED
        BY <2>17, <3>1, Zenon DEF Exact
  <2> QED
      BY <2>18 DEF y
<1> HIDE DEF n
<1>4. i > n \/ i <= n
    BY <1>0
<1> QED
    BY <1>2, <1>3, <1>4

\* The places are in order, within the slice, expired, and all that are.
Expiring(m, h, t, indices) ==
  /\ \A k \in 1..Len(indices) :
       indices[k] \in 1..h.len /\ Expired(m[h.arr][indices[k]], t)
  /\ \A j, k \in 1..Len(indices) : j < k => indices[j] < indices[k]
  /\ \A i \in 1..h.len : Expired(m[h.arr][i], t) =>
       \E k \in 1..Len(indices) : indices[k] = i

LEMMA RemoveExact ==
  ASSUME NEW m \in Heaps, NEW h \in Headers, Written(m, h), NEW t,
         NEW indices \in Seq(Nat \ {0}), Expiring(m, h, t, indices)
  PROVE  Exact(m, h, t, {indices[k] : k \in 1..Len(indices)}, {},
               RemoveIndices(m, h, indices))
<1> DEFINE S == DOMAIN indices
           c == [s \in SUBSET S |-> Min(s)]
           Done(s) == {indices[k] : k \in s}
           Upper(s) == \A j \in s : \A k \in S : j <= k => k \in s
<1>1. S = 1..Len(indices) /\ Len(indices) \in Nat /\ IsFiniteSet(S)
    BY UpTo
<1>2. Chooses(c, S)
    BY <1>1, Ends DEF Chooses
<1>3. PICK it : RemovesBy(it, m, h, indices) /\ RemoveIndices(m, h, indices) = it[S]
  <2>1. \A i \in Nat \ {0} : \A x \in States : Removed(i, x) \in States
      BY RemovedEffect
  <2> QED
      BY <2>1, RemoveIsFold
<1> DEFINE U == {s \in SUBSET S :
                   Upper(s) => Exact(m, h, t, Done(s), Done(S \ s), it[s])}
<1>4. {} \in U
  <2> DEFINE x == [mem |-> m, hdr |-> h]
  <2>1. it[{}] = x
      BY <1>3 DEF RemovesBy
  <2>2. x \in States /\ h.len \in Nat
      BY DEF States, Headers
  <2>3. ASSUME NEW j \in 1..h.len, Expired(m[h.arr][j], t) PROVE j \in Done(S \ {})
    <3>1. PICK k \in 1..Len(indices) : indices[k] = j
        BY <2>3 DEF Expiring
    <3> QED
        BY <1>1, <3>1
  <2> HIDE DEF Done
  <2>4. Exact(m, h, t, Done({}), Done(S \ {}), x)
      BY <2>2, <2>3 DEF Exact
  <2> QED
      BY <2>1, <2>4
<1>5. ASSUME NEW s \in SUBSET S, s # {}, s \ {c[s]} \in U PROVE s \in U
  <2> DEFINE k == Min(s)
             r == s \ {k}
             i == indices[k]
             x == it[r]
  <2> SUFFICES ASSUME Upper(s) PROVE Exact(m, h, t, Done(s), Done(S \ s), it[s])
      OBVIOUS
  <2>1. k \in S /\ k \in s /\ \A j \in s : k <= j
      BY <1>1, <1>5, Ends
  <2> HIDE DEF k
  <2>2. c[s] = k
      BY DEF k
  <2>3. Upper(r)
    <3> SUFFICES ASSUME NEW j \in r, NEW l \in S, j <= l PROVE l \in r
        OBVIOUS
    <3>1. l \in s
        OBVIOUS
    <3>2. l # k
        BY <1>1, <2>1
    <3> QED
        BY <3>1, <3>2
  <2>4. Exact(m, h, t, Done(r), Done(S \ r), x)
      BY <1>5, <2>2, <2>3
  <2>5. it[s] = Removed(i, x)
      BY <1>3, <1>5 DEF RemovesBy, k
  <2>6. i \in 1..h.len /\ Expired(m[h.arr][i], t)
      BY <1>1, <2>1 DEF Expiring
  <2>7. S \ r = (S \ s) \cup {k} /\ \A j \in S \ r : j <= k
    <3>1. ASSUME NEW j \in S \ s PROVE j <= k
      <4>1. ~(k <= j)
          BY <2>1, <3>1
      <4> QED
          BY <1>1, <2>1, <4>1
    <3> QED
        BY <1>1, <2>1, <3>1
  <2>8. Done(r) \cup {i} = Done(s)
      BY <2>1
  <2>9. \A j, l \in S : j # l => indices[j] # indices[l]
    <3> SUFFICES ASSUME NEW j \in S, NEW l \in S, j # l PROVE indices[j] # indices[l]
        OBVIOUS
    <3>1. indices[j] \in Nat /\ indices[l] \in Nat
        OBVIOUS
    <3>2. j < l \/ l < j
        BY <1>1
    <3> QED
        BY <1>1, <3>1, <3>2 DEF Expiring
  <2>10. Done(S \ r) \ {i} = Done(S \ s) /\ i \in Done(S \ r) /\ i \notin Done(r)
      BY <2>1, <2>7, <2>9
  <2>11. ASSUME NEW v \in Done(S \ r) PROVE v \in Nat /\ v <= i
    <3>1. PICK j \in S \ r : v = indices[j]
        OBVIOUS
    <3>2. j \in S /\ (j < k \/ j = k) /\ indices[j] \in Nat /\ i \in Nat
        BY <1>1, <2>1, <2>7
    <3>3. j < k => indices[j] < i
        BY <1>1, <2>1, <3>2 DEF Expiring
    <3> QED
        BY <3>1, <3>2, <3>3
  <2> DEFINE done == Done(r)
             rest == Done(S \ r)
  <2>12. Exact(m, h, t, done, rest, x) /\ i \in rest /\ i \notin done
         /\ \A j \in rest : j \in Nat /\ j <= i
      BY <2>4, <2>10, <2>11
  <2> HIDE DEF done, rest, x, i
  <2>13. Exact(m, h, t, done \cup {i}, rest \ {i}, Removed(i, x))
      BY <2>6, <2>12, ExactStep
  <2> USE DEF done, rest
  <2> HIDE DEF Done
  <2> QED
      BY <2>5, <2>8, <2>10, <2>13
<1>6. S \in U
  <2>1. Inductive(U, c, S)
      BY <1>4, <1>5 DEF Inductive
  <2> HIDE DEF U, S, c
  <2> QED
      BY <1>1, <1>2, <2>1, SubsetInduction
<1>7. Upper(S) /\ Done(S \ S) = {} /\ Done(S) = {indices[k] : k \in 1..Len(indices)}
    BY <1>1
<1>8. Exact(m, h, t, Done(S), Done(S \ S), it[S])
    BY <1>6, <1>7
<1> HIDE DEF Done, S
<1> QED
    BY <1>3, <1>7, <1>8

(***************************************************************************)
(* Calls that do not overlap                                               *)
(***************************************************************************)

LEMMA NoLookup ==
  ASSUME \A r \in Readers : rd'[r].pc = "idle"
  PROVE  Serial'
  BY DEF Serial

\* A step of the only call that runs, a lookup.
LEMMA SerialRead ==
  ASSUME Shape, NEW r \in Readers, Alone(r), NEW l, rd' = [rd EXCEPT ![r] = l],
         wr' = wr, LookupAlone(mem', hdr', l)
  PROVE  Serial'
<1>1. \A q \in Readers : rd'[q] = IF q = r THEN l ELSE rd[q]
    BY DEF Shape
<1>2. ASSUME NEW q \in Readers, rd'[q].pc # "idle"
      PROVE  q = r /\ Alone(q)' /\ LookupAlone(mem', hdr', rd'[q])
  <2>1. q = r
      BY <1>1, <1>2 DEF Alone
  <2>2. Alone(r)'
      BY <1>1 DEF Alone
  <2> QED
      BY <1>1, <2>1, <2>2
<1> QED
    BY <1>2 DEF Serial

LEMMA SerialLookupStart ==
  ASSUME Shape, setup.serial, NEW r \in Readers, LookupStart(r)
  PROVE  Serial'
<1>1. PICK q \in setup.prompts :
        rd' = [rd EXCEPT ![r] = [IdleRead EXCEPT !.pc = "clock", !.q = q, !.h = hdr,
                                                 !.i = 1, !.score = Threshold]]
    BY DEF LookupStart
<1> DEFINE l == [IdleRead EXCEPT !.pc = "clock", !.q = q, !.h = hdr,
                                 !.i = 1, !.score = Threshold]
<1>2. /\ l.pc = "clock" /\ l.h = hdr /\ l.i = 1
      /\ l.best = NoBest /\ l.score = Threshold /\ l.expired = <<>>
    BY DEF IdleRead
<1> HIDE DEF l
<1>3. hdr.len \in Nat /\ Threshold \in Nat
    BY CacheAssumption DEF Shape, Headers
<1>4. LookupAlone(mem, hdr, l)
    BY <1>2, <1>3 DEF LookupAlone, Listed, Ranked, Follows
<1>5. Alone(r) /\ UNCHANGED <<mem, hdr, wr>>
    BY DEF LookupStart, MayStart, Alone
<1> QED
    BY <1>1, <1>4, <1>5, SerialRead DEF l

LEMMA SerialReadClock ==
  ASSUME Shape, Serial, setup.serial, NEW r \in Readers, ReadClock(r)
  PROVE  Serial'
<1> DEFINE o == rd[r]
           l == [o EXCEPT !.pc = "scan", !.t = now]
<1>1. rd' = [rd EXCEPT ![r] = l] /\ UNCHANGED <<mem, hdr, wr>>
    BY DEF ReadClock, Shape
<1>2. Alone(r) /\ LookupAlone(mem, hdr, o) /\ o.pc = "clock" /\ o \in ReadType
    BY DEF ReadClock, Serial, Shape
<1>3. /\ l.pc = "scan" /\ l.q = o.q /\ l.h = o.h /\ l.i = o.i /\ l.best = o.best
      /\ l.score = o.score /\ l.expired = o.expired
    BY <1>2 DEF ReadType
<1>4. o.i = 1 /\ o.expired = <<>> /\ o.best = NoBest
    BY <1>2 DEF LookupAlone, Follows
<1> HIDE DEF l, o
<1>5. LookupAlone(mem, hdr, l)
    BY <1>2, <1>3, <1>4 DEF LookupAlone, Listed, Ranked, Follows
<1> QED
    BY <1>1, <1>2, <1>5, SerialRead

LEMMA SerialScan ==
  ASSUME Shape, Serial, setup.serial, NEW r \in Readers, Scan(r)
  PROVE  Serial'
<1> DEFINE o == rd[r]
           e == Append(o.expired, o.i)
           a == [o EXCEPT !.expired = e, !.i = @ + 1]
           b == [o EXCEPT !.pc = "score"]
           n == Len(o.expired)
<1>1. UNCHANGED <<mem, hdr, wr>>
    BY DEF Scan
<1>2. /\ Alone(r) /\ LookupAlone(mem, hdr, o) /\ o.pc = "scan" /\ o \in ReadType
      /\ o.i > 0 /\ o.i <= o.h.len /\ hdr.len \in Nat
    BY DEF Scan, Serial, Shape, ReaderOK, Headers
<1>3. /\ o.h = hdr /\ o.i \in 1..hdr.len /\ o.i \in Nat /\ Cell(r) = mem[hdr.arr][o.i]
      /\ n \in Nat /\ o.expired \in Seq(Nat \ {0})
  <2>1. o.i \in Nat /\ o.expired \in Seq(Nat \ {0})
      BY <1>2 DEF ReadType
  <2>2. o.h = hdr
      BY <1>2 DEF LookupAlone, Follows
  <2> QED
      BY <1>2, <2>1, <2>2 DEF Cell
<1>4. CASE Expired(Cell(r), o.t)
  <2>1. rd' = [rd EXCEPT ![r] = a]
      BY <1>4 DEF Scan, Shape
  <2>2. /\ a.pc = "scan" /\ a.q = o.q /\ a.h = o.h /\ a.i = o.i + 1 /\ a.best = o.best
        /\ a.t = o.t /\ a.score = o.score /\ a.expired = e
      BY <1>2 DEF ReadType
  <2>3. Len(e) = n + 1 /\ \A k \in 1..n + 1 : e[k] = IF k = n + 1 THEN o.i ELSE o.expired[k]
      BY <1>3
  <2>4. \A k \in 1..n + 1 : k # n + 1 => k \in 1..n
      BY <1>3
  <2> HIDE DEF o, a, e, n
  <2>5. ASSUME NEW k \in 1..n + 1
        PROVE  e[k] \in 1..hdr.len /\ e[k] < o.i + 1 /\ Expired(mem[hdr.arr][e[k]], o.t)
    <3>1. CASE k = n + 1
        BY <1>3, <1>4, <2>3, <3>1
    <3>2. CASE k # n + 1
      <4>1. /\ e[k] \in 1..hdr.len /\ e[k] < o.i /\ Expired(mem[hdr.arr][e[k]], o.t)
          BY <1>2, <2>3, <2>4, <3>2 DEF LookupAlone, Listed, n
      <4> QED
          BY <1>3, <4>1
    <3> QED
        BY <3>1, <3>2
  <2>6. ASSUME NEW j \in 1..n + 1, NEW k \in 1..n + 1, j < k PROVE e[j] < e[k]
    <3>1. j \in 1..n /\ e[j] = o.expired[j]
        BY <1>3, <2>3, <2>6
    <3>2. CASE k = n + 1
        BY <1>2, <2>3, <3>1, <3>2 DEF LookupAlone, Listed, n
    <3>3. CASE k # n + 1
        BY <1>2, <2>3, <2>4, <2>6, <3>1, <3>3 DEF LookupAlone, Listed, n
    <3> QED
        BY <3>2, <3>3
  <2>7. ASSUME NEW i \in 1..hdr.len, i < o.i + 1, Expired(mem[hdr.arr][i], o.t)
        PROVE  \E k \in 1..n + 1 : e[k] = i
    <3>1. CASE i = o.i
      <4>1. n + 1 \in 1..n + 1
          BY <1>3
      <4> QED
          BY <2>3, <3>1, <4>1
    <3>2. CASE i # o.i
      <4>1. i < o.i
          BY <1>3, <2>7, <3>2
      <4>2. PICK k \in 1..n : o.expired[k] = i
          BY <1>2, <2>7, <4>1 DEF LookupAlone, Listed, n
      <4>3. k \in 1..n + 1 /\ k # n + 1
          BY <1>3
      <4> QED
          BY <2>3, <4>2, <4>3
    <3> QED
        BY <3>1, <3>2
  <2>8. Listed(mem, hdr, a)
      BY <2>2, <2>3, <2>5, <2>6, <2>7 DEF Listed
  <2>9. Ranked(mem, hdr, a)
    <3>1. ASSUME NEW i \in 1..hdr.len, i < o.i + 1, ~Expired(mem[hdr.arr][i], o.t)
          PROVE  Score[<<o.q, mem[hdr.arr][i].of>>] <= o.score
      <4>1. i # o.i
          BY <1>3, <1>4, <3>1 DEF o
      <4>2. i < o.i
          BY <1>3, <3>1, <4>1
      <4> QED
          BY <1>2, <3>1, <4>2 DEF LookupAlone, Ranked
    <3> QED
        BY <1>2, <2>2, <3>1 DEF LookupAlone, Ranked
  <2>10. Follows(mem, hdr, a)
      BY <1>2, <1>3, <2>2 DEF LookupAlone, Follows
  <2>11. LookupAlone(mem', hdr', a)
      BY <1>1, <2>8, <2>9, <2>10 DEF LookupAlone
  <2> QED
      BY <1>1, <1>2, <2>1, <2>11, SerialRead
<1>5. CASE ~Expired(Cell(r), o.t)
  <2>1. rd' = [rd EXCEPT ![r] = b]
      BY <1>5 DEF Scan, Shape
  <2>2. /\ b.pc = "score" /\ b.q = o.q /\ b.h = o.h /\ b.i = o.i /\ b.best = o.best
        /\ b.t = o.t /\ b.score = o.score /\ b.expired = o.expired
      BY <1>2 DEF ReadType
  <2>3. ~Expired(mem[hdr.arr][o.i], o.t)
      BY <1>3, <1>5
  <2> HIDE DEF o, b
  <2>4. Listed(mem, hdr, b) /\ Ranked(mem, hdr, b)
      BY <1>2, <2>2 DEF LookupAlone, Listed, Ranked
  <2>5. Follows(mem, hdr, b)
      BY <1>2, <1>3, <2>2, <2>3 DEF LookupAlone, Follows
  <2>6. LookupAlone(mem', hdr', b)
      BY <1>1, <2>4, <2>5 DEF LookupAlone
  <2> QED
      BY <1>1, <1>2, <2>1, <2>6, SerialRead
<1> QED
    BY <1>4, <1>5

LEMMA SerialCompare ==
  ASSUME Shape, Serial, setup.serial, NEW r \in Readers, Compare(r)
  PROVE  Serial'
<1> DEFINE o == rd[r]
           s == Score[<<o.q, Cell(r).of>>]
           p == [arr |-> o.h.arr, idx |-> o.i]
           a == [o EXCEPT !.pc = "scan", !.i = @ + 1, !.score = s, !.best = p]
           b == [o EXCEPT !.pc = "scan", !.i = @ + 1]
<1>1. UNCHANGED <<mem, hdr, wr>>
    BY DEF Compare
<1>2. /\ Alone(r) /\ LookupAlone(mem, hdr, o) /\ o.pc = "score" /\ o \in ReadType
      /\ o.i > 0 /\ o.i <= o.h.len /\ hdr.len \in Nat /\ o.q \in Prompt
      /\ mem \in Heaps /\ hdr \in Headers /\ Written(mem, hdr)
    BY DEF Compare, Serial, Shape, ReaderOK, Headers
<1>3. /\ o.h = hdr /\ o.i \in 1..hdr.len /\ o.i \in Nat /\ Cell(r) = mem[hdr.arr][o.i]
      /\ o.score \in Nat
  <2>1. o.i \in Nat /\ o.score \in Nat
      BY <1>2 DEF ReadType
  <2>2. o.h = hdr
      BY <1>2 DEF LookupAlone, Follows
  <2> QED
      BY <1>2, <2>1, <2>2 DEF Cell
<1>4. Cell(r) \in Entries /\ ~Expired(Cell(r), o.t)
    BY <1>2, <1>3, CellOfSlice DEF LookupAlone, Follows
<1>5. s \in Nat
    BY <1>2, <1>4, CacheAssumption DEF Entries
<1>6. /\ Cursor(mem, p) = Cell(r) /\ Threshold \in Nat
      /\ \A i \in 1..hdr.len : Score[<<o.q, mem[hdr.arr][i].of>>] \in Nat
  <2>1. ASSUME NEW i \in 1..hdr.len PROVE mem[hdr.arr][i].of \in Prompt
      BY <1>2, CellOfSlice DEF Entries
  <2> QED
      BY <1>2, <1>3, <2>1, CacheAssumption DEF Cursor
<1>7. ASSUME NEW k \in 1..Len(o.expired)
      PROVE  /\ o.expired[k] \in 1..hdr.len /\ o.expired[k] < o.i + 1
             /\ Expired(mem[hdr.arr][o.expired[k]], o.t)
  <2>1. /\ o.expired[k] \in 1..hdr.len /\ o.expired[k] < o.i
        /\ Expired(mem[hdr.arr][o.expired[k]], o.t)
      BY <1>2 DEF LookupAlone, Listed
  <2> QED
      BY <1>3, <2>1
<1>8. ASSUME NEW i \in 1..hdr.len, i < o.i + 1, Expired(mem[hdr.arr][i], o.t)
      PROVE  \E k \in 1..Len(o.expired) : o.expired[k] = i
  <2> HIDE DEF o
  <2>1. i < o.i
    <3>1. i # o.i
        BY <1>3, <1>4, <1>8
    <3> QED
        BY <1>3, <1>8, <3>1
  <2> QED
      BY <1>2, <1>8, <2>1 DEF LookupAlone, Listed
<1>9. CASE Better(s, o)
  <2>1. rd' = [rd EXCEPT ![r] = a]
      BY <1>9 DEF Compare, Shape
  <2>2. /\ a.pc = "scan" /\ a.q = o.q /\ a.h = o.h /\ a.i = o.i + 1 /\ a.best = p
        /\ a.t = o.t /\ a.score = s /\ a.expired = o.expired
      BY <1>2 DEF ReadType
  <2>3. s >= o.score
      BY <1>9 DEF Better
  <2>4. s = Score[<<o.q, mem[hdr.arr][o.i].of>>] /\ s = Score[<<o.q, Cursor(mem, p).of>>]
      BY <1>3, <1>6
  <2> HIDE DEF o, a, s, p
  <2>5. Listed(mem, hdr, a)
      BY <1>2, <1>7, <1>8, <2>2 DEF LookupAlone, Listed
  <2>6. Ranked(mem, hdr, a)
    <3>1. ASSUME NEW i \in 1..hdr.len, i < o.i + 1, ~Expired(mem[hdr.arr][i], o.t)
          PROVE  Score[<<o.q, mem[hdr.arr][i].of>>] <= s
      <4>1. CASE i = o.i
        <5>1. Score[<<o.q, mem[hdr.arr][i].of>>] = s
            BY <2>4, <4>1
        <5> QED
            BY <1>5, <5>1
      <4>2. CASE i # o.i
        <5>1. i < o.i
            BY <1>3, <3>1, <4>2
        <5>2. Score[<<o.q, mem[hdr.arr][i].of>>] <= o.score
            BY <1>2, <3>1, <5>1 DEF LookupAlone, Ranked
        <5> QED
            BY <1>3, <1>5, <1>6, <2>3, <5>2
      <4> QED
          BY <4>1, <4>2
    <3>2. s >= Threshold
      <4>1. o.score >= Threshold
          BY <1>2 DEF LookupAlone, Ranked
      <4> QED
          BY <1>3, <1>5, <1>6, <2>3, <4>1
    <3> QED
        BY <1>4, <1>6, <2>2, <2>4, <3>1, <3>2 DEF Ranked
  <2>7. Follows(mem, hdr, a)
      BY <1>2, <1>3, <2>2 DEF LookupAlone, Follows
  <2>8. LookupAlone(mem', hdr', a)
      BY <1>1, <2>5, <2>6, <2>7 DEF LookupAlone
  <2> QED
      BY <1>1, <1>2, <2>1, <2>8, SerialRead
<1>10. CASE ~Better(s, o)
  <2>1. rd' = [rd EXCEPT ![r] = b]
      BY <1>10 DEF Compare, Shape
  <2>2. /\ b.pc = "scan" /\ b.q = o.q /\ b.h = o.h /\ b.i = o.i + 1 /\ b.best = o.best
        /\ b.t = o.t /\ b.score = o.score /\ b.expired = o.expired
      BY <1>2 DEF ReadType
  <2>3. ~(s >= o.score)
      BY <1>10 DEF Better
  <2>4. s = Score[<<o.q, mem[hdr.arr][o.i].of>>]
      BY <1>3
  <2> HIDE DEF o, b, s
  <2>5. Listed(mem, hdr, b)
      BY <1>2, <1>7, <1>8, <2>2 DEF LookupAlone, Listed
  <2>6. Ranked(mem, hdr, b)
    <3>1. ASSUME NEW i \in 1..hdr.len, i < o.i + 1, ~Expired(mem[hdr.arr][i], o.t)
          PROVE  Score[<<o.q, mem[hdr.arr][i].of>>] <= o.score
      <4>1. CASE i = o.i
          BY <1>3, <1>5, <2>3, <2>4, <4>1
      <4>2. CASE i # o.i
        <5>1. i < o.i
            BY <1>3, <3>1, <4>2
        <5> QED
            BY <1>2, <3>1, <5>1 DEF LookupAlone, Ranked
      <4> QED
          BY <4>1, <4>2
    <3> QED
        BY <1>2, <2>2, <3>1 DEF LookupAlone, Ranked
  <2>7. Follows(mem, hdr, b)
      BY <1>2, <1>3, <2>2 DEF LookupAlone, Follows
  <2>8. LookupAlone(mem', hdr', b)
      BY <1>1, <2>5, <2>6, <2>7 DEF LookupAlone
  <2> QED
      BY <1>1, <1>2, <2>1, <2>8, SerialRead
<1> QED
    BY <1>9, <1>10

\* What removeExpired does in a step of the only call that runs.
LEMMA RemovalAlone ==
  ASSUME Shape, Serial, setup.serial, NEW r \in Readers, RemoveExpired(r)
  PROVE  \E done : /\ Exact(mem, hdr, rd[r].t, done, {}, [mem |-> mem', hdr |-> hdr'])
                   /\ \A i \in done : i \in 1..hdr.len /\ Expired(mem[hdr.arr][i], rd[r].t)
<1> DEFINE o == rd[r]
           x == RemoveIndices(mem, hdr, o.expired)
           done == {o.expired[k] : k \in 1..Len(o.expired)}
<1>1. mem' = x.mem /\ hdr' = x.hdr
    BY DEF RemoveExpired
<1>2. /\ LookupAlone(mem, hdr, o) /\ o.pc = "scan" /\ o \in ReadType
      /\ o.i > o.h.len /\ hdr.len \in Nat
      /\ mem \in Heaps /\ hdr \in Headers /\ Written(mem, hdr)
    BY DEF RemoveExpired, Scanned, Serial, Shape, Headers
<1>3. o.i \in Nat /\ o.h.len \in Nat /\ o.expired \in Seq(Nat \ {0})
    BY <1>2 DEF ReadType
<1> HIDE DEF o
<1>4. \A i \in 1..hdr.len : i < o.i
  <2>1. hdr.len <= o.h.len
      BY <1>2 DEF LookupAlone, Follows
  <2> QED
      BY <1>2, <1>3, <2>1
<1>5. Expiring(mem, hdr, o.t, o.expired)
    BY <1>2, <1>4 DEF LookupAlone, Listed, Expiring
<1>6. Exact(mem, hdr, o.t, done, {}, x)
    BY <1>2, <1>3, <1>5, RemoveExact
<1>7. x = [mem |-> mem', hdr |-> hdr']
  <2>1. x \in States
      BY <1>6 DEF Exact
  <2> HIDE DEF x
  <2> QED
      BY <1>1, <2>1 DEF States
<1>8. \A i \in done : i \in 1..hdr.len /\ Expired(mem[hdr.arr][i], o.t)
    BY <1>5 DEF Expiring
<1> HIDE DEF x, done
<1>9. Exact(mem, hdr, o.t, done, {}, [mem |-> mem', hdr |-> hdr'])
    BY <1>6, <1>7
<1> QED
    BY <1>8, <1>9 DEF o

LEMMA SerialRemoveExpired ==
  ASSUME Shape, Serial, setup.serial, NEW r \in Readers, RemoveExpired(r)
  PROVE  Serial'
<1> DEFINE o == rd[r]
           l == [o EXCEPT !.expired = <<>>]
           x == [mem |-> mem', hdr |-> hdr']
<1>1. rd' = [rd EXCEPT ![r] = l] /\ wr' = wr
    BY DEF RemoveExpired, Shape
<1>2. /\ Alone(r) /\ LookupAlone(mem, hdr, o) /\ o.pc = "scan" /\ o \in ReadType
      /\ o.i > o.h.len /\ hdr.len \in Nat /\ hdr \in Headers /\ mem \in Heaps
      /\ ReaderOK(mem, o)
    BY DEF RemoveExpired, Scanned, Serial, Shape, Headers
<1>3. /\ l.pc = "scan" /\ l.q = o.q /\ l.h = o.h /\ l.i = o.i /\ l.best = o.best
      /\ l.t = o.t /\ l.score = o.score /\ l.expired = <<>>
    BY <1>2 DEF ReadType
<1>4. PICK done : /\ Exact(mem, hdr, o.t, done, {}, x)
                  /\ \A i \in done : i \in 1..hdr.len /\ Expired(mem[hdr.arr][i], o.t)
    BY RemovalAlone
<1>5. /\ x.mem = mem' /\ x.hdr = hdr' /\ o.i \in Nat /\ o.h.len \in Nat
    BY <1>2 DEF ReadType
<1> HIDE DEF o, l, x
<1>6. /\ hdr'.arr = hdr.arr /\ hdr'.len <= hdr.len /\ hdr'.len \in Nat
      /\ Len(mem') = Len(mem) /\ Len(mem'[hdr.arr]) = Len(mem[hdr.arr])
      /\ \A b \in 1..Len(mem) : b # hdr.arr => mem'[b] = mem[b]
      /\ \A j \in 1..Len(mem[hdr.arr]) : j \notin done => mem'[hdr.arr][j] = mem[hdr.arr][j]
      /\ \A j \in 1..hdr'.len : ~Expired(mem'[hdr.arr][j], o.t)
      /\ \A j \in 1..hdr'.len : \E k \in 1..hdr.len : mem'[hdr.arr][j] = mem[hdr.arr][k]
  <2>1. hdr'.len \in Nat
      BY <1>4, <1>5 DEF Exact, States, Headers
  <2> QED
      BY <1>4, <1>5, <2>1 DEF Exact
<1>7. Listed(mem', hdr', l)
    BY <1>3, <1>6 DEF Listed
<1>8. ASSUME NEW i \in 1..hdr'.len
      PROVE  Score[<<o.q, mem'[hdr'.arr][i].of>>] <= o.score
  <2>1. PICK k \in 1..hdr.len : mem'[hdr.arr][i] = mem[hdr.arr][k]
      BY <1>6
  <2>2. ~Expired(mem[hdr.arr][k], o.t)
      BY <1>6, <2>1
  <2>3. k < o.i
    <3>1. hdr.len <= o.h.len
        BY <1>2 DEF LookupAlone, Follows
    <3> QED
        BY <1>2, <1>5, <3>1
  <2>4. Score[<<o.q, mem[hdr.arr][k].of>>] <= o.score
      BY <1>2, <2>2, <2>3 DEF LookupAlone, Ranked
  <2> QED
      BY <1>6, <2>1, <2>4
<1>9. ASSUME o.best # NoBest PROVE Cursor(mem', o.best) = Cursor(mem, o.best)
  <2>1. /\ o.best.arr \in 1..Len(mem) /\ o.best.idx \in 1..Len(mem[o.best.arr])
        /\ ~Expired(mem[o.best.arr][o.best.idx], o.t)
      BY <1>2, <1>9, ArrayType DEF ReaderOK, LookupAlone, Ranked, Cursor
  <2>2. CASE o.best.arr = hdr.arr
    <3>1. o.best.idx \notin done
        BY <1>4, <2>1, <2>2
    <3> QED
        BY <1>6, <2>1, <2>2, <3>1 DEF Cursor
  <2>3. CASE o.best.arr # hdr.arr
      BY <1>6, <2>1, <2>3 DEF Cursor
  <2> QED
      BY <2>2, <2>3
<1>10. Ranked(mem', hdr', l)
    BY <1>2, <1>3, <1>8, <1>9 DEF LookupAlone, Ranked
<1>11. Follows(mem', hdr', l)
    BY <1>2, <1>3, <1>5, <1>6 DEF LookupAlone, Follows
<1>12. LookupAlone(mem', hdr', l)
    BY <1>7, <1>10, <1>11 DEF LookupAlone
<1> QED
    BY <1>1, <1>2, <1>12, SerialRead

LEMMA SerialTouch ==
  ASSUME Shape, Serial, setup.serial, NEW r \in Readers, Touch(r)
  PROVE  Serial'
<1> DEFINE o == rd[r]
           l == [o EXCEPT !.pc = "respond"]
<1>1. rd' = [rd EXCEPT ![r] = l] /\ wr' = wr /\ hdr' = hdr
    BY DEF Touch, Shape
<1>2. /\ Alone(r) /\ LookupAlone(mem, hdr, o) /\ o.pc = "scan" /\ o \in ReadType
      /\ o.i > o.h.len /\ o.expired = <<>> /\ hdr.len \in Nat /\ hdr \in Headers
      /\ mem \in Heaps /\ ReaderOK(mem, o) /\ Written(mem, hdr)
    BY DEF Touch, Scanned, Serial, Shape, Headers
<1>3. /\ l.pc = "respond" /\ l.q = o.q /\ l.h = o.h /\ l.i = o.i /\ l.best = o.best
      /\ l.t = o.t /\ l.score = o.score /\ l.expired = o.expired
    BY <1>2 DEF ReadType
<1> HIDE DEF o, l
<1>4. \A a \in 1..Len(mem) : \A i \in 1..Len(mem[a]) :
        /\ mem'[a][i].of = mem[a][i].of
        /\ mem'[a][i].storedAt = mem[a][i].storedAt
    BY TouchEffect
<1>5. ASSUME NEW i \in 1..hdr.len
      PROVE  /\ mem'[hdr.arr][i].of = mem[hdr.arr][i].of
             /\ Expired(mem'[hdr.arr][i], o.t) <=> Expired(mem[hdr.arr][i], o.t)
  <2>1. hdr.arr \in 1..Len(mem) /\ i \in 1..Len(mem[hdr.arr])
      BY <1>2, CellOfSlice
  <2> QED
      BY <1>4, <2>1 DEF Expired
<1>6. ASSUME o.best # NoBest
      PROVE  /\ Cursor(mem', o.best).of = Cursor(mem, o.best).of
             /\ Expired(Cursor(mem', o.best), o.t) <=> Expired(Cursor(mem, o.best), o.t)
  <2>1. o.best.arr \in 1..Len(mem) /\ o.best.idx \in 1..Len(mem[o.best.arr])
      BY <1>2, <1>6, ArrayType DEF ReaderOK
  <2> QED
      BY <1>4, <2>1 DEF Expired, Cursor
<1>7. Listed(mem', hdr', l)
    BY <1>1, <1>2, <1>3, <1>5 DEF LookupAlone, Listed
<1>8. Ranked(mem', hdr', l)
    BY <1>1, <1>2, <1>3, <1>5, <1>6 DEF LookupAlone, Ranked
<1>9. Follows(mem', hdr', l)
    BY <1>1, <1>2, <1>3 DEF LookupAlone, Follows
<1>10. LookupAlone(mem', hdr', l)
    BY <1>7, <1>8, <1>9 DEF LookupAlone
<1> QED
    BY <1>1, <1>2, <1>10, SerialRead

LEMMA SerialLookupEnd ==
  ASSUME Shape, Serial, setup.serial, NEW r \in Readers, LookupMiss(r) \/ LookupHit(r)
  PROVE  Serial'
<1>1. rd' = [rd EXCEPT ![r] = IdleRead] /\ rd[r].pc # "idle"
    BY DEF LookupMiss, LookupHit, Scanned
<1>2. Alone(r)
    BY <1>1 DEF Serial
<1>3. ASSUME NEW q \in Readers PROVE rd'[q].pc = "idle"
  <2>1. rd'[q] = IF q = r THEN IdleRead ELSE rd[q]
      BY <1>1 DEF Shape
  <2> QED
      BY <1>2, <2>1 DEF Alone, IdleRead
<1> QED
    BY <1>3, NoLookup

\* A Store and LoadFromStore run when no lookup does.
LEMMA SerialWrite ==
  ASSUME Shape, Serial, setup.serial,
         \/ LoadFromStore
         \/ \E w \in Writers : StoreStart(w) \/ StoreCommit(w)
  PROVE  Serial'
<1>1. rd' = rd
    BY DEF LoadFromStore, StoreStart, StoreCommit
<1>2. ASSUME NEW r \in Readers PROVE rd[r].pc = "idle"
  <2>1. CASE MayStart
      BY <2>1 DEF MayStart
  <2>2. ASSUME NEW w \in Writers, wr[w].pc = "store" PROVE rd[r].pc = "idle"
      BY <2>2 DEF Serial, Alone
  <2> QED
      BY <2>1, <2>2 DEF LoadFromStore, StoreStart, StoreCommit
<1> QED
    BY <1>1, <1>2, NoLookup

LEMMA SerialSame ==
  ASSUME Serial, UNCHANGED <<setup, mem, hdr, rd, wr>>
  PROVE  Serial'
  BY DEF Serial, Alone

LEMMA SerialStep ==
  ASSUME Shape, Serial, [Next]_vars
  PROVE  Serial'
<1>1. setup' = setup
    BY DEF Next, vars, Tick, LoadFromStore, LookupStart, ReadClock, Scan, Compare,
           RemoveExpired, LookupMiss, Touch, LookupHit, StoreStart, StoreCommit
<1>2. CASE ~setup.serial
    BY <1>1, <1>2 DEF Serial
<1>3. CASE setup.serial
  <2>1. CASE UNCHANGED vars
      BY <2>1, SerialSame DEF vars
  <2>2. CASE Tick
      BY <2>2, SerialSame DEF Tick
  <2>3. CASE LoadFromStore
      BY <1>3, <2>3, SerialWrite
  <2>4. ASSUME NEW r \in Readers,
               \/ LookupStart(r) \/ ReadClock(r) \/ Scan(r) \/ Compare(r)
               \/ RemoveExpired(r) \/ LookupMiss(r) \/ Touch(r) \/ LookupHit(r)
        PROVE  Serial'
      BY <1>3, <2>4, SerialLookupStart, SerialReadClock, SerialScan, SerialCompare,
         SerialRemoveExpired, SerialLookupEnd, SerialTouch
  <2>5. ASSUME NEW w \in Writers, StoreStart(w) \/ StoreCommit(w)
        PROVE  Serial'
      BY <1>3, <2>5, SerialWrite
  <2> QED
      BY <2>1, <2>2, <2>3, <2>4, <2>5 DEF Next
<1> QED
    BY <1>2, <1>3

\* The inductive invariant of the cache.
THEOREM Invariant == Spec => []IInv
<1>1. Init => IInv
  <2> SUFFICES ASSUME Init PROVE IInv
      OBVIOUS
  <2>1. \A r \in Readers : rd[r].pc = "idle"
      BY DEF Init, IdleRead
  <2> QED
      BY <2>1, ShapeInit DEF IInv, Serial
<1>2. IInv /\ [Next]_vars => IInv'
    BY ShapeStep, SerialStep DEF IInv
<1> QED
    BY <1>1, <1>2, PTL DEF Spec

\* The entries of the slice h, as Live has those of hdr.
Window(m, h) == IF h.arr = 0 THEN <<>> ELSE SubSeq(m[h.arr], 1, h.len)

LEMMA LiveIsWindow ==
  ASSUME NEW m \in Heaps, NEW h \in Headers, SliceOf(m, h)
  PROVE  /\ DOMAIN Window(m, h) = 1..h.len
         /\ \A i \in 1..h.len : Window(m, h)[i] = m[h.arr][i]
<1>1. h.len \in Nat
    BY DEF Headers
<1>2. CASE h.arr = 0
    BY <1>1, <1>2 DEF SliceOf, Window
<1>3. CASE h.arr # 0
  <2> DEFINE a == m[h.arr]
             n == h.len
  <2>1. a \in Seq(Cells) /\ n \in 0..Len(a)
      BY <1>3, SliceEnd, ArrayType
  <2>2. Window(m, h) = SubSeq(a, 1, n)
      BY <1>3 DEF Window
  <2> HIDE DEF a, n
  <2>3. Len(SubSeq(a, 1, n)) = n /\ \A i \in 1..n : SubSeq(a, 1, n)[i] = a[i]
      BY <2>1
  <2>4. DOMAIN SubSeq(a, 1, n) = 1..n
      BY <2>1
  <2> QED
      BY <2>2, <2>3, <2>4 DEF a, n
<1> QED
    BY <1>2, <1>3

\* Without overlap, Lookup answers with the most similar fresh entry, although
\* removeExpired moved entries between its scan and its answer.
THEOREM SerialHitsAreBest == Spec => []SerialHitIsBest
<1>1. IInv => SerialHitIsBest
  <2> SUFFICES ASSUME IInv, setup.serial, NEW r \in Readers, rd[r].pc = "respond"
               PROVE  /\ Similar(r)
                      /\ Age(Answer(r), rd[r].t) <= TTL
                      /\ \A i \in DOMAIN Live :
                           \/ Age(Live[i], rd[r].t) > TTL
                           \/ Score[<<rd[r].q, Live[i].of>>]
                                <= Score[<<rd[r].q, Answer(r).of>>]
      BY DEF SerialHitIsBest
  <2> DEFINE o == rd[r]
  <2>1. /\ LookupAlone(mem, hdr, o) /\ ReaderOK(mem, o) /\ o \in ReadType
        /\ mem \in Heaps /\ hdr \in Headers /\ Written(mem, hdr)
      BY DEF IInv, Serial, Shape
  <2>2. o.best # NoBest /\ Answer(r) = Cursor(mem, o.best)
      BY <2>1 DEF ReaderOK, Answer, Cursor
  <2>3. ~Expired(Answer(r), o.t) /\ Score[<<o.q, Answer(r).of>>] = o.score
      /\ o.score >= Threshold
      BY <2>1, <2>2 DEF LookupAlone, Ranked
  <2>4. Age(Answer(r), o.t) <= TTL
    <3>1. Answer(r) \in Entries
      <4>1. /\ o.best.arr \in 1..Len(mem) /\ o.best.idx \in 1..Len(mem[o.best.arr])
            /\ mem[o.best.arr][o.best.idx] # Empty
          BY <2>1, <2>2, ArrayType DEF ReaderOK, Cursor
      <4> QED
          BY <2>1, <2>2, <4>1, ArrayType DEF Cells, Cursor
    <3>2. Answer(r).storedAt \in Int /\ o.t \in Int /\ TTL \in Nat
        BY <2>1, <3>1, CacheAssumption DEF Entries, ReadType
    <3> QED
        BY <2>3, <3>2 DEF Expired, Age
  <2>5. ASSUME NEW i \in DOMAIN Live
        PROVE  \/ Age(Live[i], o.t) > TTL
               \/ Score[<<o.q, Live[i].of>>] <= Score[<<o.q, Answer(r).of>>]
    <3>1. i \in 1..hdr.len /\ Live[i] = mem[hdr.arr][i]
      <4>1. Live = Window(mem, hdr) /\ SliceOf(mem, hdr)
          BY <2>1 DEF Live, Window, Written
      <4> QED
          BY <2>1, <4>1, LiveIsWindow
    <3>2. i < o.i
      <4>1. o.i > o.h.len /\ hdr.len <= o.h.len
          BY <2>1 DEF LookupAlone, Follows
      <4>2. o.i \in Nat /\ o.h.len \in Nat /\ hdr.len \in Nat
          BY <2>1 DEF ReadType, Headers
      <4> QED
          BY <3>1, <4>1, <4>2
    <3>3. CASE Expired(Live[i], o.t)
        BY <3>3 DEF Expired, Age
    <3>4. CASE ~Expired(Live[i], o.t)
        BY <2>1, <2>3, <3>1, <3>2, <3>4 DEF LookupAlone, Ranked
    <3> QED
        BY <3>3, <3>4
  <2> QED
      BY <2>3, <2>4, <2>5 DEF Similar
<1> QED
    BY <1>1, Invariant, PTL

\* Only removeExpired empties the list of a lookup that found expired entries.
LEMMA RemovingIsRemoval ==
  ASSUME IInv, setup.serial, Next, NEW r \in Readers, Removing(r)
  PROVE  RemoveExpired(r)
<1>0. rd \in [Readers -> ReadType] /\ ReaderOK(mem, rd[r])
    BY DEF IInv, Shape
<1>1. rd[r].expired # <<>> /\ rd'[r].expired = <<>>
    BY DEF Removing
<1>2. rd[r].pc # "idle" /\ rd[r] \in ReadType
    BY <1>0, <1>1 DEF ReaderOK
<1>3. rd[r].pc # "respond"
    BY <1>1, <1>2 DEF IInv, Serial, LookupAlone, Follows
<1>4. rd' # rd
    BY <1>1
<1>5. PICK q \in Readers :
        \/ LookupStart(q) \/ ReadClock(q) \/ Scan(q) \/ Compare(q)
        \/ RemoveExpired(q) \/ LookupMiss(q) \/ Touch(q) \/ LookupHit(q)
    BY <1>4 DEF Next, Tick, LoadFromStore, StoreStart, StoreCommit
<1>6. ASSUME NEW p \in Readers, p # q PROVE rd'[p] = rd[p]
  <2>1. CASE LookupStart(q) \/ ReadClock(q)
      BY <1>0, <1>6, <2>1 DEF LookupStart, ReadClock
  <2>2. CASE Scan(q)
      BY <1>0, <1>6, <2>2 DEF Scan
  <2>3. CASE Compare(q)
      BY <1>0, <1>6, <2>3 DEF Compare
  <2>4. CASE RemoveExpired(q) \/ LookupMiss(q) \/ Touch(q) \/ LookupHit(q)
      BY <1>0, <1>6, <2>4 DEF RemoveExpired, LookupMiss, Touch, LookupHit
  <2> QED
      BY <1>5, <2>1, <2>2, <2>3, <2>4
<1>7. q = r
    BY <1>1, <1>6
<1>8. ~LookupStart(r) /\ ~LookupHit(r) /\ ~LookupMiss(r) /\ ~Touch(r)
    BY <1>1, <1>2, <1>3 DEF LookupStart, LookupHit, LookupMiss, Touch
<1>9. ~ReadClock(r) /\ ~Compare(r)
  <2>1. ReadClock(r) => rd'[r].expired = rd[r].expired
      BY <1>0, <1>2 DEF ReadClock, ReadType
  <2>2. Compare(r) => rd'[r].expired = rd[r].expired
      BY <1>0, <1>2 DEF Compare, ReadType
  <2> QED
      BY <1>1, <2>1, <2>2
<1>10. ~Scan(r)
  <2> SUFFICES ASSUME Scan(r) PROVE FALSE
      OBVIOUS
  <2>1. rd'[r].expired \in {rd[r].expired, Append(rd[r].expired, rd[r].i)}
      BY <1>0, <1>2 DEF Scan, ReadType
  <2>2. rd[r].expired \in Seq(Nat \ {0})
      BY <1>2 DEF ReadType
  <2>3. Append(rd[r].expired, rd[r].i) # <<>>
    <3> DEFINE e == rd[r].expired
               i == rd[r].i
    <3>1. e \in Seq(Nat) /\ i \in Nat
        BY <1>2, <2>2 DEF ReadType
    <3> HIDE DEF e, i
    <3>2. Len(Append(e, i)) = Len(e) + 1 /\ Len(e) \in Nat
        BY <3>1
    <3>3. Append(e, i) # <<>>
      <4> DEFINE f == Append(e, i)
      <4>1. Len(f) # 0 /\ f \in Seq(Nat)
          BY <3>1, <3>2
      <4> HIDE DEF f
      <4>2. f # <<>>
          BY <4>1, EmptySeq
      <4> QED
          BY <4>2 DEF f
    <3> QED
        BY <3>3 DEF e, i
  <2> QED
      BY <1>1, <2>1, <2>3
<1> QED
    BY <1>5, <1>7, <1>8, <1>9, <1>10

LEMMA CountLive ==
  ASSUME NEW m \in Heaps, NEW h \in Headers, SliceOf(m, h), NEW e
  PROVE  Count(e, Window(m, h)) = Cardinality(Places(m[h.arr], h.len, e))
<1>1. {i \in DOMAIN Window(m, h) : Window(m, h)[i] = e} = Places(m[h.arr], h.len, e)
    BY LiveIsWindow DEF Places
<1> QED
    BY <1>1 DEF Count

\* Without overlap, removeExpired removes every entry that had expired and no other,
\* however often an entry is stored.
THEOREM SerialRemovalsAreExact == Spec => SerialRemovalIsExact
<1>1. IInv /\ [Next]_vars =>
        [setup.serial =>
           \A r \in Readers : Removing(r) =>
             \A e \in Entries :
               Count(e, Live') = IF Age(e, rd[r].t) > TTL THEN 0 ELSE Count(e, Live)]_vars
  <2> SUFFICES ASSUME IInv, Next, setup.serial, NEW r \in Readers, Removing(r),
                      NEW e \in Entries
               PROVE  Count(e, Live')
                        = IF Age(e, rd[r].t) > TTL THEN 0 ELSE Count(e, Live)
      BY Zenon
  <2>1. RemoveExpired(r)
      BY RemovingIsRemoval
  <2> DEFINE x == [mem |-> mem', hdr |-> hdr']
             t == rd[r].t
  <2>2. PICK done : Exact(mem, hdr, t, done, {}, x)
      BY <2>1, RemovalAlone DEF IInv
  <2>3. /\ x.mem = mem' /\ x.hdr = hdr'
        /\ mem \in Heaps /\ hdr \in Headers /\ SliceOf(mem, hdr)
        /\ mem' \in Heaps /\ hdr' \in Headers /\ SliceOf(mem', hdr')
      BY <2>2 DEF Exact, States, IInv, Shape, Written
  <2> HIDE DEF x, t
  <2>4. Count(e, Live) = Cardinality(Places(mem[hdr.arr], hdr.len, e))
    <3>1. Live = Window(mem, hdr)
        BY DEF Live, Window
    <3> QED
        BY <2>3, <3>1, CountLive
  <2>5. Count(e, Live') = Cardinality(Places(mem'[hdr.arr], hdr'.len, e))
    <3>1. Live' = Window(mem', hdr')
        BY DEF Live, Window
    <3>2. hdr'.arr = hdr.arr
        BY <2>2, <2>3 DEF Exact
    <3>3. Count(e, Window(mem', hdr')) = Cardinality(Places(mem'[hdr'.arr], hdr'.len, e))
        BY <2>3, CountLive
    <3> QED
        BY <3>1, <3>2, <3>3
  <2>6. CASE Expired(e, t)
    <3>1. Places(mem'[hdr.arr], hdr'.len, e) = {}
        BY <2>2, <2>3, <2>6 DEF Exact, Places
    <3>2. Count(e, Live') = 0
        BY <2>5, <3>1, FS_EmptySet
    <3> QED
        BY <2>6, <3>2 DEF Expired, Age, t
  <2>7. CASE ~Expired(e, t)
    <3>1. Cardinality(Places(mem'[hdr.arr], hdr'.len, e))
            = Cardinality(Places(mem[hdr.arr], hdr.len, e))
        BY <2>2, <2>3, <2>7 DEF Exact
    <3>2. Count(e, Live') = Count(e, Live)
        BY <2>4, <2>5, <3>1
    <3> QED
        BY <2>7, <3>2 DEF Expired, Age, t
  <2> QED
      BY <2>6, <2>7
<1> QED
    BY <1>1, Invariant, PTL DEF Spec, SerialRemovalIsExact
=============================================================================
