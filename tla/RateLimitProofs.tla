-------------------------- MODULE RateLimitProofs --------------------------
(***************************************************************************)
(* Proofs about RateLimit.tla for every limit, window and set of workers.  *)
(* The first part is about Members, which counts over a set of scores: it  *)
(* obeys the laws of a sum, since members of different scores differ.  The *)
(* rest is the argument: what Redis holds is what was admitted, no less in *)
(* the window that counts and no more in any.                              *)
(***************************************************************************)
EXTENDS RateLimit, FiniteSetTheorems, TLAPS

(***************************************************************************)
(* Members: the laws of a sum, from those of unions and products           *)
(***************************************************************************)

Each(c, t) == {t} \X (1..c[t])
All(c, S) == UNION {Each(c, t) : t \in S}

LEMMA EachCounted ==
  ASSUME NEW c, NEW t, c[t] \in Nat
  PROVE  IsFiniteSet(Each(c, t)) /\ Cardinality(Each(c, t)) = c[t]
<1> DEFINE n == c[t]
<1>1. IsFiniteSet({t}) /\ Cardinality({t}) = 1
    BY FS_Singleton
<1>2. IsFiniteSet(1..n) /\ Cardinality(1..n) = n
  <2>1. 1 \in Int /\ n \in Int /\ n \in Nat
      OBVIOUS
  <2> HIDE DEF n
  <2>2. Cardinality(1..n) = (IF 1 > n THEN 0 ELSE n - 1 + 1) /\ IsFiniteSet(1..n)
      BY <2>1, FS_Interval
  <2> QED
      BY <2>1, <2>2
<1> HIDE DEF n
<1>3. IsFiniteSet({t} \X (1..n)) /\ Cardinality({t} \X (1..n)) = 1 * n
  <2> DEFINE A == {t}
             B == 1..n
  <2>1. /\ IsFiniteSet(A) /\ Cardinality(A) = 1
        /\ IsFiniteSet(B) /\ Cardinality(B) = n
      BY <1>1, <1>2
  <2> HIDE DEF A, B
  <2>2. IsFiniteSet(A \X B) /\ Cardinality(A \X B) = Cardinality(A) * Cardinality(B)
      BY <2>1, FS_Product
  <2> QED
      BY <2>1, <2>2 DEF A, B
<1>4. n \in Nat
    BY DEF n
<1> QED
    BY <1>3, <1>4 DEF Each, n

LEMMA MembersFinite ==
  ASSUME NEW T, NEW c \in [T -> Nat], NEW S \in SUBSET T, IsFiniteSet(S)
  PROVE  IsFiniteSet(All(c, S)) /\ Members(c, S) = Cardinality(All(c, S))
<1> DEFINE f == [t \in S |-> Each(c, t)]
           R == {Each(c, t) : t \in S}
<1>1. f \in Surjection(S, R)
    BY DEF Surjection
<1> HIDE DEF f
<1>2. IsFiniteSet(R)
    BY <1>1, FS_Surjection
<1>3. \A e \in R : IsFiniteSet(e)
    BY EachCounted
<1> HIDE DEF R
<1>4. IsFiniteSet(UNION R)
    BY <1>2, <1>3, FS_UNION
<1>5. All(c, S) = UNION R
    BY DEF All, R
<1>6. Members(c, S) = Cardinality(All(c, S))
    BY DEF Members, All, Each
<1> QED
    BY <1>4, <1>5, <1>6

LEMMA MembersType ==
  ASSUME NEW T, NEW c \in [T -> Nat], NEW S \in SUBSET T, IsFiniteSet(S)
  PROVE  Members(c, S) \in Nat
  BY MembersFinite, FS_CardinalityType

LEMMA MembersNone ==
  ASSUME NEW c
  PROVE  Members(c, {}) = 0
<1>1. All(c, {}) = {} /\ Members(c, {}) = Cardinality(All(c, {}))
    BY DEF Members, All, Each
<1> QED
    BY <1>1, FS_EmptySet

LEMMA MembersRemove ==
  ASSUME NEW T, NEW c \in [T -> Nat], NEW S \in SUBSET T, IsFiniteSet(S), NEW x \in S
  PROVE  Members(c, S) = Members(c, S \ {x}) + c[x]
<1> DEFINE R == S \ {x}
           A == All(c, R)
           E == Each(c, x)
<1>1. R \in SUBSET T /\ IsFiniteSet(R)
    BY FS_Subset
<1>2. All(c, S) = A \cup E /\ A \cap E = {}
    BY DEF All, Each
<1>3. Members(c, S) = Cardinality(All(c, S))
    BY MembersFinite
<1> HIDE DEF R
<1>4. IsFiniteSet(A) /\ Members(c, R) = Cardinality(A) /\ Cardinality(A) \in Nat
    BY <1>1, MembersFinite, FS_CardinalityType
<1>5. c[x] \in Nat /\ IsFiniteSet(E) /\ Cardinality(E) = c[x]
    BY EachCounted
<1> HIDE DEF A, E
<1>6. Cardinality(A \cup E) = Cardinality(A) + Cardinality(E) - Cardinality(A \cap E)
    BY <1>4, <1>5, FS_Union
<1>7. Cardinality(A \cap E) = 0
    BY <1>2, FS_EmptySet
<1> QED
    BY <1>2, <1>3, <1>4, <1>5, <1>6, <1>7 DEF R

\* Counts that agree on S, or exceed each other there.
LEMMA MembersMonotone ==
  ASSUME NEW T, NEW c \in [T -> Nat], NEW d \in [T -> Nat],
         NEW S \in SUBSET T, IsFiniteSet(S), \A t \in S : c[t] <= d[t]
  PROVE  Members(c, S) <= Members(d, S)
<1>1. ASSUME NEW t \in S PROVE Each(c, t) \subseteq Each(d, t)
  <2>1. c[t] \in Nat /\ d[t] \in Nat /\ c[t] <= d[t]
      OBVIOUS
  <2>2. 1..c[t] \subseteq 1..d[t]
      BY <2>1
  <2> QED
      BY <2>2 DEF Each
<1>2. All(c, S) \in SUBSET All(d, S)
    BY <1>1 DEF All
<1>3. IsFiniteSet(All(d, S)) /\ Members(d, S) = Cardinality(All(d, S))
    BY MembersFinite
<1>4. Members(c, S) = Cardinality(All(c, S))
    BY MembersFinite
<1> QED
    BY <1>2, <1>3, <1>4, FS_Subset

\* Fewer scores.
LEMMA MembersSubset ==
  ASSUME NEW T, NEW c \in [T -> Nat], NEW S \in SUBSET T, IsFiniteSet(S), NEW R \in SUBSET S
  PROVE  Members(c, R) <= Members(c, S)
<1>1. All(c, R) \in SUBSET All(c, S)
    BY DEF All
<1>2. R \in SUBSET T /\ IsFiniteSet(R)
    BY FS_Subset
<1>3. IsFiniteSet(All(c, S)) /\ Members(c, S) = Cardinality(All(c, S))
    BY MembersFinite
<1>4. Members(c, R) = Cardinality(All(c, R))
    BY <1>2, MembersFinite
<1> QED
    BY <1>1, <1>3, <1>4, FS_Subset

\* One more member.
LEMMA MembersAdd ==
  ASSUME NEW T, NEW c \in [T -> Nat], NEW d \in [T -> Nat], NEW x \in T,
         d[x] = c[x] + 1, \A t \in T : t # x => d[t] = c[t],
         NEW S \in SUBSET T, IsFiniteSet(S)
  PROVE  Members(d, S) = Members(c, S) + (IF x \in S THEN 1 ELSE 0)
<1> DEFINE R == S \ {x}
<1>1. \A t \in R : d[t] = c[t]
    OBVIOUS
<1>2. R \in SUBSET T /\ IsFiniteSet(R)
    BY FS_Subset
<1>3. c[x] \in Nat
    OBVIOUS
<1> HIDE DEF R
<1>4. \A t \in R : c[t] <= d[t] /\ d[t] <= c[t]
    BY <1>1, <1>2
<1>5. Members(c, R) \in Nat /\ Members(d, R) \in Nat
    BY <1>1, <1>2, MembersType
<1>6. Members(c, R) <= Members(d, R) /\ Members(d, R) <= Members(c, R)
    BY <1>1, <1>2, <1>4, MembersMonotone
<1>7. Members(d, R) = Members(c, R)
    BY <1>5, <1>6
<1>8. CASE x \in S
  <2>1. Members(c, S) = Members(c, R) + c[x] /\ Members(d, S) = Members(d, R) + d[x]
      BY <1>1, <1>8, MembersRemove DEF R
  <2> QED
      BY <1>1, <1>3, <1>5, <1>7, <1>8, <2>1
<1>9. CASE x \notin S
  <2>1. R = S
      BY <1>9 DEF R
  <2> QED
      BY <1>5, <1>7, <1>9, <2>1
<1> QED
    BY <1>8, <1>9

\* Scores without members.
LEMMA MembersZero ==
  ASSUME NEW T, NEW c \in [T -> Nat], NEW S \in SUBSET T, IsFiniteSet(S),
         NEW R \in SUBSET S, \A t \in S \ R : c[t] = 0
  PROVE  Members(c, S) = Members(c, R)
<1>1. \A t \in S \ R : Each(c, t) = {}
    BY DEF Each
<1>2. All(c, S) = All(c, R)
    BY <1>1 DEF All
<1>3. Members(c, S) = Cardinality(All(c, S)) /\ Members(c, R) = Cardinality(All(c, R))
    BY DEF Members, All, Each
<1> QED
    BY <1>2, <1>3

-----------------------------------------------------------------------------
(***************************************************************************)
(* The invariant                                                           *)
(***************************************************************************)

\* The requests that are at one of the commands L, and those of a score in S.
At(L) == {w \in Workers : pc[w] \in L}
Scored(L, S) == {w \in Workers : pc[w] \in L /\ score[w] \in S}

Running == {"purge", "count", "add", "expire"}

\* How many: in Redis, through, in Redis but not through, past the check but not through.
Stored(S) == Members(zset, S)
Accepted(S) == Members(admitted, S)
Noted(S) == Cardinality(Scored({"expire"}, S))
Passed(S) == Cardinality(Scored({"add", "expire"}, S))

After(t) == {u \in Time : u > t}
Win(start, length) == {t \in Time : start < t /\ t <= start + length}

\* A running request read the clock at most MaxDelay ago.
InTime == \A w \in Workers :
            /\ score[w] <= now
            /\ pc[w] # "idle" => now <= score[w] + MaxDelay

PeakSeen == Cardinality(At(Running)) <= peak

\* Redis holds members of the past only, and none outside the window of a request
\* that has purged.
MembersPast ==
  /\ \A t \in Time : zset[t] > 0 => t <= now
  /\ \A w \in Workers : pc[w] = "count" => \A t \in Time : zset[t] > 0 => t > score[w] - Window

\* The members stand for requests that were admitted or are about to be.
MembersTrue == \A S \in SUBSET Time : Stored(S) <= Accepted(S) + Noted(S)

\* What keeps the key: a request that will set its expiry again before it is over,
\* or nothing to lose.
Saved == \E w \in Workers : pc[w] = "expire" /\ score[w] + MaxDelay < expireAt
Covered ==
  /\ \A t \in Time : zset[t] > 0 => t + KeyTTL <= expireAt
  /\ \A w \in Workers : pc[w] \in {"count", "add", "expire"} => score[w] + MaxDelay < expireAt
KeyKept == expireAt # NoExpiry => now < expireAt /\ (Saved \/ Covered)

\* No member is missing that the window of now covers; of a lone request, none
\* that its own window covers.
MembersKept == \A S \in SUBSET After(now - Window) : Stored(S) >= Accepted(S) + Noted(S)

LoneKept == \A w \in Workers : peak <= 1 /\ pc[w] \in {"purge", "count"} =>
  \A S \in SUBSET After(score[w] - Window) : Stored(S) >= Accepted(S)

\* Admitted, or past the check.
Granted(S) == Accepted(S) + Passed(S)

WindowsHold == \A start \in -1..MaxTime :
  IF peak <= 1 THEN Granted(Win(start, Window)) <= Limit
               ELSE Granted(Win(start, Window - MaxDelay)) <= Limit + peak - 1

Counting == KeyKept /\ MembersKept /\ LoneKept /\ WindowsHold

IInv == /\ TypeOK /\ InTime /\ PeakSeen /\ MembersPast /\ MembersTrue
        /\ (~failed => Counting)

-----------------------------------------------------------------------------
(***************************************************************************)
(* Counting requests                                                       *)
(***************************************************************************)

One(b) == IF b THEN 1 ELSE 0

LEMMA TimeFinite ==
  /\ 0 \in Time /\ \A t \in Time : t \in Nat
  /\ \A S \in SUBSET Time : IsFiniteSet(S)
<1>1. MaxTime \in Nat
    BY RateLimitAssumption
<1>2. IsFiniteSet(Time)
    BY <1>1, FS_Interval DEF Time
<1>3. \A S \in SUBSET Time : IsFiniteSet(S)
    BY <1>2, FS_Subset
<1>4. 0 \in Time /\ \A t \in Time : t \in Nat
    BY <1>1 DEF Time
<1> QED
    BY <1>3, <1>4

LEMMA SomeWorkers ==
  ASSUME NEW A \in SUBSET Workers
  PROVE  IsFiniteSet(A) /\ Cardinality(A) \in Nat
  BY RateLimitAssumption, FS_Subset, FS_CardinalityType

\* One request goes from one command to another.
LEMMA Moved ==
  ASSUME pc \in [Workers -> Running \cup {"idle"}], NEW w \in Workers, NEW l,
         pc' = [pc EXCEPT ![w] = l], score' = score, NEW L, NEW S
  PROVE  /\ Cardinality(Scored(L, S)) \in Nat /\ Cardinality(Scored(L, S)') \in Nat
         /\ Cardinality(Scored(L, S)') + One(pc[w] \in L /\ score[w] \in S)
            = Cardinality(Scored(L, S)) + One(l \in L /\ score[w] \in S)
<1> DEFINE B == Scored(L, S) \ {w}
           n == Cardinality(B)
<1>1. /\ Scored(L, S) = IF pc[w] \in L /\ score[w] \in S THEN B \cup {w} ELSE B
      /\ Scored(L, S)' = IF l \in L /\ score[w] \in S THEN B \cup {w} ELSE B
    BY DEF Scored
<1>2. B \in SUBSET Workers /\ w \notin B
    BY DEF Scored
<1> HIDE DEF B
<1>3. IsFiniteSet(B) /\ Cardinality(B) \in Nat /\ Cardinality(B \cup {w}) = Cardinality(B) + 1
    BY <1>2, SomeWorkers, FS_AddElement
<1> DEFINE was == One(pc[w] \in L /\ score[w] \in S)
           is == One(l \in L /\ score[w] \in S)
<1>4. Cardinality(Scored(L, S)) = n + was
    BY <1>1, <1>3 DEF One
<1>5. Cardinality(Scored(L, S)') = n + is
    BY <1>1, <1>3 DEF One
<1>6. was \in {0, 1} /\ is \in {0, 1}
    BY DEF One
<1>7. n \in Nat
    BY <1>3
<1> HIDE DEF n, was, is
<1>8. /\ Cardinality(Scored(L, S)) \in Nat /\ Cardinality(Scored(L, S)') \in Nat
      /\ Cardinality(Scored(L, S)') + was = Cardinality(Scored(L, S)) + is
    BY <1>4, <1>5, <1>6, <1>7
<1> QED
    BY <1>8 DEF was, is

\* Two requests that run.
LEMMA TwoRun ==
  ASSUME NEW A \in SUBSET Workers, NEW v \in A, NEW w \in A, v # w
  PROVE  Cardinality(A) >= 2
<1>1. IsFiniteSet({v}) /\ Cardinality({v}) = 1
    BY FS_Singleton
<1>2. IsFiniteSet({v} \cup {w}) /\ Cardinality({v} \cup {w}) = 2
    BY <1>1, FS_AddElement
<1>3. {v} \cup {w} \in SUBSET A /\ IsFiniteSet(A) /\ Cardinality(A) \in Nat
    BY SomeWorkers
<1>4. Cardinality({v} \cup {w}) <= Cardinality(A)
    BY <1>3, FS_Subset
<1> QED
    BY <1>2, <1>3, <1>4

\* The larger of two numbers.
LEMMA MaxOfTwo ==
  ASSUME NEW a \in Int, NEW b \in Int
  PROVE  Max({a, b}) \in {a, b} /\ Max({a, b}) >= a /\ Max({a, b}) >= b
<1>1. \E x \in {a, b} : \A y \in {a, b} : x >= y
  <2>1. CASE a >= b
      BY <2>1
  <2>2. CASE b >= a
      BY <2>2
  <2> QED
      BY <2>1, <2>2
<1> QED
    BY <1>1 DEF Max

-----------------------------------------------------------------------------
(***************************************************************************)
(* Types and times                                                         *)
(***************************************************************************)

LEMMA Numbers ==
  /\ Limit \in Nat \ {0} /\ Window \in Nat \ {0} /\ MaxTime \in Nat
  /\ MaxDelay \in Nat /\ MaxDelay < Window /\ KeyTTL = 2 * Window
  BY RateLimitAssumption DEF KeyTTL

LEMMA IInvInit == Init => IInv
<1> SUFFICES ASSUME Init PROVE IInv
    OBVIOUS
<1>1. /\ now = 0 /\ zset \in [Time -> Nat] /\ admitted \in [Time -> Nat]
      /\ (\A t \in Time : zset[t] = 0 /\ admitted[t] = 0) /\ expireAt = NoExpiry
      /\ pc \in [Workers -> {"idle"}] /\ score \in [Workers -> Time] /\ peak = 0
      /\ failed = FALSE
    BY TimeFinite DEF Init
<1>2. \A L, S : "idle" \notin L => Scored(L, S) = {}
    BY <1>1 DEF Scored
<1>3. At(Running) = {} /\ Cardinality({}) = 0
    BY <1>1, FS_EmptySet DEF At, Running
<1>4. ASSUME NEW S \in SUBSET Time PROVE Members(zset, S) = 0 /\ Members(admitted, S) = 0
  <2>1. IsFiniteSet(S) /\ {} \in SUBSET S /\ \A t \in S \ {} : zset[t] = 0 /\ admitted[t] = 0
      BY <1>1, TimeFinite
  <2>2. Members(zset, S) = Members(zset, {}) /\ Members(admitted, S) = Members(admitted, {})
      BY <1>1, <2>1, MembersZero
  <2> QED
      BY <2>2, MembersNone
<1>5. TypeOK
  <2>1. Cardinality(Workers) \in Nat
      BY SomeWorkers
  <2>2. 0 \in Time /\ peak \in 0..Cardinality(Workers)
      BY <1>1, <2>1, TimeFinite
  <2>3. pc \in [Workers -> {"idle", "purge", "count", "add", "expire"}]
      BY <1>1
  <2>4. failed \in BOOLEAN
      BY <1>1
  <2> QED
      BY <1>1, <2>2, <2>3, <2>4 DEF TypeOK
<1>6. InTime /\ PeakSeen /\ MembersPast
    BY <1>1, <1>3 DEF InTime, PeakSeen, MembersPast, Init
<1>7. MembersTrue
    BY <1>2, <1>3, <1>4 DEF MembersTrue, Stored, Accepted, Noted
<1>8. KeyKept /\ LoneKept
    BY <1>1 DEF KeyKept, LoneKept
<1>9. MembersKept
  <2>1. \A S \in SUBSET After(now - Window) : S \in SUBSET Time
      BY DEF After
  <2> QED
      BY <1>2, <1>3, <1>4, <2>1 DEF MembersKept, Stored, Accepted, Noted
<1>10. WindowsHold
  <2> SUFFICES ASSUME NEW start \in -1..MaxTime PROVE Granted(Win(start, Window)) <= Limit
      BY <1>1 DEF WindowsHold
  <2>1. Win(start, Window) \in SUBSET Time
      BY DEF Win
  <2>2. Granted(Win(start, Window)) = 0
      BY <1>2, <1>3, <1>4, <2>1 DEF Granted, Accepted, Passed
  <2> QED
      BY <2>2, Numbers
<1> QED
    BY <1>5, <1>6, <1>7, <1>8, <1>9, <1>10 DEF IInv, Counting

\* The variables that a command may change.
Kept == now' = now /\ score' = score /\ peak' = peak

Command(w) == Purge(w) \/ CountBelowLimit(w) \/ Reject(w) \/ FailOpen(w) \/ Add(w) \/ Expire(w)

\* Where a command comes from and goes to.
LEMMA CommandMoves ==
  ASSUME NEW w \in Workers, Command(w)
  PROVE  /\ Kept /\ (~failed' => ~failed)
         /\ \E l \in {"idle", "count", "add", "expire"} :
              pc[w] \in Running /\ pc' = [pc EXCEPT ![w] = l]
  BY DEF Command, Purge, CountBelowLimit, Reject, FailOpen, Add, Expire, Goto, Kept, Running

LEMMA TypeStep ==
  ASSUME TypeOK, [Next]_vars
  PROVE  TypeOK'
<1> DEFINE PC == {"idle", "purge", "count", "add", "expire"}
<1>0. /\ now \in Time /\ zset \in [Time -> Nat] /\ admitted \in [Time -> Nat]
      /\ expireAt \in {NoExpiry} \cup 0..MaxTime + 2 * Window
      /\ pc \in [Workers -> PC] /\ score \in [Workers -> Time]
      /\ peak \in 0..Cardinality(Workers) /\ failed \in BOOLEAN
      /\ Cardinality(Workers) \in Nat
    BY SomeWorkers DEF TypeOK
<1>1. ASSUME Tick PROVE TypeOK'
  <2>1. now' \in Time
      BY <1>0, <1>1, Numbers DEF Tick, Time
  <2>2. zset' \in [Time -> Nat] /\ expireAt' \in {NoExpiry} \cup 0..MaxTime + 2 * Window
      BY <1>0, <1>1 DEF Tick
  <2> QED
      BY <1>0, <1>1, <2>1, <2>2 DEF Tick, TypeOK
<1>2. ASSUME NEW w \in Workers, Arrive(w) PROVE TypeOK'
  <2> DEFINE n == Cardinality({v \in Workers : pc'[v] # "idle"})
  <2>1. /\ pc' \in [Workers -> PC] /\ score' \in [Workers -> Time]
        /\ peak' = Max({peak, n})
        /\ now' = now /\ zset' = zset /\ expireAt' = expireAt /\ admitted' = admitted
        /\ failed' = failed
      BY <1>0, <1>2 DEF Arrive, Goto
  <2>2. n \in 0..Cardinality(Workers)
    <3>1. IsFiniteSet(Workers) /\ {v \in Workers : pc'[v] # "idle"} \in SUBSET Workers
        BY RateLimitAssumption
    <3>2. n <= Cardinality(Workers) /\ n \in Nat
        BY <3>1, SomeWorkers, FS_Subset
    <3> QED
        BY <1>0, <3>2
  <2> HIDE DEF n
  <2>3. peak' \in {peak, n}
    <3>1. peak \in Int /\ n \in Int
        BY <1>0, <2>2
    <3> QED
        BY <2>1, <3>1, MaxOfTwo
  <2>4. peak' \in 0..Cardinality(Workers)
      BY <1>0, <2>2, <2>3
  <2> QED
      BY <1>0, <2>1, <2>4 DEF TypeOK
<1>3. ASSUME NEW w \in Workers, Command(w) PROVE TypeOK'
  <2>1. pc' \in [Workers -> PC] /\ Kept
      BY <1>0, <1>3, CommandMoves
  <2>2. score[w] \in Time /\ zset[score[w]] + 1 \in Nat /\ admitted[score[w]] + 1 \in Nat
      BY <1>0
  <2>3. zset' \in [Time -> Nat]
      BY <1>0, <1>3, <2>2 DEF Command, Purge, CountBelowLimit, Reject, FailOpen, Add, Expire
  <2>4. admitted' \in [Time -> Nat]
      BY <1>0, <1>3, <2>2
      DEF Command, Purge, CountBelowLimit, Reject, FailOpen, Add, Expire, Admit
  <2>5. expireAt' \in {NoExpiry} \cup 0..MaxTime + 2 * Window
    <3>1. now + KeyTTL \in 0..MaxTime + 2 * Window
        BY <1>0, Numbers DEF Time
    <3>2. \/ expireAt' = expireAt
          \/ expireAt' \in {expireAt, NoExpiry, now + KeyTTL}
        BY <1>3 DEF Command, Purge, CountBelowLimit, Reject, FailOpen, Add, Expire
    <3> QED
        BY <1>0, <3>1, <3>2
  <2>6. failed' \in BOOLEAN
      BY <1>0, <1>3 DEF Command, Purge, CountBelowLimit, Reject, FailOpen, Add, Expire
  <2> QED
      BY <1>0, <2>1, <2>3, <2>4, <2>5, <2>6 DEF TypeOK, Kept
<1>4. ASSUME UNCHANGED vars PROVE TypeOK'
    BY <1>0, <1>4 DEF vars, TypeOK
<1> QED
    BY <1>1, <1>2, <1>3, <1>4 DEF Next, Command

\* What the steps need of the types.
LEMMA StateTypes ==
  ASSUME TypeOK
  PROVE  /\ now \in Nat /\ zset \in [Time -> Nat] /\ admitted \in [Time -> Nat]
         /\ pc \in [Workers -> Running \cup {"idle"}] /\ score \in [Workers -> Time]
         /\ peak \in Nat
         /\ \A w \in Workers : score[w] \in Nat
         /\ expireAt \in Int
<1>1. Cardinality(Workers) \in Nat
    BY SomeWorkers
<1>2. peak \in Nat
    BY <1>1 DEF TypeOK
<1>3. expireAt \in Int
    BY Numbers DEF TypeOK, NoExpiry
<1> QED
    BY <1>2, <1>3, TimeFinite DEF TypeOK, Running

\* The clock does not leave a running request behind.
LEMMA TimeStep ==
  ASSUME TypeOK, InTime, [Next]_vars
  PROVE  InTime'
<1>0. /\ now \in Nat /\ pc \in [Workers -> Running \cup {"idle"}]
      /\ score \in [Workers -> Time]
      /\ \A w \in Workers : score[w] \in Nat
    BY StateTypes
<1>1. CASE Tick
  <2>1. now' = now + 1 /\ pc' = pc /\ score' = score
        /\ \A w \in Workers : pc[w] # "idle" => now < score[w] + MaxDelay
      BY <1>1 DEF Tick
  <2> QED
      BY <1>0, <2>1, Numbers DEF InTime
<1>2. ASSUME NEW w \in Workers, Arrive(w) PROVE InTime'
  <2>1. /\ now' = now /\ score' = [score EXCEPT ![w] = now] /\ pc' = [pc EXCEPT ![w] = "purge"]
      BY <1>2 DEF Arrive, Goto
  <2>2. ASSUME NEW v \in Workers
        PROVE  score'[v] <= now' /\ (pc'[v] # "idle" => now' <= score'[v] + MaxDelay)
    <3>1. CASE v = w
        BY <1>0, <2>1, <3>1, Numbers
    <3>2. CASE v # w
        BY <1>0, <2>1, <3>2 DEF InTime
    <3> QED
        BY <3>1, <3>2
  <2> QED
      BY <2>2 DEF InTime
<1>3. ASSUME NEW w \in Workers, Command(w) PROVE InTime'
  <2>1. PICK l : pc[w] \in Running /\ pc' = [pc EXCEPT ![w] = l] /\ Kept
      BY <1>3, CommandMoves
  <2>2. \A v \in Workers : pc'[v] # "idle" => pc[v] # "idle"
      BY <1>0, <2>1 DEF Running
  <2> QED
      BY <2>1, <2>2 DEF InTime, Kept
<1>4. CASE UNCHANGED vars
    BY <1>4 DEF vars, InTime
<1> QED
    BY <1>1, <1>2, <1>3, <1>4 DEF Next, Command

\* The history of the peak counts the requests that run.
LEMMA PeakStep ==
  ASSUME TypeOK, PeakSeen, [Next]_vars
  PROVE  PeakSeen' /\ peak <= peak'
<1>0. /\ pc \in [Workers -> Running \cup {"idle"}] /\ peak \in Nat
    BY StateTypes
<1>1. ASSUME NEW w \in Workers, Arrive(w) PROVE PeakSeen' /\ peak <= peak'
  <2> DEFINE n == Cardinality({v \in Workers : pc'[v] # "idle"})
  <2>1. peak' = Max({peak, n}) /\ pc' = [pc EXCEPT ![w] = "purge"]
      BY <1>1 DEF Arrive, Goto
  <2>2. n \in Nat
      BY SomeWorkers
  <2>3. At(Running)' = {v \in Workers : pc'[v] # "idle"}
      BY <1>0, <2>1 DEF At, Running
  <2>4. Cardinality(At(Running)') = n
      BY <2>3
  <2> HIDE DEF n
  <2>5. peak' >= n /\ peak' >= peak
      BY <1>0, <2>1, <2>2, MaxOfTwo
  <2>6. peak' \in Int
    <3>1. Max({peak, n}) \in {peak, n}
        BY <1>0, <2>2, MaxOfTwo
    <3> QED
        BY <1>0, <2>1, <2>2, <3>1
  <2> QED
      BY <1>0, <2>2, <2>4, <2>5, <2>6 DEF PeakSeen
<1>2. ASSUME NEW w \in Workers, Command(w) PROVE PeakSeen' /\ peak <= peak'
  <2>1. PICK l : pc[w] \in Running /\ pc' = [pc EXCEPT ![w] = l] /\ Kept
      BY <1>2, CommandMoves
  <2>2. At(Running)' \in SUBSET At(Running) /\ At(Running) \in SUBSET Workers
      BY <1>0, <2>1 DEF At
  <2>3. /\ Cardinality(At(Running)') <= Cardinality(At(Running))
        /\ Cardinality(At(Running)') \in Nat /\ Cardinality(At(Running)) \in Nat
    <3>1. IsFiniteSet(At(Running)) /\ Cardinality(At(Running)) \in Nat
        BY <2>2, SomeWorkers
    <3>2. At(Running)' \in SUBSET Workers
        BY <2>2
    <3> QED
        BY <2>2, <3>1, <3>2, SomeWorkers, FS_Subset
  <2>4. peak' = peak
      BY <2>1 DEF Kept
  <2> QED
      BY <1>0, <2>3, <2>4 DEF PeakSeen
<1>3. CASE Tick \/ UNCHANGED vars
  <2>1. pc' = pc /\ peak' = peak
      BY <1>3 DEF Tick, vars
  <2>2. At(Running)' = At(Running)
      BY <2>1 DEF At
  <2> QED
      BY <1>0, <2>1, <2>2 DEF PeakSeen
<1> QED
    BY <1>1, <1>2, <1>3 DEF Next, Command

\* Members are of the past, and inside the window of a request that has purged:
\* a slow request does not add one outside the window of another.
LEMMA PastStep ==
  ASSUME TypeOK, InTime, MembersPast, [Next]_vars
  PROVE  MembersPast'
<1>0. /\ now \in Nat /\ pc \in [Workers -> Running \cup {"idle"}]
      /\ score \in [Workers -> Time]
      /\ zset \in [Time -> Nat] /\ \A w \in Workers : score[w] \in Nat
    BY StateTypes
<1>n. \A t \in Time : t \in Nat
    BY TimeFinite
<1>1. CASE Tick
  <2>1. now' = now + 1 /\ pc' = pc /\ score' = score
        /\ \A t \in Time : zset'[t] = zset[t] \/ zset'[t] = 0
      BY <1>0, <1>1 DEF Tick
  <2>2. \A t \in Time : zset'[t] > 0 => zset[t] > 0 /\ t <= now'
      BY <1>0, <1>n, <2>1 DEF MembersPast
  <2> QED
      BY <2>1, <2>2 DEF MembersPast
<1>2. ASSUME NEW w \in Workers, Arrive(w) PROVE MembersPast'
  <2>1. /\ now' = now /\ zset' = zset /\ pc'[w] = "purge"
        /\ \A v \in Workers : v # w => pc'[v] = pc[v] /\ score'[v] = score[v]
      BY <1>0, <1>2 DEF Arrive, Goto
  <2> QED
      BY <2>1 DEF MembersPast
<1>3. ASSUME NEW w \in Workers, Purge(w) PROVE MembersPast'
  <2>1. /\ now' = now /\ score' = score /\ pc'[w] = "count"
        /\ \A v \in Workers : v # w => pc'[v] = pc[v]
        /\ \A t \in Time : zset'[t] = IF Outside(w, t) THEN 0 ELSE zset[t]
      BY <1>0, <1>3 DEF Purge, Goto
  <2>2. \A t \in Time : zset'[t] > 0 => zset[t] > 0 /\ t > score[w] - Window
      BY <1>0, <1>n, <2>1, Numbers DEF Outside
  <2> QED
      BY <2>1, <2>2 DEF MembersPast
<1>4. ASSUME NEW w \in Workers, Add(w) PROVE MembersPast'
  <2>1. /\ now' = now /\ score' = score /\ pc'[w] = "expire" /\ pc[w] = "add"
        /\ \A v \in Workers : v # w => pc'[v] = pc[v]
        /\ \A t \in Time : t # score[w] => zset'[t] = zset[t]
      BY <1>0, <1>4 DEF Add, Goto
  <2>2. score[w] <= now /\ now <= score[w] + MaxDelay /\ \A v \in Workers : score[v] <= now
      BY <2>1 DEF InTime
  <2>3. \A v \in Workers : score[w] > score[v] - Window
      BY <1>0, <2>2, Numbers
  <2> QED
      BY <2>1, <2>2, <2>3 DEF MembersPast
<1>5. ASSUME NEW w \in Workers, CountBelowLimit(w) \/ Reject(w) \/ FailOpen(w) \/ Expire(w)
      PROVE  MembersPast'
  <2>1. /\ now' = now /\ score' = score /\ zset' = zset
        /\ \A v \in Workers : pc'[v] = "count" => pc[v] = "count"
      BY <1>0, <1>5 DEF CountBelowLimit, Reject, FailOpen, Expire, Goto
  <2> QED
      BY <2>1 DEF MembersPast
<1>6. CASE UNCHANGED vars
    BY <1>6 DEF vars, MembersPast
<1> QED
    BY <1>1, <1>2, <1>3, <1>4, <1>5, <1>6 DEF Next

-----------------------------------------------------------------------------
(***************************************************************************)
(* What each step does to the counts                                       *)
(***************************************************************************)

Its(w, S) == IF score[w] \in S THEN 1 ELSE 0

LEMMA CountTypes ==
  ASSUME TypeOK, NEW S \in SUBSET Time
  PROVE  /\ Stored(S) \in Nat /\ Accepted(S) \in Nat /\ Noted(S) \in Nat /\ Passed(S) \in Nat
         /\ \A w \in Workers : Its(w, S) \in {0, 1}
<1>1. IsFiniteSet(S) /\ zset \in [Time -> Nat] /\ admitted \in [Time -> Nat]
    BY TimeFinite, StateTypes
<1>2. Stored(S) \in Nat /\ Accepted(S) \in Nat
    BY <1>1, MembersType DEF Stored, Accepted
<1>3. /\ Scored({"expire"}, S) \in SUBSET Workers
      /\ Scored({"add", "expire"}, S) \in SUBSET Workers
    BY DEF Scored
<1>4. Noted(S) \in Nat /\ Passed(S) \in Nat
    BY <1>3, SomeWorkers DEF Noted, Passed
<1> QED
    BY <1>2, <1>4 DEF Its, One

\* The requests past the check, by where w comes from and goes to.
LEMMA MovedCounts ==
  ASSUME TypeOK, NEW w \in Workers, NEW l, pc' = [pc EXCEPT ![w] = l], score' = score,
         NEW S \in SUBSET Time
  PROVE  /\ Noted(S)' \in Nat /\ Passed(S)' \in Nat
         /\ pc[w] = "expire" => Noted(S) = Noted(S)' + (IF l = "expire" THEN 0 ELSE Its(w, S))
         /\ pc[w] # "expire" => Noted(S)' = Noted(S) + (IF l = "expire" THEN Its(w, S) ELSE 0)
         /\ pc[w] \in {"add", "expire"} =>
              Passed(S) = Passed(S)' + (IF l \in {"add", "expire"} THEN 0 ELSE Its(w, S))
         /\ pc[w] \notin {"add", "expire"} =>
              Passed(S)' = Passed(S) + (IF l \in {"add", "expire"} THEN Its(w, S) ELSE 0)
<1> DEFINE i == Its(w, S)
<1>1. pc \in [Workers -> Running \cup {"idle"}]
    BY StateTypes
<1>2. ASSUME NEW L
      PROVE  /\ Cardinality(Scored(L, S)) \in Nat /\ Cardinality(Scored(L, S)') \in Nat
             /\ Cardinality(Scored(L, S)') + One(pc[w] \in L /\ score[w] \in S)
                = Cardinality(Scored(L, S)) + One(l \in L /\ score[w] \in S)
    BY <1>1, Moved
<1>3. ASSUME NEW L, NEW x PROVE One(x \in L /\ score[w] \in S) = IF x \in L THEN i ELSE 0
    BY DEF One, Its
<1>4. i \in {0, 1}
    BY CountTypes
<1> HIDE DEF i
<1>5. ASSUME NEW L
      PROVE  /\ Cardinality(Scored(L, S)) \in Nat /\ Cardinality(Scored(L, S)') \in Nat
             /\ pc[w] \in L => Cardinality(Scored(L, S))
                               = Cardinality(Scored(L, S)') + (IF l \in L THEN 0 ELSE i)
             /\ pc[w] \notin L => Cardinality(Scored(L, S)')
                                  = Cardinality(Scored(L, S)) + (IF l \in L THEN i ELSE 0)
  <2> DEFINE a == Cardinality(Scored(L, S))
             b == Cardinality(Scored(L, S)')
  <2>1. /\ a \in Nat /\ b \in Nat
        /\ b + (IF pc[w] \in L THEN i ELSE 0) = a + (IF l \in L THEN i ELSE 0)
      BY <1>2, <1>3
  <2> HIDE DEF a, b
  <2>2. /\ pc[w] \in L => a = b + (IF l \in L THEN 0 ELSE i)
        /\ pc[w] \notin L => b = a + (IF l \in L THEN i ELSE 0)
      BY <1>4, <2>1
  <2> QED
      BY <2>1, <2>2 DEF a, b
<1>6. /\ Noted(S)' \in Nat
      /\ pc[w] \in {"expire"} => Noted(S) = Noted(S)' + (IF l \in {"expire"} THEN 0 ELSE i)
      /\ pc[w] \notin {"expire"} => Noted(S)' = Noted(S) + (IF l \in {"expire"} THEN i ELSE 0)
    BY <1>5 DEF Noted
<1>7. /\ Passed(S)' \in Nat
      /\ pc[w] \in {"add", "expire"} =>
              Passed(S) = Passed(S)' + (IF l \in {"add", "expire"} THEN 0 ELSE i)
      /\ pc[w] \notin {"add", "expire"} =>
              Passed(S)' = Passed(S) + (IF l \in {"add", "expire"} THEN i ELSE 0)
    BY <1>5 DEF Passed
<1> QED
    BY <1>6, <1>7 DEF i

LEMMA AddCounts ==
  ASSUME TypeOK, NEW w \in Workers, Add(w), NEW S \in SUBSET Time
  PROVE  /\ pc[w] = "add" /\ pc' = [pc EXCEPT ![w] = "expire"]
         /\ Kept /\ expireAt' = expireAt /\ admitted' = admitted
         /\ Accepted(S)' = Accepted(S) /\ Noted(S)' = Noted(S) + Its(w, S)
         /\ Passed(S)' = Passed(S)
         /\ \/ Stored(S)' = Stored(S) + Its(w, S)
            \/ Stored(S)' = Stored(S) /\ failed'
         /\ ~failed' => zset' = [zset EXCEPT ![score[w]] = @ + 1]
<1>1. /\ pc[w] = "add" /\ pc' = [pc EXCEPT ![w] = "expire"] /\ admitted' = admitted
      /\ Kept /\ expireAt' = expireAt /\ score' = score
      /\ \/ zset' = [zset EXCEPT ![score[w]] = @ + 1]
         \/ zset' = zset /\ failed'
    BY DEF Add, Goto, Kept
<1>2. Noted(S)' = Noted(S) + Its(w, S) /\ Passed(S) = Passed(S)' /\ Passed(S)' \in Nat
  <2>1. /\ pc[w] # "expire" => Noted(S)' = Noted(S) + Its(w, S)
        /\ pc[w] \in {"add", "expire"} => Passed(S) = Passed(S)' + 0
        /\ Passed(S)' \in Nat
      BY <1>1, MovedCounts
  <2> QED
      BY <1>1, <2>1
<1>3. CASE zset' = [zset EXCEPT ![score[w]] = @ + 1]
  <2>1. Members(zset', S) = Members(zset, S) + Its(w, S)
    <3>1. zset \in [Time -> Nat] /\ score[w] \in Time /\ IsFiniteSet(S)
        BY StateTypes, TimeFinite
    <3>2. /\ zset' \in [Time -> Nat] /\ zset'[score[w]] = zset[score[w]] + 1
          /\ \A t \in Time : t # score[w] => zset'[t] = zset[t]
      <4>1. zset[score[w]] + 1 \in Nat
          BY <3>1
      <4> QED
          BY <1>3, <3>1, <4>1
    <3>3. Members(zset', S) = Members(zset, S) + (IF score[w] \in S THEN 1 ELSE 0)
        BY <3>1, <3>2, MembersAdd
    <3> QED
        BY <3>3 DEF Its
  <2> QED
      BY <1>1, <1>2, <1>3, <2>1 DEF Stored, Accepted
<1>4. CASE zset' = zset /\ failed'
    BY <1>1, <1>2, <1>4 DEF Stored, Accepted
<1> QED
    BY <1>1, <1>3, <1>4

LEMMA ExpireCounts ==
  ASSUME TypeOK, NEW w \in Workers, Expire(w), NEW S \in SUBSET Time
  PROVE  /\ pc[w] = "expire" /\ pc' = [pc EXCEPT ![w] = "idle"] /\ Kept /\ zset' = zset
         /\ ~failed' => expireAt' = IF Card = 0 THEN NoExpiry ELSE now + KeyTTL
         /\ Stored(S)' = Stored(S) /\ Accepted(S)' = Accepted(S) + Its(w, S)
         /\ Noted(S) = Noted(S)' + Its(w, S) /\ Passed(S) = Passed(S)' + Its(w, S)
         /\ Noted(S)' \in Nat /\ Passed(S)' \in Nat
         /\ admitted'[score[w]] # admitted[score[w]]
<1>1. /\ pc[w] = "expire" /\ pc' = [pc EXCEPT ![w] = "idle"] /\ Kept /\ zset' = zset
      /\ admitted' = [admitted EXCEPT ![score[w]] = @ + 1] /\ score' = score
      /\ ~failed' => expireAt' = IF Card = 0 THEN NoExpiry ELSE now + KeyTTL
    BY DEF Expire, Admit, Goto, Kept
<1>2. admitted \in [Time -> Nat] /\ score[w] \in Time /\ IsFiniteSet(S)
    BY StateTypes, TimeFinite
<1>3. Members(admitted', S) = Members(admitted, S) + Its(w, S)
  <2>1. /\ admitted' \in [Time -> Nat] /\ admitted'[score[w]] = admitted[score[w]] + 1
        /\ \A t \in Time : t # score[w] => admitted'[t] = admitted[t]
    <3>1. admitted[score[w]] + 1 \in Nat
        BY <1>2
    <3> QED
        BY <1>1, <1>2, <3>1
  <2>2. Members(admitted', S) = Members(admitted, S) + (IF score[w] \in S THEN 1 ELSE 0)
      BY <1>2, <2>1, MembersAdd
  <2> QED
      BY <2>2 DEF Its
<1>4. /\ Noted(S) = Noted(S)' + Its(w, S) /\ Passed(S) = Passed(S)' + Its(w, S)
      /\ Noted(S)' \in Nat /\ Passed(S)' \in Nat
  <2>1. /\ Noted(S)' \in Nat /\ Passed(S)' \in Nat
        /\ pc[w] = "expire" =>
             Noted(S) = Noted(S)' + (IF "idle" = "expire" THEN 0 ELSE Its(w, S))
        /\ pc[w] # "expire" =>
             Noted(S)' = Noted(S) + (IF "idle" = "expire" THEN Its(w, S) ELSE 0)
        /\ pc[w] \in {"add", "expire"} =>
             Passed(S) = Passed(S)' + (IF "idle" \in {"add", "expire"} THEN 0 ELSE Its(w, S))
        /\ pc[w] \notin {"add", "expire"} =>
             Passed(S)' = Passed(S) + (IF "idle" \in {"add", "expire"} THEN Its(w, S) ELSE 0)
      BY <1>1, MovedCounts DEF Kept
  <2> QED
      BY <1>1, <2>1
<1>5. admitted'[score[w]] # admitted[score[w]]
  <2>1. admitted'[score[w]] = admitted[score[w]] + 1 /\ admitted[score[w]] \in Nat
      BY <1>1, <1>2
  <2> QED
      BY <2>1
<1> QED
    BY <1>1, <1>3, <1>4, <1>5 DEF Stored, Accepted

LEMMA FailOpenCounts ==
  ASSUME TypeOK, NEW w \in Workers, FailOpen(w), NEW S \in SUBSET Time
  PROVE  /\ Kept /\ zset' = zset /\ expireAt' = expireAt /\ failed'
         /\ Stored(S)' = Stored(S) /\ Accepted(S)' = Accepted(S) + Its(w, S)
         /\ Noted(S)' = Noted(S)
         /\ admitted'[score[w]] # admitted[score[w]]
<1>1. /\ pc[w] \in {"purge", "count"} /\ pc' = [pc EXCEPT ![w] = "idle"] /\ Kept
      /\ zset' = zset
      /\ admitted' = [admitted EXCEPT ![score[w]] = @ + 1] /\ score' = score
      /\ expireAt' = expireAt /\ failed'
    BY DEF FailOpen, Admit, Goto, Kept
<1>2. admitted \in [Time -> Nat] /\ score[w] \in Time /\ IsFiniteSet(S)
    BY StateTypes, TimeFinite
<1>3. Members(admitted', S) = Members(admitted, S) + Its(w, S)
  <2>1. /\ admitted' \in [Time -> Nat] /\ admitted'[score[w]] = admitted[score[w]] + 1
        /\ \A t \in Time : t # score[w] => admitted'[t] = admitted[t]
    <3>1. admitted[score[w]] + 1 \in Nat
        BY <1>2
    <3> QED
        BY <1>1, <1>2, <3>1
  <2>2. Members(admitted', S) = Members(admitted, S) + (IF score[w] \in S THEN 1 ELSE 0)
      BY <1>2, <2>1, MembersAdd
  <2> QED
      BY <2>2 DEF Its
<1>4. Noted(S)' = Noted(S)
  <2>1. /\ Noted(S)' \in Nat /\ Passed(S)' \in Nat
        /\ pc[w] = "expire" =>
             Noted(S) = Noted(S)' + (IF "idle" = "expire" THEN 0 ELSE Its(w, S))
        /\ pc[w] # "expire" =>
             Noted(S)' = Noted(S) + (IF "idle" = "expire" THEN Its(w, S) ELSE 0)
        /\ pc[w] \in {"add", "expire"} =>
             Passed(S) = Passed(S)' + (IF "idle" \in {"add", "expire"} THEN 0 ELSE Its(w, S))
        /\ pc[w] \notin {"add", "expire"} =>
             Passed(S)' = Passed(S) + (IF "idle" \in {"add", "expire"} THEN Its(w, S) ELSE 0)
      BY <1>1, MovedCounts DEF Kept
  <2> QED
      BY <1>1, <2>1, CountTypes
<1>5. admitted'[score[w]] # admitted[score[w]]
  <2>1. admitted'[score[w]] = admitted[score[w]] + 1 /\ admitted[score[w]] \in Nat
      BY <1>1, <1>2
  <2> QED
      BY <2>1
<1> QED
    BY <1>1, <1>3, <1>4, <1>5 DEF Stored, Accepted

LEMMA CheckCounts ==
  ASSUME TypeOK, NEW w \in Workers, CountBelowLimit(w) \/ Reject(w), NEW S \in SUBSET Time
  PROVE  /\ pc[w] = "count" /\ Kept /\ UNCHANGED <<zset, expireAt, admitted, failed>>
         /\ Stored(S)' = Stored(S) /\ Accepted(S)' = Accepted(S) /\ Noted(S)' = Noted(S)
         /\ CountBelowLimit(w) => /\ Passed(S)' = Passed(S) + Its(w, S)
                                  /\ Card < Limit /\ pc' = [pc EXCEPT ![w] = "add"]
         /\ Reject(w) => /\ Passed(S)' = Passed(S) /\ Card >= Limit
                         /\ pc' = [pc EXCEPT ![w] = "idle"]
<1> DEFINE n == Card
<1>1. /\ pc[w] = "count" /\ Kept /\ UNCHANGED <<zset, expireAt, admitted, failed>>
      /\ CountBelowLimit(w) => ~(n >= Limit) /\ pc' = [pc EXCEPT ![w] = "add"]
      /\ Reject(w) => n >= Limit /\ pc' = [pc EXCEPT ![w] = "idle"]
    BY DEF CountBelowLimit, Reject, OverLimit, Goto, Kept
<1>2. ~(n >= Limit) => n < Limit
  <2>1. n \in Nat
      BY StateTypes, TimeFinite, MembersType DEF Card
  <2> HIDE DEF n
  <2> QED
      BY <2>1, Numbers
<1>3. PICK l \in {"add", "idle"} : /\ pc' = [pc EXCEPT ![w] = l]
                                   /\ CountBelowLimit(w) => l = "add"
                                   /\ Reject(w) => l = "idle"
  <2>1. CASE CountBelowLimit(w)
    <3>1. ~Reject(w)
        BY <2>1 DEF CountBelowLimit, Reject
    <3> QED
        BY <1>1, <2>1, <3>1
  <2>2. CASE Reject(w)
    <3>1. ~CountBelowLimit(w)
        BY <2>2 DEF CountBelowLimit, Reject
    <3> QED
        BY <1>1, <2>2, <3>1
  <2> QED
      BY <2>1, <2>2
<1>4. /\ pc[w] # "expire" => Noted(S)' = Noted(S) + (IF l = "expire" THEN Its(w, S) ELSE 0)
      /\ pc[w] \notin {"add", "expire"} =>
              Passed(S)' = Passed(S) + (IF l \in {"add", "expire"} THEN Its(w, S) ELSE 0)
    BY <1>1, <1>3, MovedCounts DEF Kept
<1>5. Noted(S) \in Nat /\ Passed(S) \in Nat
    BY CountTypes
<1>6. /\ Noted(S)' = Noted(S)
      /\ CountBelowLimit(w) => Passed(S)' = Passed(S) + Its(w, S)
      /\ Reject(w) => Passed(S)' = Passed(S)
    BY <1>1, <1>3, <1>4, <1>5
<1>7. Stored(S)' = Stored(S) /\ Accepted(S)' = Accepted(S)
    BY <1>1 DEF Stored, Accepted
<1> HIDE DEF n
<1> QED
    BY <1>1, <1>2, <1>6, <1>7 DEF n

\* Arriving, purging and time do not change who has passed.
LEMMA OtherCounts ==
  ASSUME TypeOK, Tick \/ (\E w \in Workers : Arrive(w) \/ Purge(w)) \/ UNCHANGED vars,
         NEW S \in SUBSET Time
  PROVE  /\ Accepted(S)' = Accepted(S) /\ Noted(S)' = Noted(S) /\ Passed(S)' = Passed(S)
         /\ failed' = failed /\ admitted' = admitted
<1>0. pc \in [Workers -> Running \cup {"idle"}]
    BY StateTypes
<1>1. /\ admitted' = admitted /\ failed' = failed
      /\ \A v \in Workers : \/ pc'[v] = pc[v] /\ score'[v] = score[v]
                            \/ /\ pc'[v] \in {"purge", "count"} /\ pc[v] \in {"idle", "purge"}
  <2>1. CASE Tick \/ UNCHANGED vars
      BY <2>1 DEF Tick, vars
  <2>2. ASSUME NEW w \in Workers, Arrive(w)
        PROVE  /\ admitted' = admitted /\ failed' = failed /\ pc[w] = "idle"
               /\ score' = [score EXCEPT ![w] = now] /\ pc' = [pc EXCEPT ![w] = "purge"]
      BY <2>2 DEF Arrive, Goto
  <2>3. ASSUME NEW w \in Workers, Purge(w)
        PROVE  /\ admitted' = admitted /\ failed' = failed /\ pc[w] = "purge"
               /\ score' = score /\ pc' = [pc EXCEPT ![w] = "count"]
      BY <2>3 DEF Purge, Goto
  <2>4. score \in [Workers -> Time]
      BY StateTypes
  <2> QED
      BY <1>0, <2>1, <2>2, <2>3, <2>4
<1>2. \A L \in {{"expire"}, {"add", "expire"}} : Scored(L, S)' = Scored(L, S)
    BY <1>1 DEF Scored
<1> QED
    BY <1>1, <1>2 DEF Accepted, Noted, Passed

\* What Redis holds after a purge, and after time has passed.
LEMMA PurgeStored ==
  ASSUME TypeOK, NEW w \in Workers, Purge(w), NEW S \in SUBSET Time
  PROVE  /\ Stored(S)' \in Nat /\ Stored(S)' <= Stored(S)
         /\ S \subseteq After(score[w] - Window) => Stored(S)' = Stored(S)
<1>1. zset \in [Time -> Nat] /\ IsFiniteSet(S) /\ \A t \in Time : t \in Nat
    BY StateTypes, TimeFinite
<1>2. /\ zset' \in [Time -> Nat] /\ \A t \in Time : zset'[t] <= zset[t]
      /\ \A t \in Time : ~(t <= score[w] - Window) => zset'[t] = zset[t]
    BY <1>1 DEF Purge, Outside
<1>3. Members(zset', S) <= Members(zset, S)
  <2>1. \A t \in S : zset'[t] <= zset[t]
      BY <1>2
  <2> QED
      BY <1>1, <1>2, <2>1, MembersMonotone
<1>4. Members(zset', S) \in Nat /\ Members(zset, S) \in Nat
    BY <1>1, <1>2, MembersType
<1>5. ASSUME S \subseteq After(score[w] - Window) PROVE Members(zset', S) = Members(zset, S)
  <2>1. \A t \in S : zset[t] <= zset'[t]
    <3>1. score[w] - Window \in Int
        BY StateTypes, Numbers
    <3>2. \A t \in S : t \in Time /\ t > score[w] - Window
        BY <1>5 DEF After
    <3>3. \A t \in S : zset'[t] = zset[t]
        BY <1>1, <1>2, <3>1, <3>2
    <3> QED
        BY <1>1, <3>2, <3>3
  <2>2. Members(zset, S) <= Members(zset', S)
      BY <1>1, <1>2, <2>1, MembersMonotone
  <2> QED
      BY <1>3, <1>4, <2>2
<1> QED
    BY <1>3, <1>4, <1>5 DEF Stored

LEMMA TickStored ==
  ASSUME TypeOK, Tick
  PROVE  \/ /\ zset' = zset /\ expireAt' = expireAt /\ expireAt # now'
            /\ \A S : Stored(S)' = Stored(S)
         \/ /\ expireAt = now' /\ expireAt' = NoExpiry
            /\ \A t \in Time : zset'[t] = 0
            /\ \A S \in SUBSET Time : Stored(S)' = 0
<1>1. CASE expireAt = now'
  <2>1. zset' = [t \in Time |-> 0] /\ expireAt' = NoExpiry
      BY <1>1 DEF Tick
  <2>2. zset' \in [Time -> Nat] /\ \A t \in Time : zset'[t] = 0
      BY <2>1
  <2>3. ASSUME NEW S \in SUBSET Time PROVE Members(zset', S) = 0
    <3>1. IsFiniteSet(S) /\ {} \in SUBSET S /\ \A t \in S \ {} : zset'[t] = 0
        BY <2>2, TimeFinite
    <3>2. Members(zset', S) = Members(zset', {})
        BY <2>2, <3>1, MembersZero
    <3> QED
        BY <3>2, MembersNone
  <2> QED
      BY <1>1, <2>1, <2>2, <2>3 DEF Stored
<1>2. CASE expireAt # now'
  <2>1. zset' = zset /\ expireAt' = expireAt
      BY <1>2 DEF Tick
  <2> QED
      BY <1>2, <2>1 DEF Stored
<1> QED
    BY <1>1, <1>2

(***************************************************************************)
(* Each part of the invariant is kept                                      *)
(***************************************************************************)

LEMMA TrueStep ==
  ASSUME TypeOK, MembersTrue, [Next]_vars
  PROVE  MembersTrue'
<1> SUFFICES ASSUME NEW S \in SUBSET Time PROVE Stored(S)' <= Accepted(S)' + Noted(S)'
    BY DEF MembersTrue
<1>0. /\ Stored(S) \in Nat /\ Accepted(S) \in Nat /\ Noted(S) \in Nat
      /\ \A w \in Workers : Its(w, S) \in {0, 1}
      /\ Stored(S) <= Accepted(S) + Noted(S)
    BY CountTypes DEF MembersTrue
<1>1. CASE Tick
  <2>1. Accepted(S)' = Accepted(S) /\ Noted(S)' = Noted(S)
      BY <1>1, OtherCounts
  <2>2. Stored(S)' = Stored(S) \/ Stored(S)' = 0
      BY <1>1, TickStored
  <2> QED
      BY <1>0, <2>1, <2>2
<1>2. ASSUME NEW w \in Workers, Arrive(w) PROVE Stored(S)' <= Accepted(S)' + Noted(S)'
  <2>1. Accepted(S)' = Accepted(S) /\ Noted(S)' = Noted(S)
      BY <1>2, OtherCounts
  <2>2. Stored(S)' = Stored(S)
      BY <1>2 DEF Arrive, Stored
  <2> QED
      BY <1>0, <2>1, <2>2
<1>3. ASSUME NEW w \in Workers, Purge(w) PROVE Stored(S)' <= Accepted(S)' + Noted(S)'
  <2>1. Accepted(S)' = Accepted(S) /\ Noted(S)' = Noted(S)
      BY <1>3, OtherCounts
  <2>2. Stored(S)' \in Nat /\ Stored(S)' <= Stored(S)
      BY <1>3, PurgeStored
  <2> QED
      BY <1>0, <2>1, <2>2
<1>4. ASSUME NEW w \in Workers, CountBelowLimit(w) \/ Reject(w)
      PROVE  Stored(S)' <= Accepted(S)' + Noted(S)'
  <2>1. Stored(S)' = Stored(S) /\ Accepted(S)' = Accepted(S) /\ Noted(S)' = Noted(S)
      BY <1>4, CheckCounts
  <2> QED
      BY <1>0, <2>1
<1>5. ASSUME NEW w \in Workers, FailOpen(w) PROVE Stored(S)' <= Accepted(S)' + Noted(S)'
  <2>1. /\ Stored(S)' = Stored(S) /\ Accepted(S)' = Accepted(S) + Its(w, S)
        /\ Noted(S)' = Noted(S) /\ Its(w, S) \in {0, 1}
      BY <1>0, <1>5, FailOpenCounts
  <2> QED
      BY <1>0, <2>1
<1>6. ASSUME NEW w \in Workers, Add(w) PROVE Stored(S)' <= Accepted(S)' + Noted(S)'
  <2>1. /\ Accepted(S)' = Accepted(S) /\ Noted(S)' = Noted(S) + Its(w, S)
        /\ Stored(S)' = Stored(S) + Its(w, S) \/ Stored(S)' = Stored(S)
        /\ Its(w, S) \in {0, 1}
      BY <1>0, <1>6, AddCounts
  <2> QED
      BY <1>0, <2>1
<1>7. ASSUME NEW w \in Workers, Expire(w) PROVE Stored(S)' <= Accepted(S)' + Noted(S)'
  <2>1. /\ Stored(S)' = Stored(S) /\ Accepted(S)' = Accepted(S) + Its(w, S)
        /\ Noted(S) = Noted(S)' + Its(w, S) /\ Noted(S)' \in Nat
        /\ Its(w, S) \in {0, 1}
      BY <1>0, <1>7, ExpireCounts
  <2> QED
      BY <1>0, <2>1
<1>8. CASE UNCHANGED vars
  <2>1. Accepted(S)' = Accepted(S) /\ Noted(S)' = Noted(S)
      BY <1>8, OtherCounts
  <2>2. Stored(S)' = Stored(S)
      BY <1>8 DEF vars, Stored
  <2> QED
      BY <1>0, <2>1, <2>2
<1> QED
    BY <1>1, <1>2, <1>3, <1>4, <1>5, <1>6, <1>7, <1>8 DEF Next

LEMMA KeyStep ==
  ASSUME TypeOK, InTime, MembersPast, KeyKept, ~failed', [Next]_vars
  PROVE  KeyKept'
<1>0. /\ now \in Nat /\ expireAt \in Int /\ zset \in [Time -> Nat]
      /\ score \in [Workers -> Time]
      /\ pc \in [Workers -> Running \cup {"idle"}]
      /\ \A w \in Workers : score[w] \in Nat
      /\ \A t \in Time : t \in Nat
    BY StateTypes, TimeFinite
\* Steps that leave the key and the times alone.
<1>f. ASSUME now' = now, expireAt' = expireAt, score' = score,
             \A v \in Workers : pc[v] = "expire" => pc'[v] = "expire",
             \A t \in Time : zset'[t] > 0 => zset[t] > 0,
             \A v \in Workers : pc'[v] \in {"count", "add", "expire"} =>
               \/ pc[v] \in {"count", "add", "expire"}
               \/ Covered /\ expireAt # NoExpiry => score[v] + MaxDelay < expireAt
      PROVE  KeyKept'
  <2> SUFFICES ASSUME expireAt # NoExpiry PROVE now < expireAt /\ (Saved' \/ Covered')
      BY <1>f DEF KeyKept
  <2>1. now < expireAt /\ (Saved \/ Covered)
      BY DEF KeyKept
  <2>2. CASE Saved
      BY <1>f, <2>1, <2>2 DEF Saved
  <2>3. CASE Covered
    <3>1. \A t \in Time : zset'[t] > 0 => t + KeyTTL <= expireAt
        BY <1>f, <2>3 DEF Covered
    <3>2. \A v \in Workers : pc'[v] \in {"count", "add", "expire"} =>
            score[v] + MaxDelay < expireAt
        BY <1>f, <2>3 DEF Covered
    <3> QED
        BY <1>f, <2>1, <3>1, <3>2 DEF Covered
  <2> QED
      BY <2>1, <2>2, <2>3
<1>1. CASE Tick
  <2>1. now' = now + 1 /\ pc' = pc /\ score' = score
      BY <1>1 DEF Tick
  <2>2. CASE expireAt' = NoExpiry
      BY <2>2 DEF KeyKept
  <2>3. CASE zset' = zset /\ expireAt' = expireAt /\ expireAt # now' /\ expireAt # NoExpiry
    <3>1. now < expireAt /\ (Saved \/ Covered)
        BY <2>3 DEF KeyKept
    <3>2. now' < expireAt'
        BY <1>0, <2>1, <2>3, <3>1
    <3>3. Saved' = Saved /\ Covered' = Covered
        BY <2>1, <2>3 DEF Saved, Covered
    <3> QED
        BY <3>1, <3>2, <3>3 DEF KeyKept
  <2> QED
      BY <1>1, <2>2, <2>3, TickStored
<1>2. ASSUME NEW w \in Workers, Arrive(w) PROVE KeyKept'
  <2>1. /\ now' = now /\ expireAt' = expireAt /\ zset' = zset
        /\ pc[w] = "idle" /\ pc'[w] = "purge"
        /\ \A v \in Workers : v # w => pc'[v] = pc[v] /\ score'[v] = score[v]
      BY <1>0, <1>2 DEF Arrive, Goto
  <2>2. Saved => Saved'
      BY <2>1 DEF Saved
  <2>3. Covered => Covered'
      BY <2>1 DEF Covered
  <2> QED
      BY <2>1, <2>2, <2>3 DEF KeyKept
<1>3. ASSUME NEW w \in Workers, Purge(w) PROVE KeyKept'
  <2>1. /\ now' = now /\ score' = score /\ pc' = [pc EXCEPT ![w] = "count"] /\ pc[w] = "purge"
        /\ \A t \in Time : zset'[t] = IF Outside(w, t) THEN 0 ELSE zset[t]
        /\ expireAt' = IF \E t \in Time : zset'[t] > 0 THEN expireAt ELSE NoExpiry
      BY <1>3 DEF Purge, Goto
  <2>2. CASE expireAt' = NoExpiry
      BY <2>2 DEF KeyKept
  <2>3. CASE expireAt' # NoExpiry
    <3>1. PICK t \in Time : zset'[t] > 0 /\ expireAt' = expireAt
        BY <2>1, <2>3
    <3>2. zset[t] > 0 /\ t > score[w] - Window
        BY <1>0, <2>1, <3>1, Numbers DEF Outside
    <3>3. Covered => score[w] + MaxDelay < expireAt
      <4> SUFFICES ASSUME Covered PROVE score[w] + MaxDelay < expireAt
          OBVIOUS
      <4>1. t + KeyTTL <= expireAt
          BY <3>2 DEF Covered
      <4>2. score[w] \in Nat /\ t \in Nat
          BY <1>0
      <4> QED
          BY <1>0, <3>2, <4>1, <4>2, Numbers
    <3>4. \A u \in Time : zset'[u] > 0 => zset[u] > 0
        BY <2>1
    <3>5. \A v \in Workers : v # w => pc'[v] = pc[v]
        BY <1>0, <2>1
    <3> QED
        BY <1>f, <2>1, <3>1, <3>3, <3>4, <3>5
  <2> QED
      BY <2>2, <2>3
<1>4. ASSUME NEW w \in Workers, CountBelowLimit(w) \/ Reject(w) PROVE KeyKept'
  <2>1. /\ now' = now /\ score' = score /\ zset' = zset /\ expireAt' = expireAt
        /\ pc[w] = "count"
        /\ \A v \in Workers : v # w => pc'[v] = pc[v]
      BY <1>0, <1>4 DEF CountBelowLimit, Reject, Goto
  <2> QED
      BY <1>f, <2>1
<1>5. ASSUME NEW w \in Workers, FailOpen(w) PROVE KeyKept'
    BY <1>5 DEF FailOpen
<1>6. ASSUME NEW w \in Workers, Add(w) PROVE KeyKept'
  <2>1. /\ now' = now /\ score' = score /\ expireAt' = expireAt
        /\ pc[w] = "add" /\ pc'[w] = "expire"
        /\ \A v \in Workers : v # w => pc'[v] = pc[v]
      BY <1>0, <1>6 DEF Add, Goto
  <2> SUFFICES ASSUME expireAt # NoExpiry PROVE now < expireAt /\ Saved'
      BY <2>1 DEF KeyKept
  <2>2. now < expireAt /\ (Saved \/ Covered)
      BY DEF KeyKept
  <2>3. CASE Saved
    <3>1. PICK v \in Workers : pc[v] = "expire" /\ score[v] + MaxDelay < expireAt
        BY <2>3 DEF Saved
    <3>2. pc'[v] = "expire" /\ score'[v] + MaxDelay < expireAt'
        BY <2>1, <3>1
    <3> QED
        BY <2>2, <3>2 DEF Saved
  <2>4. CASE Covered
    <3>1. score'[w] + MaxDelay < expireAt'
        BY <2>1, <2>4 DEF Covered
    <3> QED
        BY <2>1, <2>2, <3>1 DEF Saved
  <2> QED
      BY <2>2, <2>3, <2>4
<1>7. ASSUME NEW w \in Workers, Expire(w) PROVE KeyKept'
  <2>1. /\ now' = now /\ score' = score /\ zset' = zset
        /\ expireAt' = NoExpiry \/ expireAt' = now + KeyTTL
      BY <1>7 DEF Expire
  <2>2. CASE expireAt' = NoExpiry
      BY <2>2 DEF KeyKept
  <2>3. CASE expireAt' = now + KeyTTL
    <3>1. now' < expireAt'
        BY <1>0, <2>1, <2>3, Numbers
    <3>2. \A t \in Time : zset'[t] > 0 => t + KeyTTL <= expireAt'
      <4>1. \A t \in Time : zset[t] > 0 => t <= now
          BY DEF MembersPast
      <4> QED
          BY <1>0, <2>1, <2>3, <4>1, Numbers
    <3>3. \A v \in Workers : score'[v] + MaxDelay < expireAt'
      <4>1. \A v \in Workers : score[v] <= now
          BY DEF InTime
      <4> QED
          BY <1>0, <2>1, <2>3, <4>1, Numbers
    <3> QED
        BY <3>1, <3>2, <3>3 DEF KeyKept, Covered
  <2> QED
      BY <2>1, <2>2, <2>3
<1>8. CASE UNCHANGED vars
    BY <1>8 DEF vars, KeyKept, Saved, Covered
<1> QED
    BY <1>1, <1>2, <1>3, <1>4, <1>5, <1>6, <1>7, <1>8 DEF Next

\* When Redis drops the key, its members have left every window that counts.
LEMMA Dropped ==
  ASSUME TypeOK, InTime, KeyKept, Tick, expireAt = now',
         NEW S \in SUBSET Time, \A t \in S : t + KeyTTL > now'
  PROVE  Stored(S) = 0
<1>0. /\ now \in Nat /\ expireAt \in Int /\ zset \in [Time -> Nat] /\ IsFiniteSet(S)
      /\ \A w \in Workers : score[w] \in Nat
      /\ \A t \in Time : t \in Nat
    BY StateTypes, TimeFinite
<1>1. now' = now + 1 /\ \A w \in Workers : pc[w] # "idle" => now < score[w] + MaxDelay
    BY DEF Tick
<1>2. expireAt # NoExpiry
    BY <1>0, <1>1 DEF NoExpiry
<1>3. Saved \/ Covered
    BY <1>2 DEF KeyKept
<1>4. ~Saved
  <2> SUFFICES ASSUME NEW w \in Workers, pc[w] = "expire", score[w] + MaxDelay < expireAt
               PROVE  FALSE
      BY DEF Saved
  <2>1. now < score[w] + MaxDelay /\ score[w] + MaxDelay < now + 1
      BY <1>1
  <2> QED
      BY <1>0, <2>1, Numbers
<1>5. \A t \in S : zset[t] = 0
  <2>1. \A t \in Time : zset[t] > 0 => t + KeyTTL <= now'
      BY <1>3, <1>4 DEF Covered
  <2>2. \A t \in S : t \in Nat /\ zset[t] \in Nat
      BY <1>0
  <2>3. \A t \in S : ~(t + KeyTTL <= now')
      BY <1>0, <1>1, <2>2, Numbers
  <2> QED
      BY <2>1, <2>2, <2>3
<1>6. {} \in SUBSET S /\ \A t \in S \ {} : zset[t] = 0
    BY <1>5
<1>7. Members(zset, S) = Members(zset, {})
    BY <1>0, <1>6, MembersZero
<1> QED
    BY <1>7, MembersNone DEF Stored

LEMMA KeptStep ==
  ASSUME TypeOK, InTime, KeyKept, MembersKept, ~failed', [Next]_vars
  PROVE  MembersKept'
<1>0. /\ now \in Nat /\ \A w \in Workers : score[w] \in Nat
      /\ \A t \in Time : t \in Nat
    BY StateTypes, TimeFinite
<1>1. now' = now \/ (Tick /\ now' = now + 1)
  <2>1. Tick => now' = now + 1
      BY DEF Tick
  <2>2. \A w \in Workers : Arrive(w) => now' = now
      BY DEF Arrive
  <2>3. \A w \in Workers : Command(w) => now' = now
      BY CommandMoves DEF Kept
  <2>4. UNCHANGED vars => now' = now
      BY DEF vars
  <2>5. Tick \/ (\E w \in Workers : Arrive(w) \/ Command(w)) \/ UNCHANGED vars
      BY DEF Next, Command
  <2> QED
      BY <2>1, <2>2, <2>3, <2>4, <2>5
<1> SUFFICES ASSUME NEW S \in SUBSET After(now' - Window)
             PROVE  Stored(S)' >= Accepted(S)' + Noted(S)'
    BY DEF MembersKept
<1>2. /\ S \in SUBSET Time /\ S \in SUBSET After(now - Window)
      /\ \A t \in S : t > now' - Window
    BY <1>0, <1>1, Numbers DEF After
<1>3. /\ Stored(S) \in Nat /\ Accepted(S) \in Nat /\ Noted(S) \in Nat
      /\ \A w \in Workers : Its(w, S) \in {0, 1}
      /\ Stored(S) >= Accepted(S) + Noted(S)
    BY <1>2, CountTypes DEF MembersKept
<1>4. CASE Tick
  <2>1. Accepted(S)' = Accepted(S) /\ Noted(S)' = Noted(S)
      BY <1>2, <1>4, OtherCounts
  <2>2. CASE Stored(S)' = Stored(S)
      BY <1>3, <2>1, <2>2
  <2>3. CASE expireAt = now' /\ Stored(S)' = 0
    <3>1. \A t \in S : t + KeyTTL > now'
        BY <1>0, <1>1, <1>2, Numbers
    <3>2. Stored(S) = 0
        BY <1>2, <1>4, <2>3, <3>1, Dropped
    <3> QED
        BY <1>3, <2>1, <2>3, <3>2
  <2> QED
      BY <1>2, <1>4, <2>2, <2>3, TickStored
<1>5. ASSUME NEW w \in Workers, Arrive(w) PROVE Stored(S)' >= Accepted(S)' + Noted(S)'
  <2>1. Accepted(S)' = Accepted(S) /\ Noted(S)' = Noted(S)
      BY <1>2, <1>5, OtherCounts
  <2>2. Stored(S)' = Stored(S)
      BY <1>5 DEF Arrive, Stored
  <2> QED
      BY <1>3, <2>1, <2>2
<1>6. ASSUME NEW w \in Workers, Purge(w) PROVE Stored(S)' >= Accepted(S)' + Noted(S)'
  <2>1. Accepted(S)' = Accepted(S) /\ Noted(S)' = Noted(S)
      BY <1>2, <1>6, OtherCounts
  <2>2. S \subseteq After(score[w] - Window)
    <3>1. score[w] <= now /\ now' = now
        BY <1>6 DEF InTime, Purge
    <3>2. \A t \in S : t > score[w] - Window
        BY <1>0, <1>2, <3>1, Numbers
    <3> QED
        BY <1>2, <3>2 DEF After
  <2>3. Stored(S)' = Stored(S)
      BY <1>2, <1>6, <2>2, PurgeStored
  <2> QED
      BY <1>3, <2>1, <2>3
<1>7. ASSUME NEW w \in Workers, CountBelowLimit(w) \/ Reject(w)
      PROVE  Stored(S)' >= Accepted(S)' + Noted(S)'
  <2>1. Stored(S)' = Stored(S) /\ Accepted(S)' = Accepted(S) /\ Noted(S)' = Noted(S)
      BY <1>2, <1>7, CheckCounts
  <2> QED
      BY <1>3, <2>1
<1>8. ASSUME NEW w \in Workers, FailOpen(w) PROVE FALSE
    BY <1>8 DEF FailOpen
<1>9. ASSUME NEW w \in Workers, Add(w) PROVE Stored(S)' >= Accepted(S)' + Noted(S)'
  <2>1. /\ Accepted(S)' = Accepted(S) /\ Noted(S)' = Noted(S) + Its(w, S)
        /\ Stored(S)' = Stored(S) + Its(w, S)
        /\ Its(w, S) \in {0, 1}
      BY <1>2, <1>3, <1>9, AddCounts
  <2> QED
      BY <1>3, <2>1
<1>10. ASSUME NEW w \in Workers, Expire(w) PROVE Stored(S)' >= Accepted(S)' + Noted(S)'
  <2>1. /\ Stored(S)' = Stored(S) /\ Accepted(S)' = Accepted(S) + Its(w, S)
        /\ Noted(S) = Noted(S)' + Its(w, S) /\ Noted(S)' \in Nat
        /\ Its(w, S) \in {0, 1}
      BY <1>2, <1>3, <1>10, ExpireCounts
  <2> QED
      BY <1>3, <2>1
<1>11. CASE UNCHANGED vars
  <2>1. Accepted(S)' = Accepted(S) /\ Noted(S)' = Noted(S)
      BY <1>2, <1>11, OtherCounts
  <2>2. Stored(S)' = Stored(S)
      BY <1>11 DEF vars, Stored
  <2> QED
      BY <1>3, <2>1, <2>2
<1> QED
    BY <1>4, <1>5, <1>6, <1>7, <1>8, <1>9, <1>10, <1>11 DEF Next

\* While one request runs at a time, the others are idle: of the commands p.
LEMMA AtMostOne ==
  ASSUME NEW p \in [Workers -> Running \cup {"idle"}],
         Cardinality({u \in Workers : p[u] \in Running}) <= 1,
         NEW w \in Workers, p[w] # "idle"
  PROVE  \A v \in Workers : v # w => p[v] = "idle"
<1> SUFFICES ASSUME NEW v \in Workers, v # w, p[v] # "idle" PROVE FALSE
    OBVIOUS
<1> DEFINE A == {u \in Workers : p[u] \in Running}
<1>1. A \in SUBSET Workers /\ v \in A /\ w \in A
    OBVIOUS
<1>2. Cardinality(A) <= 1
    OBVIOUS
<1> HIDE DEF A
<1>3. Cardinality(A) \in Nat /\ Cardinality(A) >= 2
    BY <1>1, SomeWorkers, TwoRun
<1> QED
    BY <1>2, <1>3

LEMMA Alone ==
  ASSUME TypeOK, PeakSeen, peak <= 1, NEW w \in Workers, pc[w] # "idle"
  PROVE  \A v \in Workers : v # w => pc[v] = "idle"
<1>1. pc \in [Workers -> Running \cup {"idle"}] /\ peak \in Nat
    BY StateTypes
<1>2. At(Running) \in SUBSET Workers /\ At(Running) = {u \in Workers : pc[u] \in Running}
    BY DEF At
<1>3. Cardinality(At(Running)) \in Nat /\ Cardinality(At(Running)) <= peak
    BY <1>2, SomeWorkers DEF PeakSeen
<1>4. Cardinality(At(Running)) <= 1
    BY <1>1, <1>3
<1>5. Cardinality({u \in Workers : pc[u] \in Running}) <= 1
    BY <1>2, <1>4
<1> QED
    BY <1>1, <1>5, AtMostOne

LEMMA LoneStep ==
  ASSUME TypeOK, TypeOK', InTime, PeakSeen, PeakSeen', peak <= peak', KeyKept, MembersKept,
         LoneKept, ~failed', [Next]_vars
  PROVE  LoneKept'
<1>0. /\ now \in Nat /\ \A w \in Workers : score[w] \in Nat
      /\ \A t \in Time : t \in Nat
      /\ pc \in [Workers -> Running \cup {"idle"}] /\ score \in [Workers -> Time]
      /\ peak \in Nat /\ peak' \in Nat
  <2>1. Cardinality(Workers) \in Nat
      BY SomeWorkers
  <2>2. peak' \in Nat
      BY <2>1 DEF TypeOK
  <2> QED
      BY <2>2, StateTypes, TimeFinite
<1> SUFFICES ASSUME NEW w \in Workers, peak' <= 1, pc'[w] \in {"purge", "count"},
                    NEW S \in SUBSET After(score'[w] - Window)
             PROVE  Stored(S)' >= Accepted(S)'
    BY DEF LoneKept
<1>1. S \in SUBSET Time /\ peak <= 1
    BY <1>0 DEF After
<1>2. Stored(S) \in Nat /\ Accepted(S) \in Nat /\ Noted(S) \in Nat
    BY <1>1, CountTypes
\* What the invariant says of w, when its command does not change.
<1>3. ASSUME score'[w] = score[w], pc[w] \in {"purge", "count"}
      PROVE  /\ Stored(S) >= Accepted(S)
             /\ \A v \in Workers : v # w => pc[v] = "idle"
  <2>1. Stored(S) >= Accepted(S)
      BY <1>1, <1>3 DEF LoneKept
  <2>2. \A v \in Workers : v # w => pc[v] = "idle"
      BY <1>1, <1>3, Alone
  <2> QED
      BY <2>1, <2>2
<1>4. CASE Tick
  <2>1. /\ now' = now + 1 /\ pc' = pc /\ score' = score
        /\ \A v \in Workers : pc[v] # "idle" => now < score[v] + MaxDelay
      BY <1>4 DEF Tick
  <2>2. Accepted(S)' = Accepted(S)
      BY <1>1, <1>4, OtherCounts
  <2>3. Stored(S) >= Accepted(S)
      BY <1>3, <2>1
  <2>4. CASE Stored(S)' = Stored(S)
      BY <2>2, <2>3, <2>4
  <2>5. CASE expireAt = now' /\ Stored(S)' = 0
    <3>1. score[w] \in Nat /\ now < score[w] + MaxDelay
        BY <1>0, <2>1
    <3>2. \A t \in S : t \in Nat /\ t > score[w] - Window
        BY <1>0, <2>1 DEF After
    <3>3. \A t \in S : t + KeyTTL > now'
        BY <1>0, <2>1, <3>1, <3>2, Numbers
    <3>4. Stored(S) = 0
        BY <1>1, <1>4, <2>5, <3>3, Dropped
    <3> QED
        BY <1>2, <2>2, <2>3, <2>5, <3>4
  <2> QED
      BY <1>1, <1>4, <2>4, <2>5, TickStored
<1>5. ASSUME NEW v \in Workers, Arrive(v) PROVE Stored(S)' >= Accepted(S)'
  <2>1. /\ zset' = zset /\ score' = [score EXCEPT ![v] = now]
        /\ pc' = [pc EXCEPT ![v] = "purge"]
      BY <1>5 DEF Arrive, Goto
  <2>2. Accepted(S)' = Accepted(S) /\ Stored(S)' = Stored(S)
      BY <1>1, <1>5, <2>1, OtherCounts DEF Stored
  <2>3. v = w
    <3>1. pc'[v] # "idle" /\ pc'[w] # "idle"
        BY <1>0, <2>1
    <3>2. /\ pc' \in [Workers -> Running \cup {"idle"}]
          /\ At(Running)' \in SUBSET Workers
          /\ At(Running)' = {u \in Workers : pc'[u] \in Running}
        BY <1>0, <2>1 DEF At, Running
    <3>3. Cardinality(At(Running)') \in Nat /\ Cardinality(At(Running)') <= peak'
        BY <3>2, SomeWorkers DEF PeakSeen
    <3>4. Cardinality(At(Running)') <= 1
        BY <1>0, <3>3
    <3>5. Cardinality({u \in Workers : pc'[u] \in Running}) <= 1
        BY <3>2, <3>4
    <3>6. \A u \in Workers : u # w => pc'[u] = "idle"
        BY <3>1, <3>2, <3>5, AtMostOne
    <3> QED
        BY <3>1, <3>6
  <2>4. score'[w] = now
      BY <1>0, <2>1, <2>3
  <2>5. S \in SUBSET After(now - Window)
      BY <2>4
  <2>6. Stored(S) >= Accepted(S) + Noted(S)
      BY <2>5 DEF MembersKept
  <2> QED
      BY <1>2, <2>2, <2>6
<1>6. ASSUME NEW v \in Workers, Command(v) PROVE Stored(S)' >= Accepted(S)'
  <2>1. PICK l : pc[v] \in Running /\ pc' = [pc EXCEPT ![v] = l] /\ Kept
      BY <1>6, CommandMoves
  <2>2. v = w
    <3> SUFFICES ASSUME v # w PROVE FALSE
        OBVIOUS
    <3>1. pc[w] \in {"purge", "count"} /\ score'[w] = score[w] /\ pc[v] # "idle"
        BY <1>0, <2>1 DEF Kept, Running
    <3> QED
        BY <1>3, <3>1
  <2>3. Purge(w)
    <3>1. ASSUME NEW m, Goto(w, m) PROVE m \in {"purge", "count"}
        BY <1>0, <3>1 DEF Goto
    <3>2. /\ CountBelowLimit(w) => Goto(w, "add")
          /\ Reject(w) \/ FailOpen(w) \/ Expire(w) => Goto(w, "idle")
          /\ Add(w) => Goto(w, "expire")
        BY DEF CountBelowLimit, Reject, FailOpen, Add, Expire
    <3>3. ~Goto(w, "add") /\ ~Goto(w, "idle") /\ ~Goto(w, "expire")
        BY <3>1
    <3> QED
        BY <1>6, <2>2, <3>2, <3>3 DEF Command
  <2>4. pc[w] = "purge" /\ score'[w] = score[w]
      BY <2>3 DEF Purge
  <2>5. Stored(S) >= Accepted(S)
      BY <1>3, <2>4
  <2>6. Stored(S)' = Stored(S) /\ Accepted(S)' = Accepted(S)
      BY <1>1, <2>3, <2>4, PurgeStored, OtherCounts
  <2> QED
      BY <2>5, <2>6
<1>7. CASE UNCHANGED vars
  <2>1. score' = score /\ pc' = pc
      BY <1>7 DEF vars
  <2>2. Accepted(S)' = Accepted(S) /\ Stored(S)' = Stored(S)
      BY <1>7 DEF vars, Accepted, Stored
  <2> QED
      BY <1>3, <2>1, <2>2
<1> QED
    BY <1>4, <1>5, <1>6, <1>7 DEF Next, Command

\* Who is past the check: those that are in Redis, and those that wait to be.
LEMMA PassedSplit ==
  ASSUME TypeOK, NEW S \in SUBSET Time
  PROVE  /\ Cardinality(Scored({"add"}, S)) \in Nat
         /\ Passed(S) <= Noted(S) + Cardinality(Scored({"add"}, S))
<1> DEFINE A == Scored({"add"}, S)
           B == Scored({"expire"}, S)
           C == Scored({"add", "expire"}, S)
<1>1. /\ A \in SUBSET Workers /\ B \in SUBSET Workers /\ A \cap B \in SUBSET Workers
      /\ C = A \cup B
    BY DEF Scored
<1> HIDE DEF A, B, C
<1>2. /\ IsFiniteSet(A) /\ IsFiniteSet(B) /\ Cardinality(A) \in Nat /\ Cardinality(B) \in Nat
      /\ Cardinality(A \cap B) \in Nat
    BY <1>1, SomeWorkers
<1>3. Cardinality(A \cup B) = Cardinality(A) + Cardinality(B) - Cardinality(A \cap B)
    BY <1>2, FS_Union
<1>4. Cardinality(C) <= Cardinality(B) + Cardinality(A)
    BY <1>1, <1>2, <1>3
<1> QED
    BY <1>2, <1>4 DEF A, B, C, Passed, Noted

LEMMA WindowStep ==
  ASSUME TypeOK, TypeOK', InTime, PeakSeen, peak <= peak', MembersKept, LoneKept,
         WindowsHold, ~failed', [Next]_vars
  PROVE  WindowsHold'
<1>0. /\ now \in Nat /\ peak \in Nat /\ peak' \in Nat /\ zset \in [Time -> Nat]
      /\ score \in [Workers -> Time] /\ \A w \in Workers : score[w] \in Nat
      /\ \A t \in Time : t \in Nat
  <2>1. Cardinality(Workers) \in Nat
      BY SomeWorkers
  <2>2. peak' \in Nat
      BY <2>1 DEF TypeOK
  <2> QED
      BY <2>2, StateTypes, TimeFinite
<1> SUFFICES ASSUME NEW start \in -1..MaxTime
             PROVE  IF peak' <= 1 THEN Granted(Win(start, Window))' <= Limit
                    ELSE Granted(Win(start, Window - MaxDelay))' <= Limit + peak' - 1
    BY DEF WindowsHold
<1> DEFINE W == Win(start, Window)
           V == Win(start, Window - MaxDelay)
<1>s. start \in Int
    BY Numbers
<1>1. W \in SUBSET Time /\ V \in SUBSET W
    BY <1>0, <1>s, Numbers DEF Win
<1>2. IF peak <= 1 THEN Granted(W) <= Limit ELSE Granted(V) <= Limit + peak - 1
    BY DEF WindowsHold
<1>3. /\ W' = W /\ V' = V
    BY DEF Win
<1>4. Granted(V) <= Granted(W) /\ Granted(V) \in Nat /\ Granted(W) \in Nat
  <2>1. Accepted(V) <= Accepted(W)
      BY <1>1, StateTypes, TimeFinite, MembersSubset DEF Accepted
  <2>2. Passed(V) <= Passed(W)
    <3>1. /\ Scored({"add", "expire"}, V) \in SUBSET Scored({"add", "expire"}, W)
          /\ Scored({"add", "expire"}, W) \in SUBSET Workers
        BY <1>1 DEF Scored
    <3>2. IsFiniteSet(Scored({"add", "expire"}, W))
        BY <3>1, SomeWorkers
    <3> QED
        BY <3>1, <3>2, FS_Subset DEF Passed
  <2>3. /\ Accepted(V) \in Nat /\ Passed(V) \in Nat /\ Accepted(W) \in Nat /\ Passed(W) \in Nat
      BY <1>1, CountTypes
  <2> QED
      BY <2>1, <2>2, <2>3 DEF Granted
\* A step that grants nothing.
<1>5. ASSUME \A S \in SUBSET Time : Granted(S)' = Granted(S)
      PROVE  IF peak' <= 1 THEN Granted(W)' <= Limit ELSE Granted(V)' <= Limit + peak' - 1
  <2>1. Granted(W)' = Granted(W) /\ Granted(V)' = Granted(V)
      BY <1>1, <1>5
  <2> HIDE DEF W, V
  <2>2. CASE peak' <= 1
      BY <1>0, <1>2, <2>1, <2>2
  <2>3. CASE ~(peak' <= 1)
    <3>1. CASE peak <= 1
        BY <1>0, <1>2, <1>4, <2>1, <2>3, <3>1, Numbers
    <3>2. CASE ~(peak <= 1)
        BY <1>0, <1>2, <1>4, <2>1, <2>3, <3>2, Numbers
    <3> QED
        BY <3>1, <3>2
  <2> QED
      BY <2>2, <2>3
<1>6. CASE Tick \/ (\E w \in Workers : Arrive(w) \/ Purge(w)) \/ UNCHANGED vars
  <2>1. \A S \in SUBSET Time : Granted(S)' = Granted(S)
      BY <1>6, OtherCounts DEF Granted
  <2> QED
      BY <1>5, <2>1
<1>7. ASSUME NEW w \in Workers, Reject(w)
      PROVE  \A S \in SUBSET Time : Granted(S)' = Granted(S)
    BY <1>7, CheckCounts DEF Granted
<1>8. ASSUME NEW w \in Workers, FailOpen(w) PROVE FALSE
    BY <1>8 DEF FailOpen
<1>9. ASSUME NEW w \in Workers, Add(w)
      PROVE  \A S \in SUBSET Time : Granted(S)' = Granted(S)
    BY <1>9, AddCounts DEF Granted
<1>10. ASSUME NEW w \in Workers, Expire(w)
       PROVE  \A S \in SUBSET Time : Granted(S)' = Granted(S)
  <2> TAKE S \in SUBSET Time
  <2>1. /\ Accepted(S)' = Accepted(S) + Its(w, S) /\ Passed(S) = Passed(S)' + Its(w, S)
        /\ Passed(S)' \in Nat /\ Accepted(S) \in Nat /\ Its(w, S) \in {0, 1}
      BY <1>10, ExpireCounts, CountTypes
  <2> QED
      BY <2>1 DEF Granted
\* The check: what is granted in the window was in Redis, or passes with w.
<1>11. ASSUME NEW w \in Workers, CountBelowLimit(w)
       PROVE  IF peak' <= 1 THEN Granted(W)' <= Limit ELSE Granted(V)' <= Limit + peak' - 1
  <2>1. /\ pc[w] = "count" /\ peak' = peak /\ Card < Limit
        /\ score[w] \in Nat /\ score[w] <= now /\ now <= score[w] + MaxDelay
    <3>1. Time \in SUBSET Time
        OBVIOUS
    <3>2. pc[w] = "count" /\ Kept /\ Card < Limit
        BY <1>11, <3>1, CheckCounts
    <3> QED
        BY <1>0, <3>2 DEF Kept, InTime
  <2>2. ASSUME NEW S \in SUBSET Time
        PROVE  /\ Granted(S)' = Granted(S) + Its(w, S) /\ Its(w, S) \in {0, 1}
               /\ Granted(S) \in Nat /\ Stored(S) \in Nat /\ Accepted(S) \in Nat
               /\ Noted(S) \in Nat /\ Passed(S) \in Nat
               /\ Stored(S) < Limit
    <3>1. /\ Accepted(S)' = Accepted(S) /\ Passed(S)' = Passed(S) + Its(w, S)
        BY <1>11, CheckCounts
    <3>2. /\ Stored(S) \in Nat /\ Accepted(S) \in Nat /\ Noted(S) \in Nat /\ Passed(S) \in Nat
          /\ Its(w, S) \in {0, 1}
        BY CountTypes
    <3>3. Stored(S) <= Card /\ Card \in Nat
        BY <1>0, TimeFinite, MembersSubset, MembersType DEF Stored, Card
    <3>4. Stored(S) < Limit
        BY <2>1, <3>2, <3>3, Numbers
    <3> QED
        BY <3>1, <3>2, <3>4 DEF Granted
  <2>3. CASE peak <= 1
    <3> SUFFICES Granted(W)' <= Limit
        BY <2>1, <2>3
    <3>1. /\ Granted(W)' = Granted(W) + Its(w, W) /\ Its(w, W) \in {0, 1}
          /\ Granted(W) \in Nat /\ Stored(W) \in Nat /\ Accepted(W) \in Nat
          /\ Stored(W) < Limit
        BY <1>1, <2>2
    <3>2. CASE score[w] \notin W
      <4>1. Its(w, W) = 0
          BY <3>2 DEF Its
      <4>2. Granted(W) <= Limit
          BY <1>2, <2>3
      <4> QED
          BY <3>1, <4>1, <4>2
    <3>3. CASE score[w] \in W
      <4>1. \A t \in W : t > score[w] - Window
          BY <1>0, <1>s, <2>1, <3>3, Numbers DEF Win
      <4>2. W \in SUBSET After(score[w] - Window)
          BY <1>1, <4>1 DEF After
      <4>3. Stored(W) >= Accepted(W)
          BY <2>1, <2>3, <4>2 DEF LoneKept
      <4>4. Passed(W) = 0
        <5>1. \A v \in Workers : pc[v] \notin {"add", "expire"}
            BY <2>1, <2>3, Alone
        <5>2. Scored({"add", "expire"}, W) = {}
            BY <5>1 DEF Scored
        <5> QED
            BY <5>2, FS_EmptySet DEF Passed
      <4>5. Granted(W) <= Stored(W)
          BY <3>1, <4>3, <4>4 DEF Granted
      <4> HIDE DEF W
      <4> QED
          BY <3>1, <4>5, Numbers
    <3> QED
        BY <3>2, <3>3
  <2>4. CASE ~(peak <= 1)
    <3> SUFFICES Granted(V)' <= Limit + peak - 1
        BY <2>1, <2>4
    <3>1. /\ Granted(V)' = Granted(V) + Its(w, V) /\ Its(w, V) \in {0, 1}
          /\ Granted(V) \in Nat /\ Stored(V) \in Nat /\ Accepted(V) \in Nat
          /\ Noted(V) \in Nat /\ Passed(V) \in Nat
          /\ Stored(V) < Limit /\ V \in SUBSET Time
        BY <1>1, <2>2
    <3>2. CASE score[w] \notin V
      <4>1. Its(w, V) = 0
          BY <3>2 DEF Its
      <4>2. Granted(V) <= Limit + peak - 1
          BY <1>2, <2>4
      <4> QED
          BY <3>1, <4>1, <4>2
    <3>3. CASE score[w] \in V
      <4> DEFINE n == Cardinality(Scored({"add"}, V))
      <4>1. \A t \in V : t > now - Window
          BY <1>0, <1>s, <2>1, <3>3, Numbers DEF Win
      <4>2. V \in SUBSET After(now - Window)
          BY <3>1, <4>1 DEF After
      <4>3. Stored(V) >= Accepted(V) + Noted(V)
          BY <4>2 DEF MembersKept
      <4>4. n \in Nat /\ Passed(V) <= Noted(V) + n
          BY <3>1, PassedSplit
      <4>5. n + 1 <= peak
        <5> DEFINE B == Scored({"add"}, V)
        <5>1. w \in At(Running) /\ w \notin B /\ B \in SUBSET Workers
            BY <2>1 DEF At, Running, Scored
        <5>2. B \cup {w} \in SUBSET At(Running) /\ At(Running) \in SUBSET Workers
            BY <2>1 DEF At, Running, Scored
        <5> HIDE DEF B
        <5>3. IsFiniteSet(B) /\ IsFiniteSet(At(Running))
            BY <5>1, <5>2, SomeWorkers
        <5>4. Cardinality(B \cup {w}) = Cardinality(B) + 1
            BY <5>1, <5>3, FS_AddElement
        <5>5. Cardinality(B \cup {w}) <= Cardinality(At(Running))
            BY <5>2, <5>3, FS_Subset
        <5>6. Cardinality(At(Running)) <= peak /\ Cardinality(At(Running)) \in Nat
            BY <5>2, SomeWorkers DEF PeakSeen
        <5>7. Cardinality(B) \in Nat
            BY <5>1, SomeWorkers
        <5>8. Cardinality(B) + 1 <= peak
            BY <1>0, <5>4, <5>5, <5>6, <5>7
        <5> QED
            BY <5>8 DEF B
      <4> HIDE DEF n
      <4>6. Granted(V) = Accepted(V) + Passed(V)
          BY DEF Granted
      <4> HIDE DEF V
      <4> QED
          BY <1>0, <3>1, <4>3, <4>4, <4>5, <4>6, Numbers
    <3> QED
        BY <3>2, <3>3
  <2> QED
      BY <2>3, <2>4
<1>12. ASSUME NEW w \in Workers, Command(w)
       PROVE  IF peak' <= 1 THEN Granted(W)' <= Limit ELSE Granted(V)' <= Limit + peak' - 1
  <2>1. CASE Purge(w)
      BY <1>6, <2>1
  <2>2. CASE CountBelowLimit(w)
      BY <1>11, <2>2
  <2>3. CASE Reject(w)
      BY <1>5, <1>7, <2>3
  <2>4. CASE FailOpen(w)
      BY <1>8, <2>4
  <2>5. CASE Add(w)
      BY <1>5, <1>9, <2>5
  <2>6. CASE Expire(w)
      BY <1>5, <1>10, <2>6
  <2> QED
      BY <1>12, <2>1, <2>2, <2>3, <2>4, <2>5, <2>6 DEF Command
<1>13. IF peak' <= 1 THEN Granted(W)' <= Limit ELSE Granted(V)' <= Limit + peak' - 1
  <2>1. Tick \/ (\E w \in Workers : Arrive(w) \/ Command(w)) \/ UNCHANGED vars
      BY DEF Next, Command
  <2> QED
      BY <1>6, <1>12, <2>1
<1> QED
    BY <1>13

LEMMA IInvStep == IInv /\ [Next]_vars => IInv'
<1> SUFFICES ASSUME IInv, [Next]_vars PROVE IInv'
    OBVIOUS
<1>1. /\ TypeOK /\ InTime /\ PeakSeen /\ MembersPast /\ MembersTrue
      /\ ~failed => Counting
    BY DEF IInv
<1>2. TypeOK'
    BY <1>1, TypeStep
<1>3. InTime'
    BY <1>1, TimeStep
<1>4. PeakSeen' /\ peak <= peak'
    BY <1>1, PeakStep
<1>5. MembersPast'
    BY <1>1, PastStep
<1>6. MembersTrue'
    BY <1>1, TrueStep
<1>7. ASSUME ~failed' PROVE Counting'
  <2>1. ~failed
    <3>1. \A w \in Workers : Command(w) => ~failed
        BY <1>7, CommandMoves
    <3>2. Tick \/ (\E w \in Workers : Arrive(w)) \/ UNCHANGED vars => ~failed
        BY <1>7 DEF Tick, Arrive, vars
    <3> QED
        BY <3>1, <3>2 DEF Next, Command
  <2>2. KeyKept /\ MembersKept /\ LoneKept /\ WindowsHold
      BY <1>1, <2>1 DEF Counting
  <2>3. KeyKept'
      BY <1>1, <1>7, <2>2, KeyStep
  <2>4. MembersKept'
      BY <1>1, <1>7, <2>2, KeptStep
  <2>5. LoneKept'
      BY <1>1, <1>2, <1>4, <1>7, <2>2, LoneStep
  <2>6. WindowsHold'
      BY <1>1, <1>2, <1>4, <1>7, <2>2, WindowStep
  <2> QED
      BY <2>3, <2>4, <2>5, <2>6 DEF Counting
<1> QED
    BY <1>2, <1>3, <1>4, <1>5, <1>6, <1>7 DEF IInv

LEMMA Invariant == Spec => []IInv
<1>1. Init => IInv
    BY IInvInit
<1>2. IInv /\ [Next]_vars => IInv'
    BY IInvStep
<1> QED
    BY <1>1, <1>2, PTL DEF Spec

-----------------------------------------------------------------------------
(***************************************************************************)
(* Theorems                                                                *)
(***************************************************************************)

\* The clock, what Redis holds, the requests and the histories keep their types.
THEOREM TypeCorrect == Spec => []TypeOK
<1>1. IInv => TypeOK
    BY DEF IInv
<1> QED
    BY <1>1, Invariant, PTL

\* The documented limit (RateLimitMiddleware): while requests of a key come one
\* after the other, no window of the configured length admits more than the limit.
\* Once n of them have run at the same time, whatever the order of their commands
\* and whenever Redis drops the key, a window that is MaxDelay shorter admits at
\* most n - 1 more.
THEOREM LimitKept == Spec => []WindowLimit
<1>1. IInv => WindowLimit
  <2> SUFFICES ASSUME IInv, ~failed, NEW start \in -1..MaxTime
               PROVE  IF peak <= 1 THEN AdmittedIn(start, Window) <= Limit
                      ELSE AdmittedIn(start, Window - MaxDelay) <= Limit + peak - 1
      BY DEF WindowLimit
  <2>1. TypeOK /\ WindowsHold /\ peak \in Nat
      BY StateTypes DEF IInv, Counting
  <2> DEFINE A(length) == AdmittedIn(start, length)
             G(length) == Granted(Win(start, length))
  <2>2. ASSUME NEW length
        PROVE  A(length) \in Nat /\ G(length) \in Nat /\ A(length) <= G(length)
    <3>1. Win(start, length) \in SUBSET Time
        BY DEF Win
    <3>2. Accepted(Win(start, length)) \in Nat /\ Passed(Win(start, length)) \in Nat
        BY <2>1, <3>1, CountTypes
    <3>3. A(length) = Accepted(Win(start, length))
        BY DEF AdmittedIn, Accepted, Win
    <3> HIDE DEF A
    <3> QED
        BY <3>2, <3>3 DEF Granted
  <2>3. IF peak <= 1 THEN G(Window) <= Limit ELSE G(Window - MaxDelay) <= Limit + peak - 1
      BY <2>1 DEF WindowsHold
  <2> HIDE DEF A, G
  <2>4. IF peak <= 1 THEN A(Window) <= Limit ELSE A(Window - MaxDelay) <= Limit + peak - 1
    <3>1. CASE peak <= 1
        BY <2>2, <2>3, <3>1, Numbers
    <3>2. CASE ~(peak <= 1)
        BY <2>1, <2>2, <2>3, <3>2, Numbers
    <3> QED
        BY <3>1, <3>2
  <2> QED
      BY <2>4 DEF A
<1> QED
    BY <1>1, Invariant, PTL

\* A request is rejected for the limit only (the count of RateLimitMiddleware): as
\* many requests as the limit were admitted, or have been noted in Redis and are
\* about to be, in the window that ends with it.
THEOREM RejectedForLimit == Spec => RejectionJustified
<1> DEFINE Justified == \A w \in Workers :
             pc[w] = "count" /\ pc'[w] = "idle" /\ admitted' = admitted =>
               Members(admitted, {t \in Time : t > score[w] - Window})
                 + Cardinality({v \in Workers : pc[v] = "expire"}) >= Limit
<1>1. IInv /\ [Next]_vars => [Justified]_vars
  <2> SUFFICES ASSUME IInv, Next, NEW w \in Workers, pc[w] = "count", pc'[w] = "idle",
                      admitted' = admitted
               PROVE  Members(admitted, {t \in Time : t > score[w] - Window})
                        + Cardinality({v \in Workers : pc[v] = "expire"}) >= Limit
      OBVIOUS
  <2>1. TypeOK /\ MembersPast /\ MembersTrue
      BY DEF IInv
  <2>2. /\ pc \in [Workers -> Running \cup {"idle"}] /\ zset \in [Time -> Nat]
        /\ score \in [Workers -> Time]
      BY <2>1, StateTypes
  <2>3. Reject(w)
    <3>1. ~Tick
        BY DEF Tick
    <3>2. PICK v \in Workers : Arrive(v) \/ Command(v)
        BY <3>1 DEF Next, Command
    <3>3. ~Arrive(v)
        BY <2>2 DEF Arrive, Goto
    <3>4. v = w
      <4>1. PICK l : pc' = [pc EXCEPT ![v] = l]
          BY <3>2, <3>3, CommandMoves
      <4> QED
          BY <2>2, <4>1
    <3>5. ~FailOpen(w) /\ ~Expire(w)
        BY <2>1, FailOpenCounts, ExpireCounts
    <3>6. ~Purge(w) /\ ~Add(w)
        BY DEF Purge, Add
    <3>7. ~CountBelowLimit(w)
        BY <2>2 DEF CountBelowLimit, Goto
    <3> QED
        BY <3>2, <3>3, <3>4, <3>5, <3>6, <3>7 DEF Command
  <2> DEFINE S == {t \in Time : t > score[w] - Window}
  <2>4. S \in SUBSET Time
      OBVIOUS
  <2>5. Card >= Limit
      BY <2>1, <2>3, <2>4, CheckCounts
  <2>6. Card = Stored(S)
    <3>1. \A t \in Time \ S : zset[t] = 0
      <4>1. \A t \in Time : zset[t] > 0 => t \in S
          BY <2>1 DEF MembersPast
      <4> HIDE DEF S
      <4>2. \A t \in Time : zset[t] \in Nat
          BY <2>2
      <4> QED
          BY <4>1, <4>2
    <3>2. IsFiniteSet(Time) /\ Time \in SUBSET Time
        BY TimeFinite
    <3> HIDE DEF S
    <3> QED
        BY <2>2, <2>4, <3>1, <3>2, MembersZero DEF Card, Stored
  <2> DEFINE n == Cardinality({v \in Workers : pc[v] = "expire"})
  <2>7. Noted(S) <= n /\ n \in Nat
    <3>1. /\ {v \in Workers : pc[v] = "expire"} \in SUBSET Workers
          /\ Scored({"expire"}, S) \in SUBSET {v \in Workers : pc[v] = "expire"}
        BY DEF Scored
    <3> HIDE DEF S
    <3> QED
        BY <3>1, SomeWorkers, FS_Subset DEF Noted
  <2> HIDE DEF n, S
  <2>8. Stored(S) <= Accepted(S) + Noted(S)
      BY <2>1, <2>4 DEF MembersTrue
  <2>9. Stored(S) \in Nat /\ Accepted(S) \in Nat /\ Noted(S) \in Nat
      BY <2>1, <2>4, CountTypes
  <2>10. Accepted(S) + n >= Limit
      BY <2>5, <2>6, <2>7, <2>8, <2>9, Numbers
  <2> QED
      BY <2>10 DEF Accepted, S, n
<1> QED
    BY <1>1, Invariant, PTL DEF Spec, RejectionJustified
=============================================================================
