-------------------------- MODULE RedisStoreProofs --------------------------
(***************************************************************************)
(* Recovery from Redis, for every number of overlapping pipelines, keys,   *)
(* TTL and delay.  The argument is one of times.  A value is dropped TTL   *)
(* after it was set, a Save is owed to a recovery until TTL after it set   *)
(* its vector, so values and index outlast what is owed; later pipelines   *)
(* replace values by ones that live longer.  A value in Redis is younger   *)
(* than TTL and a pipeline, its reply is read within another pipeline, and *)
(* the recovered entry is served for a TTL more.                           *)
(***************************************************************************)
EXTENDS RedisStore, FiniteSetTheorems, TLAPS

Promise == [Key -> 0..MaxTime + TTL]

\* What is known of a call of Save.
Record == [pc : {"idle", "set_v", "set_r", "zadd", "expire"},
           key : Key \cup {"none"}, born : Time, setAt : Time]

\* What is known of a recovery.
Recovery == [pc : {"down", "get", "up"}, keys : Seq(Key), replies : Seq(Value),
             start : Time, cut : BOOLEAN, promise : Promise]

USE DEF Record, Recovery

\* Their types, which TypeOK leaves open.
Records ==
  /\ sv \in [Savers -> Record]
  /\ ld \in Recovery
  /\ IsFiniteSet(idx)

Active(s) == sv[s].pc # "idle"

\* A pipeline ends in time.
SaversInTime ==
  \A s \in Savers : Active(s) =>
    /\ sv[s].key \in Key
    /\ sv[s].born <= sv[s].setAt /\ sv[s].setAt <= now /\ now <= sv[s].born + MaxDelay

\* A value made for k whose expiry is that of a pipeline in time.
Timely(x, k) == x.of = k /\ x.until <= x.born + MaxDelay + TTL

ValuesLive ==
  \A f \in Field, k \in Key :
    kv[<<f, k>>] = Missing \/ (Timely(kv[<<f, k>>], k) /\ now < kv[<<f, k>>].until)

IndexLives == idxUntil = NoExpiry \/ now < idxUntil

\* Until t there is a value: of x, when the clock shows n.
Lasts(x, t, n) == t <= n \/ (x # Missing /\ t <= x.until)

\* What a pipeline has set stays until TTL after its vector.
HasSet(pc, f) == pc \in {"zadd", "expire"} \/ (pc = "set_r" /\ f = "v")

SetLasts ==
  \A s \in Savers, f \in Field :
    HasSet(sv[s].pc, f) => Lasts(kv[<<f, sv[s].key>>], sv[s].setAt + TTL, now)

\* What is owed is there: member, index and both values.
PromiseKept ==
  \A k \in Key : /\ promise[k] <= now + TTL
                 /\ promise[k] <= now \/ (k \in idx /\ promise[k] <= idxUntil)
                 /\ \A f \in Field : Lasts(kv[<<f, k>>], promise[k], now)

\* The key the i-th reply is for.
KeyOf(i) == ld.keys[((i - 1) \div 2) + 1]

\* The recovery is in time; it has asked for all that was owed when it began, and
\* has a reply for it unless it was cut.
LoaderInTime ==
  ld.pc = "get" =>
    /\ ld.start <= now /\ now <= ld.start + MaxDelay
    /\ \A k \in Key :
         /\ ld.promise[k] <= promise[k]
         /\ ld.promise[k] <= now \/ \E i \in DOMAIN ld.keys : ld.keys[i] = k
    /\ \A i \in DOMAIN ld.replies :
         /\ \/ ld.replies[i] = Missing
            \/ Timely(ld.replies[i], KeyOf(i)) /\ ld.start < ld.replies[i].until
         /\ ld.cut \/ ld.promise[KeyOf(i)] <= now \/ ld.replies[i] # Missing

\* A recovered entry is served for a TTL, and was recovered in time.
RecoveredInTime ==
  /\ ld.pc # "up" => mem = {}
  /\ \A e \in mem : /\ e.storedAt <= now /\ Served(e, now)
                    /\ e.storedAt < e.response.born + TTL + 2 * MaxDelay

IInv == /\ TypeOK /\ Records
        /\ SaversInTime /\ ValuesLive /\ IndexLives /\ SetLasts /\ PromiseKept
        /\ LoaderInTime /\ RecoveredInTime

-----------------------------------------------------------------------------
(***************************************************************************)
(* Facts about the operators                                               *)
(***************************************************************************)

\* Two replies for each key, by position.
LEMMA TwoReplies ==
  ASSUME NEW j \in Nat \ {0}
  PROVE  (2 * j - 2) \div 2 = j - 1 /\ (2 * j - 1) \div 2 = j - 1
  OBVIOUS

LEMMA ReplyHasKey ==
  ASSUME NEW j \in Nat, NEW n \in Nat, j < 2 * n
  PROVE  (j \div 2) + 1 \in 1..n
  OBVIOUS

LEMMA MaxOfTwo ==
  ASSUME NEW a \in Int, NEW b \in Int
  PROVE  Max({a, b}) = IF a >= b THEN a ELSE b
<1>1. CASE a >= b
    BY <1>1 DEF Max
<1>2. CASE a < b
    BY <1>2 DEF Max
<1> QED
    BY <1>1, <1>2

\* ZRANGE returns every member.
LEMMA EveryMember ==
  ASSUME NEW S, IsFiniteSet(S), NEW f \in SetToSeqs(S)
  PROVE  f \in Seq(S) /\ \A x \in S : \E i \in DOMAIN f : f[i] = x
<1> DEFINE n == Cardinality(S)
<1>1. n \in Nat
    BY FS_CardinalityType
<1>2. f \in [1..n -> S] /\ \A i, j \in 1..n : i # j => f[i] # f[j]
    BY DEF SetToSeqs
<1>3. f \in Injection(1..n, S)
    BY <1>2 DEF Injection, IsInjective
<1>4. Cardinality(1..n) = n
    BY <1>1, FS_Interval
<1>5. f \in Surjection(1..n, S)
    BY <1>3, <1>4, FS_Injection
<1> QED
    BY <1>1, <1>2, <1>5 DEF Surjection

-----------------------------------------------------------------------------
(***************************************************************************)
(* The invariant                                                           *)
(***************************************************************************)

LEMMA IInvInit == Init => IInv
<1> SUFFICES ASSUME Init PROVE IInv
    OBVIOUS
<1> USE StoreAssumption DEF Init
<1>1. IsFiniteSet(idx)
    BY FS_EmptySet
<1>2. Missing \in Value /\ 0 \in Time /\ NoExpiry \in Until
    BY DEF Value, Time, Until
<1>3. promise \in Promise /\ promise \in [Key -> 0..MaxTime + TTL]
    BY DEF Promise
<1>4. <<>> \in Seq(Key) /\ <<>> \in Seq(Value) /\ [k \in Key |-> 0] \in Promise
    BY DEF Promise
<1>5. kv \in [Field \X Key -> Value]
    BY <1>2
<1>6. TypeOK
    BY <1>2, <1>3, <1>4, <1>5 DEF TypeOK, Down, NotLoading, Idle
<1>7. Records
    BY <1>1, <1>2, <1>4 DEF Records, Down, NotLoading, Idle
<1>8. \A f \in Field, k \in Key : kv[<<f, k>>] = Missing
    OBVIOUS
<1>9. \A s \in Savers : sv[s].pc = "idle"
    BY DEF Idle
<1>10. ValuesLive /\ IndexLives /\ SaversInTime /\ SetLasts
    BY <1>8, <1>9 DEF ValuesLive, IndexLives, SaversInTime, SetLasts, Active, HasSet
<1>11. PromiseKept
    BY DEF PromiseKept, Lasts
<1>12. LoaderInTime /\ RecoveredInTime
    BY DEF LoaderInTime, RecoveredInTime, Down, NotLoading
<1> QED
    BY <1>6, <1>7, <1>10, <1>11, <1>12 DEF IInv

\* The types of what the invariant compares.
LEMMA Times ==
  ASSUME IInv
  PROVE  /\ now \in Nat /\ TTL \in Nat /\ MaxDelay \in Nat
         /\ \A k \in Key : promise[k] \in Nat /\ ld.promise[k] \in Nat
         /\ \A s \in Savers : sv[s].setAt \in Nat /\ sv[s].born \in Nat
         /\ \A x \in Value : x.until \in Int /\ x.born \in Nat
         /\ \A f \in Field, k \in Key : kv[<<f, k>>] \in Value
         /\ ld.start \in Nat /\ idxUntil \in Int
  BY StoreAssumption DEF IInv, TypeOK, Records, Promise, Time, Value, Until, Missing, NoExpiry

\* Commands of Save do not touch a recovery, and what is owed only grows.
LEMMA SaversAndLoader ==
  ASSUME IInv, UNCHANGED <<now, ld, mem>>, promise' \in Promise,
         \A k \in Key : promise[k] <= promise'[k]
  PROVE  LoaderInTime' /\ RecoveredInTime'
<1>1. RecoveredInTime'
    BY DEF IInv, RecoveredInTime, Served
<1>2. \A k \in Key : promise[k] \in Int /\ promise'[k] \in Int /\ ld.promise[k] \in Int
    BY StoreAssumption DEF IInv, TypeOK, Records, Promise
<1>3. LoaderInTime'
    BY <1>2 DEF IInv, LoaderInTime, Timely, KeyOf
<1> QED
    BY <1>1, <1>3

\* A step of a recovery leaves Redis and the pipelines alone.
LEMMA LoaderAndRedis ==
  ASSUME IInv, UNCHANGED <<now, redis, sv, saves, promise>>
  PROVE  /\ SaversInTime' /\ ValuesLive' /\ IndexLives' /\ SetLasts' /\ PromiseKept'
         /\ sv' \in [Savers -> Record]
         /\ IsFiniteSet(idx')
<1> USE DEF IInv, redis
<1>1. SaversInTime' /\ SetLasts'
    BY DEF SaversInTime, SetLasts, Active
<1>2. ValuesLive' /\ IndexLives' /\ PromiseKept'
    BY DEF ValuesLive, IndexLives, PromiseKept
<1> QED
    BY <1>1, <1>2 DEF Records

\* A value that is set outlasts all that came before.
LEMMA SetKeeps ==
  ASSUME IInv, NEW s \in Savers, NEW f \in Field, NEW next \in {"set_r", "zadd"},
         sv[s].pc = IF f = "v" THEN "set_v" ELSE "set_r",
         next = IF f = "v" THEN "set_r" ELSE "zadd",
         Set(s, f, next)
  PROVE  IInv'
<1> USE StoreAssumption DEF IInv
<1>1. /\ now \in Time /\ now \in Nat /\ sv[s].key \in Key
      /\ sv[s].born \in Time /\ sv[s].born <= now /\ now <= sv[s].born + MaxDelay
    BY DEF TypeOK, Records, SaversInTime, Active, Time
<1> DEFINE x == [of |-> sv[s].key, born |-> sv[s].born, until |-> now + TTL]
<1>2. x \in Value /\ x # Missing /\ Timely(x, sv[s].key) /\ now < x.until
    BY <1>1 DEF Value, Until, Time, Timely, Missing, NoExpiry
<1>3. /\ kv' = [kv EXCEPT ![<<f, sv[s].key>>] = x]
      /\ sv' = [sv EXCEPT ![s].pc = next, ![s].setAt = IF f = "v" THEN now ELSE @]
      /\ UNCHANGED <<now, idx, idxUntil, mem, ld, saves, promise>>
    BY DEF Set, SetUntil
<1>4. kv' \in [Field \X Key -> Value]
    BY <1>1, <1>2, <1>3 DEF TypeOK
<1>5. \A g \in Field, k \in Key :
        kv'[<<g, k>>] = IF g = f /\ k = sv[s].key THEN x ELSE kv[<<g, k>>]
    BY <1>1, <1>3 DEF TypeOK
<1>6. /\ Records' /\ TypeOK'
      /\ \A q \in Savers : q # s => sv'[q] = sv[q]
      /\ sv'[s].key = sv[s].key /\ sv'[s].born = sv[s].born /\ sv'[s].pc = next
      /\ sv'[s].setAt = IF f = "v" THEN now ELSE sv[s].setAt
  <2>1. sv \in [Savers -> Record]
      BY DEF Records
  <2>2. PICK t \in Time : /\ sv' = [sv EXCEPT ![s].pc = next, ![s].setAt = t]
                         /\ t = IF f = "v" THEN now ELSE sv[s].setAt
    <3>1. sv[s].setAt \in Time
        BY <2>1
    <3>2. CASE f = "v"
        BY <1>1, <1>3, <3>2
    <3>3. CASE f # "v"
        BY <1>3, <2>1, <3>1, <3>3
    <3> QED
        BY <3>2, <3>3
  <2>3. /\ sv' \in [Savers -> Record]
        /\ \A q \in Savers : q # s => sv'[q] = sv[q]
        /\ sv'[s].key = sv[s].key /\ sv'[s].born = sv[s].born /\ sv'[s].pc = next
        /\ sv'[s].setAt = t
      BY <2>1, <2>2
  <2>4. Records'
      BY <1>3, <2>3 DEF Records
  <2>5. TypeOK'
      BY <1>3, <1>4, <2>3 DEF TypeOK
  <2> QED
      BY <2>2, <2>3, <2>4, <2>5
<1>7. \A g \in Field, k \in Key, t \in Int :
        t <= now + TTL /\ Lasts(kv[<<g, k>>], t, now) => Lasts(kv'[<<g, k>>], t, now)
    BY <1>1, <1>2, <1>5 DEF Lasts
<1>8. \A t \in Int : t <= now + TTL => Lasts(kv'[<<f, sv[s].key>>], t, now)
    BY <1>1, <1>2, <1>5 DEF Lasts
<1>9. SaversInTime' /\ ValuesLive' /\ IndexLives'
  <2>1. ASSUME NEW q \in Savers, Active(q)'
        PROVE  /\ sv'[q].key \in Key
               /\ sv'[q].born <= sv'[q].setAt /\ sv'[q].setAt <= now
               /\ now <= sv'[q].born + MaxDelay
    <3>1. CASE q # s
        BY <1>6, <2>1, <3>1 DEF SaversInTime, Active
    <3>2. CASE q = s
        BY <1>1, <1>6, <3>2 DEF SaversInTime, Active, Time
    <3> QED
        BY <3>1, <3>2
  <2>2. ASSUME NEW g \in Field, NEW k \in Key
        PROVE  \/ kv'[<<g, k>>] = Missing
               \/ Timely(kv'[<<g, k>>], k) /\ now < kv'[<<g, k>>].until
      BY <1>2, <1>5 DEF ValuesLive
  <2>3. SaversInTime'
      BY <1>3, <2>1 DEF SaversInTime
  <2>4. ValuesLive' /\ IndexLives'
      BY <1>3, <2>2 DEF ValuesLive, IndexLives, Timely
  <2> QED
      BY <2>3, <2>4
<1>10. SetLasts'
  <2> SUFFICES ASSUME NEW q \in Savers, NEW g \in Field, HasSet(sv'[q].pc, g)
               PROVE  Lasts(kv'[<<g, sv'[q].key>>], sv'[q].setAt + TTL, now)
      BY <1>3 DEF SetLasts
  <2>1. /\ Active(q) /\ sv'[q].key \in Key /\ sv'[q].key = sv[q].key
        /\ sv'[q].setAt + TTL \in Int /\ sv'[q].setAt + TTL <= now + TTL
        /\ sv[q].setAt + TTL \in Int /\ sv[q].setAt + TTL <= now + TTL
      BY <1>1, <1>6, Times DEF SaversInTime, HasSet, Active
  <2>2. CASE q = s /\ g = f
      BY <1>8, <2>1, <2>2
  <2>3. CASE ~(q = s /\ g = f)
    <3>1. HasSet(sv[q].pc, g) /\ sv'[q].setAt = sv[q].setAt
        BY <1>6, <2>3 DEF HasSet, Field
    <3>2. Lasts(kv[<<g, sv[q].key>>], sv[q].setAt + TTL, now)
        BY <3>1 DEF SetLasts
    <3> QED
        BY <1>7, <2>1, <3>1, <3>2
  <2> QED
      BY <2>2, <2>3
<1>11. PromiseKept'
  <2>1. \A k \in Key : promise[k] \in Int /\ promise[k] <= now + TTL
      BY Times DEF PromiseKept
  <2>2. \A k \in Key, g \in Field : Lasts(kv'[<<g, k>>], promise[k], now)
      BY <1>7, <2>1 DEF PromiseKept
  <2> QED
      BY <1>3, <2>1, <2>2 DEF PromiseKept
<1>12. LoaderInTime' /\ RecoveredInTime'
    BY <1>3, SaversAndLoader DEF TypeOK, Promise
<1> QED
    BY <1>6, <1>9, <1>10, <1>11, <1>12

\* What the step of a pipeline that does not set a value must show: of its own
\* record, and of what is owed.
LEMMA SaverKeeps ==
  ASSUME IInv, NEW s \in Savers, NEW y,
         y \in Record,
         sv' = [sv EXCEPT ![s] = y],
         y.pc # "idle" => /\ y.key \in Key
                          /\ y.born <= y.setAt /\ y.setAt <= now /\ now <= y.born + MaxDelay,
         \A f \in Field : HasSet(y.pc, f) => Lasts(kv[<<f, y.key>>], y.setAt + TTL, now),
         UNCHANGED <<now, kv, mem, ld>>,
         idx' \subseteq Key, IsFiniteSet(idx'), idxUntil' \in Until,
         idx' = {} => idxUntil' = NoExpiry,
         idxUntil' = NoExpiry \/ now < idxUntil',
         saves' \in 0..MaxSaves,
         promise' \in Promise, PromiseKept',
         \A k \in Key : promise[k] <= promise'[k]
  PROVE  IInv'
<1> USE DEF IInv
<1>1. sv' \in [Savers -> Record]
    BY DEF Records
<1>2. sv'[s] = y /\ \A q \in Savers : q # s => sv'[q] = sv[q]
    BY DEF Records
<1>3. Records'
    BY <1>1 DEF Records
<1>4. TypeOK'
    BY <1>1 DEF TypeOK, Promise
<1>5. SaversInTime'
    BY <1>2 DEF SaversInTime, Active
<1>6. SetLasts'
    BY <1>2 DEF SetLasts
<1>7. ValuesLive' /\ IndexLives'
    BY DEF ValuesLive, IndexLives
<1>8. LoaderInTime' /\ RecoveredInTime'
    BY SaversAndLoader
<1> QED
    BY <1>3, <1>4, <1>5, <1>6, <1>7, <1>8

LEMMA SaveKeeps == ASSUME IInv, NEW s \in Savers, Save(s) PROVE IInv'
<1> USE StoreAssumption
<1>1. PICK k \in Key :
        sv' = [sv EXCEPT ![s] = [pc |-> "set_v", key |-> k, born |-> now, setAt |-> now]]
    BY DEF Save
<1> DEFINE y == [pc |-> "set_v", key |-> k, born |-> now, setAt |-> now]
<1>2. now \in Time /\ now \in Nat
    BY DEF IInv, TypeOK, Time
<1>3. \A f \in Field : ~HasSet(y.pc, f)
    BY DEF HasSet
<1>4. /\ UNCHANGED <<now, kv, idx, idxUntil, mem, ld, promise>>
      /\ saves' \in 0..MaxSaves
    BY DEF Save, redis, IInv, TypeOK
<1>5. PromiseKept'
    BY <1>4 DEF IInv, PromiseKept
<1>6. y \in Record
    BY <1>2
<1>7. /\ idx' \subseteq Key /\ IsFiniteSet(idx') /\ idxUntil' \in Until
      /\ (idx' = {} => idxUntil' = NoExpiry) /\ (idxUntil' = NoExpiry \/ now < idxUntil')
      /\ promise' \in Promise
    BY <1>4 DEF IInv, TypeOK, Records, IndexLives, Promise
<1>8. \A q \in Key : promise[q] <= promise'[q]
    BY <1>4, Times
<1>9. y.key \in Key /\ y.born <= y.setAt /\ y.setAt <= now /\ now <= y.born + MaxDelay
    BY <1>2
<1> HIDE DEF y
<1> QED
    BY <1>1, <1>3, <1>4, <1>5, <1>6, <1>7, <1>8, <1>9, SaverKeeps DEF y

LEMMA CutKeeps == ASSUME IInv, NEW s \in Savers, Cut(s) PROVE IInv'
<1> USE StoreAssumption
<1>1. PICK y \in {Idle, [sv[s] EXCEPT !.pc = "set_v"]} : sv' = [sv EXCEPT ![s] = y]
    BY DEF Cut, IInv, Records
<1>2. y \in Record
  <2>1. CASE y = Idle
      BY <2>1 DEF Idle, Time
  <2>2. CASE y = [sv[s] EXCEPT !.pc = "set_v"]
      BY <2>2 DEF IInv, Records
  <2> QED
      BY <2>1, <2>2
<1>3. y.pc = "idle" \/ (y.pc = "set_v" /\ y.key = sv[s].key /\ y.born = sv[s].born
                        /\ y.setAt = sv[s].setAt)
    BY DEF Idle, IInv, Records
<1>4. Active(s)
    BY DEF Cut, Active
<1>5. y.pc # "idle" => /\ y.key \in Key
                       /\ y.born <= y.setAt /\ y.setAt <= now /\ now <= y.born + MaxDelay
    BY <1>3, <1>4 DEF IInv, SaversInTime
<1>6. \A f \in Field : ~HasSet(y.pc, f)
    BY <1>3 DEF HasSet
<1>7. UNCHANGED <<now, kv, idx, idxUntil, mem, ld, saves, promise>>
    BY DEF Cut, redis
<1>8. PromiseKept'
    BY <1>7 DEF IInv, PromiseKept
<1>9. /\ idx' \subseteq Key /\ IsFiniteSet(idx') /\ idxUntil' \in Until
      /\ (idx' = {} => idxUntil' = NoExpiry) /\ (idxUntil' = NoExpiry \/ now < idxUntil')
      /\ promise' \in Promise /\ saves' \in 0..MaxSaves
    BY <1>7 DEF IInv, TypeOK, Records, IndexLives, Promise
<1>10. \A q \in Key : promise[q] <= promise'[q]
    BY <1>7, Times
<1> QED
    BY <1>1, <1>2, <1>5, <1>6, <1>7, <1>8, <1>9, <1>10, SaverKeeps

LEMMA ZAddKeeps == ASSUME IInv, NEW s \in Savers, ZAdd(s) PROVE IInv'
<1> USE StoreAssumption
<1> DEFINE y == [sv[s] EXCEPT !.pc = "expire"]
<1>1. /\ sv' = [sv EXCEPT ![s] = y] /\ sv[s].pc = "zadd" /\ Active(s)
      /\ idx' = idx \cup {sv[s].key} /\ sv[s].key \in Key
      /\ UNCHANGED <<now, kv, idxUntil, mem, ld, saves, promise>>
    BY DEF ZAdd, IInv, Records, SaversInTime, Active
<1>2. /\ y \in Record
      /\ y.key = sv[s].key /\ y.born = sv[s].born /\ y.setAt = sv[s].setAt
    BY DEF IInv, Records
<1>3. y.key \in Key /\ y.born <= y.setAt /\ y.setAt <= now /\ now <= y.born + MaxDelay
    BY <1>1, <1>2 DEF IInv, SaversInTime
<1>4. \A f \in Field : Lasts(kv[<<f, y.key>>], y.setAt + TTL, now)
    BY <1>1, <1>2 DEF IInv, SetLasts, HasSet
<1>5. IsFiniteSet(idx')
    BY <1>1, FS_AddElement DEF IInv, Records
<1>6. /\ idx' \subseteq Key /\ idx' # {} /\ idxUntil' \in Until
      /\ (idxUntil' = NoExpiry \/ now < idxUntil')
      /\ promise' \in Promise /\ saves' \in 0..MaxSaves
    BY <1>1 DEF IInv, TypeOK, Records, IndexLives, Promise
<1>7. PromiseKept'
    BY <1>1 DEF IInv, PromiseKept
<1>8. \A q \in Key : promise[q] <= promise'[q]
    BY <1>1, Times
<1> HIDE DEF y
<1> QED
    BY <1>1, <1>2, <1>3, <1>4, <1>5, <1>6, <1>7, <1>8, SaverKeeps

\* EXPIRE makes the index last as long as anything that is owed, and what the
\* pipeline has saved is owed if its key is in the index.
LEMMA ExpireKeeps == ASSUME IInv, NEW s \in Savers, Expire(s) PROVE IInv'
<1> USE StoreAssumption
<1>1. /\ sv[s].pc = "expire" /\ Active(s) /\ sv[s].key \in Key
      /\ sv' = [sv EXCEPT ![s] = Idle]
      /\ idxUntil' = IF idx = {} THEN NoExpiry ELSE now + TTL
      /\ UNCHANGED <<now, kv, idx, mem, ld, saves>>
    BY DEF Expire, IInv, Records, SaversInTime, Active
<1>2. /\ now \in Time /\ now \in Nat /\ sv[s].setAt \in Nat
      /\ sv[s].setAt + TTL <= now + TTL /\ sv[s].setAt + TTL \in 0..MaxTime + TTL
  <2>1. now \in Time /\ now \in Nat /\ sv[s].setAt \in Nat
      BY Times DEF IInv, TypeOK
  <2>2. sv[s].setAt <= now
      BY <1>1 DEF IInv, SaversInTime
  <2> QED
      BY <2>1, <2>2 DEF Time
<1> DEFINE owed == Max({promise[sv[s].key], sv[s].setAt + TTL})
<1>3. owed \in 0..MaxTime + TTL /\ owed = IF promise[sv[s].key] >= sv[s].setAt + TTL
                                          THEN promise[sv[s].key] ELSE sv[s].setAt + TTL
  <2>1. promise[sv[s].key] \in 0..MaxTime + TTL
      BY <1>1 DEF IInv, TypeOK
  <2> QED
      BY <1>2, <2>1, MaxOfTwo
<1>4. promise' = IF sv[s].key \in idx THEN [promise EXCEPT ![sv[s].key] = owed] ELSE promise
    BY DEF Expire
<1> HIDE DEF owed
<1>5. /\ promise' \in Promise
      /\ \A k \in Key : promise'[k] = IF k = sv[s].key /\ k \in idx THEN owed ELSE promise[k]
    BY <1>1, <1>3, <1>4 DEF IInv, TypeOK, Promise
<1>6. \A k \in Key : promise[k] <= promise'[k]
    BY <1>2, <1>3, <1>5, Times
<1>7. \A f \in Field : Lasts(kv[<<f, sv[s].key>>], sv[s].setAt + TTL, now)
    BY <1>1 DEF IInv, SetLasts, HasSet
<1>8. PromiseKept'
  <2>1. ASSUME NEW k \in Key
        PROVE  /\ promise'[k] <= now + TTL
               /\ promise'[k] <= now \/ (k \in idx /\ promise'[k] <= idxUntil')
               /\ \A f \in Field : Lasts(kv[<<f, k>>], promise'[k], now)
    <3>1. /\ promise[k] \in Nat /\ promise[k] <= now + TTL
          /\ promise[k] <= now \/ k \in idx
          /\ \A f \in Field : Lasts(kv[<<f, k>>], promise[k], now)
        BY Times DEF IInv, PromiseKept
    <3>2. promise'[k] <= now + TTL
        BY <1>2, <1>3, <1>5, <3>1
    <3>3. promise'[k] <= now \/ (k \in idx /\ promise'[k] <= idxUntil')
        BY <1>1, <1>5, <3>1, <3>2
    <3>4. \A f \in Field : Lasts(kv[<<f, k>>], promise'[k], now)
        BY <1>3, <1>5, <1>7, <3>1
    <3> QED
        BY <3>2, <3>3, <3>4
  <2> QED
      BY <1>1, <2>1 DEF PromiseKept
<1>9. Idle \in Record
    BY DEF Idle, Time
<1>10. Idle.pc = "idle" /\ \A f \in Field : ~HasSet(Idle.pc, f)
    BY DEF Idle, HasSet
<1>11. /\ idx' \subseteq Key /\ IsFiniteSet(idx') /\ idxUntil' \in Until
       /\ (idx' = {} => idxUntil' = NoExpiry) /\ (idxUntil' = NoExpiry \/ now < idxUntil')
       /\ saves' \in 0..MaxSaves
    BY <1>1, <1>2 DEF IInv, TypeOK, Records, Until, Time
<1> QED
    BY <1>1, <1>5, <1>6, <1>8, <1>9, <1>10, <1>11, SaverKeeps

\* A gateway that comes down or up with nothing loaded keeps no state.
LEMMA NoRecoveryKeeps ==
  ASSUME IInv, NEW pc \in {"down", "up"}, ld' = NotLoading(pc), mem' \subseteq CacheEntry,
         pc = "down" => mem' = {},
         \A e \in mem' : /\ e.storedAt <= now /\ Served(e, now)
                         /\ e.storedAt < e.response.born + TTL + 2 * MaxDelay,
         UNCHANGED <<now, redis, sv, saves, promise>>
  PROVE  IInv'
<1> USE StoreAssumption
<1>1. /\ ld' \in Recovery
      /\ ld'.pc = pc /\ ld'.keys \in Seq(Key) /\ Len(ld'.replies) <= 2 * Len(ld'.keys)
  <2>1. <<>> \in Seq(Key) /\ <<>> \in Seq(Value) /\ 0 \in Time /\ [k \in Key |-> 0] \in Promise
      BY DEF Time, Promise
  <2> DEFINE nothing == [k \in Key |-> 0]
  <2>2. ld' = [pc |-> pc, keys |-> <<>>, replies |-> <<>>, start |-> 0, cut |-> FALSE,
               promise |-> nothing]
      BY DEF NotLoading
  <2>3. nothing \in Promise
      BY <2>1
  <2> HIDE DEF nothing
  <2>4. ld'.pc = pc /\ ld'.keys = <<>> /\ ld'.replies = <<>> /\ Len(<<>>) <= 2 * Len(<<>>)
      BY <2>2
  <2>5. ld' \in Recovery
      BY <2>1, <2>2, <2>3
  <2> QED
      BY <2>1, <2>4, <2>5
<1>2. TypeOK'
    BY <1>1 DEF IInv, TypeOK, redis
<1>3. Records' /\ SaversInTime' /\ ValuesLive' /\ IndexLives' /\ SetLasts' /\ PromiseKept'
    BY <1>1, LoaderAndRedis DEF Records
<1>4. LoaderInTime' /\ RecoveredInTime'
    BY <1>1 DEF LoaderInTime, RecoveredInTime, Served
<1> QED
    BY <1>2, <1>3, <1>4 DEF IInv

LEMMA CrashKeeps == ASSUME IInv, Crash PROVE IInv'
  BY NoRecoveryKeeps DEF Crash, Down

\* What the step of a recovery must show that goes on.
LEMMA RecoveryKeeps ==
  ASSUME IInv, NEW y, ld' = y, y.pc = "get", mem = {},
         y \in Recovery,
         Len(y.replies) <= 2 * Len(y.keys),
         LoaderInTime',
         UNCHANGED <<now, redis, sv, mem, saves, promise>>
  PROVE  IInv'
<1>1. TypeOK'
    BY DEF IInv, TypeOK, redis
<1>2. Records' /\ SaversInTime' /\ ValuesLive' /\ IndexLives' /\ SetLasts' /\ PromiseKept'
    BY LoaderAndRedis DEF Records
<1>3. RecoveredInTime'
    BY DEF RecoveredInTime
<1> QED
    BY <1>1, <1>2, <1>3 DEF IInv

\* The index is read: every key that is owed is asked for.
LEMMA ZRangeKeeps == ASSUME IInv, ZRange PROVE IInv'
<1> USE StoreAssumption
<1>1. PICK keys \in SetToSeqs(idx) :
        ld' = [pc |-> "get", keys |-> keys, replies |-> <<>>, start |-> now, cut |-> FALSE,
               promise |-> promise]
    BY DEF ZRange
<1>2. ld.pc = "down" /\ mem = {} /\ UNCHANGED <<now, redis, sv, mem, saves, promise>>
    BY DEF ZRange, IInv, RecoveredInTime
<1>3. /\ ld'.pc = "get" /\ ld'.keys = keys /\ ld'.start = now /\ ld'.promise = promise
      /\ ld'.replies = <<>>
    BY <1>1
<1>4. keys \in Seq(Key) /\ \A k \in idx : \E i \in DOMAIN keys : keys[i] = k
    BY EveryMember DEF IInv, Records, TypeOK
<1>5. ld' \in Recovery
  <2>1. now \in Time /\ promise \in Promise /\ <<>> \in Seq(Value)
      BY DEF IInv, TypeOK, Promise
  <2> QED
      BY <1>1, <1>4, <2>1
<1>6. LoaderInTime'
  <2>1. \A k \in Key : promise[k] <= now \/ k \in idx
      BY DEF IInv, PromiseKept
  <2>2. \A k \in Key : promise[k] <= promise[k]
      BY Times
  <2>3. now <= now /\ now <= now + MaxDelay
      BY Times
  <2> QED
      BY <1>2, <1>3, <1>4, <2>1, <2>2, <2>3 DEF LoaderInTime
<1> QED
    BY <1>2, <1>3, <1>4, <1>5, <1>6, RecoveryKeeps

\* The next reply is the value of the key it is for; it is there if it is owed.
LEMMA GetKeeps == ASSUME IInv, Get PROVE IInv'
<1> USE StoreAssumption
<1> DEFINE n == Len(ld.replies)
           x == kv[Requested]
           y == [ld EXCEPT !.replies = Append(ld.replies, x)]
<1>1. /\ ld.pc = "get" /\ ld' = y /\ n < 2 * Len(ld.keys)
      /\ UNCHANGED <<now, redis, sv, mem, saves, promise>>
  <2>1. Len(ld.replies) \in Nat /\ Len(ld.keys) \in Nat
      BY DEF IInv, Records
  <2>2. ld.pc = "get" /\ ld' = y /\ UNCHANGED <<now, redis, sv, mem, saves, promise>>
      BY DEF Get
  <2>3. n # 2 * Len(ld.keys) /\ n <= 2 * Len(ld.keys)
      BY DEF Get, AllReplied, IInv, TypeOK
  <2>4. n < 2 * Len(ld.keys)
      BY <2>1, <2>3
  <2> QED
      BY <2>2, <2>4
<1>2. mem = {}
    BY <1>1 DEF IInv, RecoveredInTime
<1>3. n \in Nat /\ Len(ld.keys) \in Nat /\ (n \div 2) + 1 \in 1..Len(ld.keys)
  <2>1. n \in Nat /\ Len(ld.keys) \in Nat
      BY DEF IInv, Records
  <2> QED
      BY <1>1, <2>1, ReplyHasKey
<1>4. PICK f \in Field, k \in Key : Requested = <<f, k>> /\ k = ld.keys[(n \div 2) + 1]
  <2>1. ld.keys[(n \div 2) + 1] \in Key
      BY <1>3 DEF IInv, Records
  <2> QED
      BY <2>1 DEF Requested, Field
<1>5. /\ x \in Value
      /\ x = Missing \/ (Timely(x, k) /\ ld.start < x.until)
      /\ ld.promise[k] <= now \/ x # Missing
  <2>1. x = kv[<<f, k>>]
      BY <1>4
  <2>2. x = Missing \/ (Timely(x, k) /\ now < x.until)
      BY <2>1 DEF IInv, ValuesLive
  <2>3. ld.start <= now /\ ld.promise[k] <= promise[k] /\ (promise[k] <= now \/ x # Missing)
      BY <1>1, <2>1 DEF IInv, LoaderInTime, PromiseKept, Lasts
  <2> QED
      BY <2>1, <2>2, <2>3, Times
<1> HIDE DEF x
<1>6. /\ y \in Recovery
      /\ y.pc = "get" /\ y.keys = ld.keys /\ y.start = ld.start /\ y.cut = ld.cut
      /\ y.promise = ld.promise /\ y.replies = Append(ld.replies, x)
  <2>1. Append(ld.replies, x) \in Seq(Value)
      BY <1>5 DEF IInv, Records
  <2>2. ld \in Recovery
      BY DEF IInv, Records
  <2> QED
      BY <1>1, <2>1, <2>2
<1>7. /\ Len(y.replies) = n + 1 /\ DOMAIN y.replies = 1..(n + 1) /\ DOMAIN ld.replies = 1..n
      /\ \A i \in 1..n : y.replies[i] = ld.replies[i]
      /\ y.replies[n + 1] = x
    BY <1>5, <1>6 DEF IInv, Records
<1>8. LoaderInTime'
  <2>1. \A i \in DOMAIN y.replies : y.keys[((i - 1) \div 2) + 1] = KeyOf(i)
      BY <1>6 DEF KeyOf
  <2>2. KeyOf(n + 1) = k
    <3>1. (n + 1) - 1 = n
        BY <1>3
    <3> QED
        BY <1>4, <3>1 DEF KeyOf
  <2>3. ASSUME NEW i \in DOMAIN y.replies
        PROVE  /\ \/ y.replies[i] = Missing
                  \/ Timely(y.replies[i], KeyOf(i)) /\ ld.start < y.replies[i].until
               /\ ld.cut \/ ld.promise[KeyOf(i)] <= now \/ y.replies[i] # Missing
    <3>1. CASE i \in 1..n
        BY <1>1, <1>7, <3>1 DEF IInv, LoaderInTime
    <3>2. CASE i = n + 1
        BY <1>5, <1>7, <2>2, <3>2
    <3> QED
        BY <1>3, <1>7, <3>1, <3>2
  <2>4. /\ ld.start <= now /\ now <= ld.start + MaxDelay
        /\ \A q \in Key :
             /\ ld.promise[q] <= promise[q]
             /\ ld.promise[q] <= now \/ \E i \in DOMAIN ld.keys : ld.keys[i] = q
      BY <1>1 DEF IInv, LoaderInTime
  <2> HIDE DEF y
  <2> QED
      BY <1>1, <1>6, <2>1, <2>3, <2>4 DEF LoaderInTime, KeyOf, Timely
<1>9. Len(y.replies) <= 2 * Len(y.keys)
    BY <1>1, <1>3, <1>6, <1>7
<1> HIDE DEF y
<1> QED
    BY <1>1, <1>2, <1>6, <1>8, <1>9, RecoveryKeeps

\* A reply that never came is missing, and the recovery counts as cut; one that is
\* asked for again, or given up, has no replies.
LEMMA LoadFailsKeeps == ASSUME IInv, LoadFails PROVE IInv'
<1> USE StoreAssumption
<1> DEFINE n == 2 * Len(ld.keys)
           Padded == [i \in 1..n |-> IF i \in DOMAIN ld.replies THEN ld.replies[i]
                                                              ELSE Missing]
<1>1. UNCHANGED <<now, redis, sv, mem, saves, promise>>
    BY DEF LoadFails
<1>2. CASE ld' = Up /\ ld.pc # "up"
  <2>1. mem = {} /\ mem' = {}
      BY <1>1, <1>2 DEF IInv, RecoveredInTime
  <2> QED
      BY <1>1, <1>2, <2>1, NoRecoveryKeeps DEF Up
<1>3. CASE ld.pc = "get" /\ ld' = [ld EXCEPT !.replies = <<>>]
  <2> DEFINE y == [ld EXCEPT !.replies = <<>>]
  <2>1. /\ y \in Recovery
        /\ y.pc = "get" /\ y.keys = ld.keys /\ y.start = ld.start /\ y.promise = ld.promise
        /\ y.replies = <<>>
    <3>1. <<>> \in Seq(Value)
        OBVIOUS
    <3>2. ld \in Recovery
        BY DEF IInv, Records
    <3> QED
        BY <1>3, <3>1, <3>2
  <2>2. mem = {} /\ Len(<<>>) <= 2 * Len(ld.keys)
      BY <1>3 DEF IInv, Records, RecoveredInTime
  <2> HIDE DEF y
  <2>3. ld' = y
      BY <1>3 DEF y
  <2>4. LoaderInTime'
      BY <1>1, <1>3, <2>1, <2>3 DEF IInv, LoaderInTime
  <2>5. Len(y.replies) <= 2 * Len(y.keys)
      BY <2>1, <2>2
  <2> QED
      BY <1>1, <2>1, <2>2, <2>3, <2>4, <2>5, RecoveryKeeps
<1>4. CASE ld.pc = "get" /\ ld' = [ld EXCEPT !.cut = TRUE, !.replies = Padded]
  <2> DEFINE y == [ld EXCEPT !.cut = TRUE, !.replies = Padded]
  <2>1. n \in Nat /\ ld.replies \in Seq(Value) /\ Missing \in Value
      BY DEF IInv, Records, Value
  <2>2. Padded \in Seq(Value) /\ DOMAIN Padded = 1..n /\ Len(Padded) = n
    <3>1. Padded \in [1..n -> Value]
        BY <2>1
    <3> QED
        BY <2>1, <3>1
  <2>3. \A i \in DOMAIN Padded :
          Padded[i] = IF i \in DOMAIN ld.replies THEN ld.replies[i] ELSE Missing
      OBVIOUS
  <2> HIDE DEF Padded
  <2>4. ld \in Recovery
      BY DEF IInv, Records
  <2>5. /\ y \in Recovery
        /\ y.pc = "get" /\ y.keys = ld.keys /\ y.start = ld.start /\ y.promise = ld.promise
        /\ y.cut = TRUE /\ y.replies = Padded
      BY <1>4, <2>2, <2>4
  <2>6. mem = {}
      BY <1>4 DEF IInv, RecoveredInTime
  <2>7. \A i \in DOMAIN Padded :
          Padded[i] = Missing \/ (Timely(Padded[i], KeyOf(i)) /\ ld.start < Padded[i].until)
      BY <1>4, <2>3 DEF IInv, LoaderInTime
  <2>8. /\ ld.start <= now /\ now <= ld.start + MaxDelay
        /\ \A q \in Key :
             /\ ld.promise[q] <= promise[q]
             /\ ld.promise[q] <= now \/ \E i \in DOMAIN ld.keys : ld.keys[i] = q
      BY <1>4 DEF IInv, LoaderInTime
  <2>9. ld' = y
      BY <1>4
  <2> HIDE DEF y
  <2>10. LoaderInTime'
      BY <1>1, <2>5, <2>7, <2>8, <2>9 DEF LoaderInTime, KeyOf, Timely
  <2>11. Len(y.replies) <= 2 * Len(y.keys)
      BY <2>1, <2>2, <2>5
  <2> QED
      BY <1>1, <2>5, <2>6, <2>9, <2>10, <2>11, RecoveryKeeps
<1> QED
  <2>1. \/ ld' = Up /\ ld.pc # "up"
        \/ ld.pc = "get" /\ ld' = [ld EXCEPT !.replies = <<>>]
        \/ ld.pc = "get" /\ ld' = [ld EXCEPT !.cut = TRUE, !.replies = Padded]
      BY DEF LoadFails
  <2> QED
      BY <1>2, <1>3, <1>4, <2>1

\* What is loaded is a value for its key and younger than TTL and a pipeline when
\* the recovery began.
LEMMA WhatIsLoaded ==
  ASSUME IInv, ld.pc = "get", AllReplied
  PROVE  /\ Loaded \subseteq CacheEntry
         /\ \A e \in Loaded : /\ e.vector.of = e.key /\ e.response.of = e.key
                              /\ e.storedAt = now
                              /\ now < e.response.born + TTL + 2 * MaxDelay
         /\ ld.cut \/ \A k \in Key : ld.promise[k] > now => \E e \in Loaded : e.key = k
<1> USE StoreAssumption
<1> DEFINE n == Len(ld.keys)
<1>1. /\ n \in Nat /\ DOMAIN ld.keys = 1..n /\ DOMAIN ld.replies = 1..(2 * n)
      /\ ld.replies \in Seq(Value) /\ ld.keys \in Seq(Key)
    BY DEF IInv, Records, AllReplied
<1>2. \A i \in 1..(2 * n) : ld.replies[i] \in Value
    BY <1>1
<1> HIDE DEF n
<1>3. ASSUME NEW j \in 1..n
      PROVE  /\ 2 * j - 1 \in 1..(2 * n) /\ 2 * j \in 1..(2 * n)
             /\ ld.keys[j] \in Key
             /\ KeyOf(2 * j - 1) = ld.keys[j] /\ KeyOf(2 * j) = ld.keys[j]
  <2>1. j \in Nat \ {0} /\ 2 * j - 1 \in 1..(2 * n) /\ 2 * j \in 1..(2 * n)
      BY <1>1
  <2>2. ld.keys[j] \in Key
      BY <1>1
  <2>3. ((2 * j - 1) - 1) \div 2 = j - 1 /\ (2 * j - 1) \div 2 = j - 1
    <3>1. (2 * j - 1) - 1 = 2 * j - 2
        BY <2>1
    <3> QED
        BY <2>1, <3>1, TwoReplies
  <2>4. (j - 1) + 1 = j
      BY <2>1
  <2> QED
      BY <2>1, <2>2, <2>3, <2>4 DEF KeyOf
<1>4. ASSUME NEW i \in 1..(2 * n)
      PROVE  /\ \/ ld.replies[i] = Missing
                \/ Timely(ld.replies[i], KeyOf(i)) /\ ld.start < ld.replies[i].until
             /\ ld.cut \/ ld.promise[KeyOf(i)] <= now \/ ld.replies[i] # Missing
    BY <1>1 DEF IInv, LoaderInTime
<1>5. ASSUME NEW e \in Loaded
      PROVE  /\ e \in CacheEntry
             /\ e.vector.of = e.key /\ e.response.of = e.key /\ e.storedAt = now
             /\ now < e.response.born + TTL + 2 * MaxDelay
  <2>1. PICK j \in 1..n :
          /\ ld.replies[2 * j - 1] # Missing /\ ld.replies[2 * j] # Missing
          /\ e = [key |-> ld.keys[j], vector |-> ld.replies[2 * j - 1],
                  response |-> ld.replies[2 * j], storedAt |-> now]
      BY <1>1 DEF Loaded
  <2> DEFINE v == ld.replies[2 * j - 1]
             r == ld.replies[2 * j]
  <2>2. v \in Value /\ r \in Value /\ ld.keys[j] \in Key
      BY <1>2, <1>3
  <2>3. Timely(v, ld.keys[j]) /\ Timely(r, ld.keys[j]) /\ ld.start < r.until
      BY <1>3, <1>4, <2>1
  <2>4. now <= ld.start + MaxDelay
      BY DEF IInv, LoaderInTime
  <2> HIDE DEF v, r
  <2>5. now < r.born + TTL + 2 * MaxDelay
      BY <2>2, <2>3, <2>4, Times DEF Timely
  <2>6. now \in Time
      BY DEF IInv, TypeOK
  <2>7. e = [key |-> ld.keys[j], vector |-> v, response |-> r, storedAt |-> now]
      BY <2>1 DEF v, r
  <2> QED
      BY <2>2, <2>3, <2>5, <2>6, <2>7 DEF Timely, CacheEntry
<1>6. ASSUME ~ld.cut, NEW k \in Key, ld.promise[k] > now
      PROVE  \E e \in Loaded : e.key = k
  <2>0. ~(ld.promise[k] <= now)
      BY <1>6, Times
  <2>1. PICK j \in 1..n : ld.keys[j] = k
    <3>1. ld.promise[k] <= now \/ \E i \in DOMAIN ld.keys : ld.keys[i] = k
        BY DEF IInv, LoaderInTime
    <3> QED
        BY <1>1, <2>0, <3>1
  <2>2. ld.replies[2 * j - 1] # Missing /\ ld.replies[2 * j] # Missing
      BY <1>3, <1>4, <1>6, <2>0, <2>1
  <2> DEFINE e == [key |-> ld.keys[j], vector |-> ld.replies[2 * j - 1],
                   response |-> ld.replies[2 * j], storedAt |-> now]
  <2>3. e \in Loaded
      BY <1>1, <2>2 DEF Loaded
  <2>4. e.key = k
      BY <2>1
  <2> QED
      BY <2>3, <2>4
<1> QED
    BY <1>5, <1>6

LEMMA LoadFromStoreKeeps == ASSUME IInv, LoadFromStore PROVE IInv'
<1> USE StoreAssumption
<1>1. /\ ld.pc = "get" /\ AllReplied /\ mem' = mem \cup Loaded /\ ld' = Up
      /\ UNCHANGED <<now, redis, sv, saves, promise>>
    BY DEF LoadFromStore
<1>2. mem = {} /\ mem' = Loaded
    BY <1>1 DEF IInv, RecoveredInTime
<1>3. \A e \in Loaded : /\ e.storedAt <= now /\ Served(e, now)
                        /\ e.storedAt < e.response.born + TTL + 2 * MaxDelay
    BY <1>1, WhatIsLoaded, Times DEF Served
<1> QED
    BY <1>1, <1>2, <1>3, WhatIsLoaded, NoRecoveryKeeps DEF Up

\* A tick ends no pipeline late, and drops what has run out only.
LEMMA TickKeeps == ASSUME IInv, Tick PROVE IInv'
<1> USE StoreAssumption
<1>1. /\ now \in Nat /\ now < MaxTime /\ now' = now + 1 /\ now' \in Time
      /\ \A s \in Savers : sv[s].pc # "idle" => now < sv[s].born + MaxDelay
      /\ ld.pc = "get" => now < ld.start + MaxDelay
      /\ UNCHANGED <<sv, ld, saves, promise>>
    BY DEF Tick, IInv, TypeOK, Time
<1>2. \A f \in Field, k \in Key :
        kv'[<<f, k>>] = IF kv[<<f, k>>].until = now' THEN Missing ELSE kv[<<f, k>>]
    BY DEF Tick
<1>3. mem' = {e \in mem : Served(e, now')}
    BY DEF Tick
<1>4. \/ idxUntil = now' /\ idx' = {} /\ idxUntil' = NoExpiry
      \/ idxUntil # now' /\ idx' = idx /\ idxUntil' = idxUntil
    BY DEF Tick
<1>5. kv' \in [Field \X Key -> Value]
  <2>1. Missing \in Value
      BY DEF Value
  <2>2. kv' = [x \in Field \X Key |-> IF kv[x].until = now' THEN Missing ELSE kv[x]]
      BY DEF Tick
  <2>3. \A x \in Field \X Key : kv[x] \in Value
      BY DEF IInv, TypeOK
  <2> QED
      BY <2>1, <2>2, <2>3
<1>6. TypeOK'
  <2>1. mem' \subseteq CacheEntry
      BY <1>3 DEF IInv, TypeOK
  <2>2. idx' \subseteq Key /\ idxUntil' \in Until /\ (idx' = {} => idxUntil' = NoExpiry)
      BY <1>4 DEF IInv, TypeOK, Until
  <2> QED
      BY <1>1, <1>5, <2>1, <2>2 DEF IInv, TypeOK
<1>7. Records'
    BY <1>1, <1>4, FS_EmptySet DEF IInv, Records
<1>8. SaversInTime'
  <2>1. ASSUME NEW s \in Savers, Active(s)
        PROVE  /\ sv[s].key \in Key
               /\ sv[s].born <= sv[s].setAt /\ sv[s].setAt <= now'
               /\ now' <= sv[s].born + MaxDelay
      BY <1>1, <2>1, Times DEF IInv, SaversInTime, Active
  <2> QED
      BY <1>1, <2>1 DEF SaversInTime, Active
<1>9. ValuesLive' /\ IndexLives'
  <2>1. ASSUME NEW f \in Field, NEW k \in Key
        PROVE  \/ kv'[<<f, k>>] = Missing
               \/ Timely(kv'[<<f, k>>], k) /\ now' < kv'[<<f, k>>].until
      BY <1>1, <1>2, Times DEF IInv, ValuesLive
  <2>2. IndexLives'
      BY <1>1, <1>4, Times DEF IInv, IndexLives
  <2> QED
      BY <2>1, <2>2 DEF ValuesLive, Timely
<1>10. \A f \in Field, k \in Key, t \in Int :
         Lasts(kv[<<f, k>>], t, now) => Lasts(kv'[<<f, k>>], t, now')
    BY <1>1, <1>2, Times DEF Lasts
<1>11. SetLasts'
  <2>1. ASSUME NEW s \in Savers, NEW f \in Field, HasSet(sv[s].pc, f)
        PROVE  Lasts(kv'[<<f, sv[s].key>>], sv[s].setAt + TTL, now')
    <3>1. sv[s].key \in Key /\ sv[s].setAt + TTL \in Int
        BY <2>1, Times DEF IInv, SaversInTime, Active, HasSet
    <3> QED
        BY <1>10, <2>1, <3>1 DEF IInv, SetLasts
  <2> QED
      BY <1>1, <2>1 DEF SetLasts
<1>12. PromiseKept'
  <2>1. ASSUME NEW k \in Key
        PROVE  /\ promise[k] <= now' + TTL
               /\ promise[k] <= now' \/ (k \in idx' /\ promise[k] <= idxUntil')
               /\ \A f \in Field : Lasts(kv'[<<f, k>>], promise[k], now')
    <3>1. /\ promise[k] \in Nat /\ promise[k] <= now + TTL
          /\ promise[k] <= now \/ (k \in idx /\ promise[k] <= idxUntil)
          /\ \A f \in Field : Lasts(kv[<<f, k>>], promise[k], now)
        BY Times DEF IInv, PromiseKept
    <3>2. promise[k] <= now' + TTL
        BY <1>1, <3>1
    <3>3. promise[k] <= now' \/ (k \in idx' /\ promise[k] <= idxUntil')
        BY <1>1, <1>4, <3>1
    <3>4. \A f \in Field : Lasts(kv'[<<f, k>>], promise[k], now')
        BY <1>10, <3>1
    <3> QED
        BY <3>2, <3>3, <3>4
  <2> QED
      BY <1>1, <2>1 DEF PromiseKept
<1>13. LoaderInTime'
  <2> SUFFICES ASSUME ld.pc = "get"
               PROVE  LoaderInTime'
      BY <1>1 DEF LoaderInTime
  <2>1. ld.start <= now' /\ now' <= ld.start + MaxDelay
      BY <1>1, Times DEF IInv, LoaderInTime
  <2>2. \A k \in Key : ld.promise[k] <= now => ld.promise[k] <= now'
      BY <1>1, Times
  <2>3. \A i \in DOMAIN ld.replies : KeyOf(i) \in Key
    <3>1. ASSUME NEW i \in DOMAIN ld.replies
          PROVE  KeyOf(i) \in Key
      <4>1. /\ Len(ld.replies) \in Nat /\ Len(ld.keys) \in Nat
            /\ Len(ld.replies) <= 2 * Len(ld.keys) /\ i \in 1..Len(ld.replies)
          BY <3>1 DEF IInv, Records, TypeOK
      <4>2. i - 1 \in Nat /\ i - 1 < 2 * Len(ld.keys)
          BY <4>1
      <4>3. ((i - 1) \div 2) + 1 \in 1..Len(ld.keys)
          BY <4>1, <4>2, ReplyHasKey
      <4> QED
          BY <4>3 DEF KeyOf, IInv, Records
    <3> QED
        BY <3>1
  <2> QED
      BY <1>1, <2>1, <2>2, <2>3 DEF IInv, LoaderInTime, KeyOf, Timely
<1>14. RecoveredInTime'
  <2>1. \A e \in mem' : e \in mem /\ e \in CacheEntry /\ Served(e, now')
      BY <1>3 DEF IInv, TypeOK
  <2>2. \A e \in mem' : e.storedAt <= now'
      BY <1>1, <2>1 DEF IInv, RecoveredInTime, CacheEntry, Time
  <2> QED
      BY <1>1, <2>1, <2>2 DEF IInv, RecoveredInTime, Served
<1> QED
    BY <1>6, <1>7, <1>8, <1>9, <1>11, <1>12, <1>13, <1>14 DEF IInv

LEMMA IInvStep == IInv /\ [Next]_vars => IInv'
<1> SUFFICES ASSUME IInv, [Next]_vars PROVE IInv'
    OBVIOUS
<1>1. ASSUME NEW s \in Savers, SetVector(s) PROVE IInv'
    BY <1>1, SetKeeps DEF SetVector, Field
<1>2. ASSUME NEW s \in Savers, SetResponse(s) PROVE IInv'
    BY <1>2, SetKeeps DEF SetResponse, Field
<1>3. CASE UNCHANGED vars
  <2>1. /\ UNCHANGED <<now, redis, sv, saves, promise>> /\ ld' = ld /\ mem' = mem
      BY <1>3 DEF vars
  <2>2. TypeOK'
      BY <2>1 DEF IInv, TypeOK, redis
  <2>3. Records' /\ SaversInTime' /\ ValuesLive' /\ IndexLives' /\ SetLasts' /\ PromiseKept'
      BY <2>1, LoaderAndRedis DEF IInv, Records
  <2>4. LoaderInTime' /\ RecoveredInTime'
    <3>1. promise' = promise /\ promise' \in Promise
        BY <2>1 DEF IInv, TypeOK, Promise
    <3>2. \A k \in Key : promise[k] <= promise'[k]
        BY <3>1, Times
    <3> QED
        BY <2>1, <3>1, <3>2, SaversAndLoader
  <2> QED
      BY <2>2, <2>3, <2>4 DEF IInv
<1> QED
    BY <1>1, <1>2, <1>3, SaveKeeps, ZAddKeeps, ExpireKeeps, CutKeeps, CrashKeeps, ZRangeKeeps,
       GetKeeps, LoadFailsKeeps, LoadFromStoreKeeps, TickKeeps DEF Next

LEMMA IInvHolds == Spec => []IInv
  BY IInvInit, IInvStep, PTL DEF Spec

-----------------------------------------------------------------------------
(***************************************************************************)
(* Theorems                                                                *)
(***************************************************************************)

\* Every state has its type.
THEOREM TypeCorrect == Spec => []TypeOK
<1>1. IInv => TypeOK
    BY DEF IInv
<1> QED
    BY <1>1, IInvHolds, PTL

\* A response that is recovered again and again, by gateways that crash while other
\* pipelines are cut and sent again, is never served at twice its TTL and the two
\* pipelines' time.
THEOREM SecondLifeIsTheLast == Spec => []AgeBound
<1>1. IInv => AgeBound
  <2> SUFFICES ASSUME IInv, NEW e \in mem
               PROVE  now - e.response.born < 2 * TTL + 2 * MaxDelay
      BY DEF AgeBound
  <2>1. /\ now - e.storedAt <= TTL
        /\ e.storedAt < e.response.born + TTL + 2 * MaxDelay
      BY DEF IInv, RecoveredInTime, Served
  <2>2. e.storedAt \in Nat /\ e.response \in Value
      BY DEF IInv, TypeOK, CacheEntry, Time
  <2> QED
      BY <2>1, <2>2, Times
<1> QED
    BY <1>1, IInvHolds, PTL

\* A recovery pairs the vector and the response of the same key, and loads all that
\* completed pipelines have saved and that cannot have run out.
THEOREM RecoveryLoadsWhatIsOwed == Spec => RecoveryIsExact
<1> DEFINE A == ld.pc = "get" /\ ld'.pc = "up" /\ AllReplied =>
                  LET loaded == mem' \ mem
                  IN  /\ \A e \in loaded : e.vector.of = e.key /\ e.response.of = e.key
                      /\ ld.cut \/ \A k \in Key :
                           ld.promise[k] > now => \E e \in loaded : e.key = k
<1>1. IInv /\ [Next]_vars => [A]_vars
  <2> SUFFICES ASSUME IInv, Next, ld.pc = "get", ld'.pc = "up", AllReplied
               PROVE  LET loaded == mem' \ mem
                      IN  /\ \A e \in loaded : e.vector.of = e.key /\ e.response.of = e.key
                          /\ ld.cut \/ \A k \in Key :
                               ld.promise[k] > now => \E e \in loaded : e.key = k
      OBVIOUS
  <2>1. LoadFromStore
    <3>1. ld' # ld
        OBVIOUS
    <3>2. ~(Crash \/ ZRange \/ Get \/ LoadFails)
        BY DEF Crash, ZRange, Get, LoadFails, Down, NotLoading
    <3>3. ~(Tick \/ \E s \in Savers : Save(s) \/ SetVector(s) \/ SetResponse(s) \/ ZAdd(s)
                                        \/ Expire(s) \/ Cut(s))
        BY <3>1 DEF Tick, Save, SetVector, SetResponse, Set, ZAdd, Expire, Cut
    <3> QED
        BY <3>2, <3>3 DEF Next
  <2>2. mem = {} /\ mem' = Loaded
      BY <2>1 DEF LoadFromStore, IInv, RecoveredInTime
  <2> QED
      BY <2>2, WhatIsLoaded
<1>2. Spec => [][A]_vars
    BY <1>1, IInvHolds, PTL DEF Spec
<1> QED
    BY <1>2 DEF RecoveryIsExact
=============================================================================
