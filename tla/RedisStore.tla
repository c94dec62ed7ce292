----------------------------- MODULE RedisStore -----------------------------
(***************************************************************************)
(* The persistence of the semantic cache, for one model: RedisStore of     *)
(* cache/redis_store.go and the two places in cache/semantic.go that use   *)
(* it.  Store saves an entry with a pipeline of four commands that is not  *)
(* a transaction; LoadFromStore, after a restart, reads the index and then *)
(* a vector and a response for each of its members, in another pipeline.   *)
(*                                                                         *)
(* Gateways share one Redis.  The module follows the recovered entries of  *)
(* one that crashes and restarts, while calls of Save, its own and those   *)
(* of the others, go on: it makes no difference to Redis whose they are,   *)
(* and commands a dead gateway had sent may still arrive.  An action is    *)
(* one command in Redis, so the commands of all of them interleave.  Redis *)
(* and the retries of its client are external, modelled by what this code  *)
(* uses of them.                                                           *)
(***************************************************************************)
EXTENDS Integers, Sequences, FiniteSets, SequencesExt

CONSTANTS Savers,     \* calls of Save at the same time, of all gateways
          Key,        \* hashes of prompts
          TTL,        \* cache.ttl, in ticks
          MaxDelay,   \* bound: ticks from the start of a pipeline to its last command
          MaxTime,    \* bound: the clock stops here
          MaxSaves    \* bound: calls of Save in a behavior

ASSUME StoreAssumption == /\ TTL \in Nat \ {0}
                          /\ MaxDelay \in Nat /\ MaxTime \in Nat /\ MaxSaves \in Nat

VARIABLES now,       \* the clock
          kv,        \* sc:v:<key> and sc:r:<key>
          idx,       \* the members of sc:idx
          idxUntil,  \* when Redis drops sc:idx
          sv,        \* the calls of Save
          mem,       \* the recovered entries in the memory of that gateway
          ld,        \* its LoadFromStore
          saves,     \* how often Save was called
          promise    \* history: when what was saved of each key may be gone

redis == <<kv, idx, idxUntil>>
vars == <<now, redis, sv, mem, ld, saves, promise>>

Time == 0..MaxTime
NoExpiry == -1
Until == {NoExpiry} \cup 0..MaxTime + TTL

Missing == [of |-> "none", born |-> 0, until |-> NoExpiry]
Value == [of : Key, born : Time, until : Until] \cup {Missing}
Field == {"v", "r"}

\* A CacheEntry.  The vector and the response stand for the key they were made for
\* and the time they were made.
CacheEntry == [key : Key, vector : Value, response : Value, storedAt : Time]

Idle == [pc |-> "idle", key |-> "none", born |-> 0, setAt |-> 0]
NotLoading(pc) == [pc |-> pc, keys |-> <<>>, replies |-> <<>>, start |-> 0, cut |-> FALSE,
                   promise |-> [k \in Key |-> 0]]
Down == NotLoading("down")
Up == NotLoading("up")

TypeOK ==
  /\ now \in Time
  /\ kv \in [Field \X Key -> Value]
  /\ idx \subseteq Key /\ idxUntil \in Until /\ (idx = {} => idxUntil = NoExpiry)
  /\ \A s \in Savers : sv[s].pc \in {"idle", "set_v", "set_r", "zadd", "expire"}
  /\ mem \subseteq CacheEntry
  /\ ld.pc \in {"down", "get", "up"}
  /\ ld.keys \in Seq(Key) /\ Len(ld.replies) <= 2 * Len(ld.keys)
  /\ saves \in 0..MaxSaves
  /\ promise \in [Key -> 0..MaxTime + TTL]

\* The gateway starts with whatever Redis holds: nothing, at first.
Init ==
  /\ now = 0
  /\ kv = [x \in Field \X Key |-> Missing]
  /\ idx = {} /\ idxUntil = NoExpiry
  /\ sv = [s \in Savers |-> Idle]
  /\ mem = {}
  /\ ld = Down
  /\ saves = 0
  /\ promise = [k \in Key |-> 0]

-----------------------------------------------------------------------------
(***************************************************************************)
(* Save                                                                    *)
(***************************************************************************)

\* Store calls Save with an entry it has just made.
Save(s) ==
  /\ sv[s].pc = "idle" /\ saves < MaxSaves
  /\ \E k \in Key :
       sv' = [sv EXCEPT ![s] = [pc |-> "set_v", key |-> k, born |-> now, setAt |-> now]]
  /\ saves' = saves + 1
  /\ UNCHANGED <<now, redis, mem, ld, promise>>

\* mutant: the values are set without an expiry.
Forever == NoExpiry

\* mutant: the duration is taken for milliseconds.
ThousandFold == now + 1000 * TTL

SetUntil == now + TTL

Set(s, field, next) ==
  /\ kv' = [kv EXCEPT ![<<field, sv[s].key>>] =
              [of |-> sv[s].key, born |-> sv[s].born, until |-> SetUntil]]
  /\ sv' = [sv EXCEPT ![s].pc = next, ![s].setAt = IF field = "v" THEN now ELSE @]
  /\ UNCHANGED <<now, idx, idxUntil, mem, ld, saves, promise>>

SetVector(s) == sv[s].pc = "set_v" /\ Set(s, "v", "set_r")
SetResponse(s) == sv[s].pc = "set_r" /\ Set(s, "r", "zadd")

\* ZADD makes an index without expiry, or adds to one and leaves its expiry alone.
ZAdd(s) ==
  /\ sv[s].pc = "zadd"
  /\ idx' = idx \cup {sv[s].key}
  /\ sv' = [sv EXCEPT ![s].pc = "expire"]
  /\ UNCHANGED <<now, kv, idxUntil, mem, ld, saves, promise>>

\* EXPIRE does nothing to an index that is gone: when it ran out after ZADD, the
\* key was lost with it although Save succeeds.
Expire(s) ==
  /\ sv[s].pc = "expire"
  /\ idxUntil' = IF idx = {} THEN NoExpiry ELSE now + TTL
  /\ promise' = IF sv[s].key \in idx
                THEN [promise EXCEPT ![sv[s].key] = Max({@, sv[s].setAt + TTL})]
                ELSE promise
  /\ sv' = [sv EXCEPT ![s] = Idle]
  /\ UNCHANGED <<now, kv, idx, mem, ld, saves>>

\* The connection breaks, or the gateway does.  The client sends the whole pipeline
\* again a few times and then gives up; Save's error is ignored.
Cut(s) ==
  /\ sv[s].pc # "idle"
  /\ \/ sv' = [sv EXCEPT ![s] = Idle]
     \/ sv' = [sv EXCEPT ![s].pc = "set_v"]
  /\ UNCHANGED <<now, redis, mem, ld, saves, promise>>

-----------------------------------------------------------------------------
(***************************************************************************)
(* LoadFromStore                                                           *)
(***************************************************************************)

Crash ==
  /\ ld.pc # "down"
  /\ mem' = {}
  /\ ld' = Down
  /\ UNCHANGED <<now, redis, sv, saves, promise>>

\* ZRANGE returns all members, by score: here, in any order.
ZRange ==
  /\ ld.pc = "down"
  /\ \E keys \in SetToSeqs(idx) :
       ld' = [pc |-> "get", keys |-> keys, replies |-> <<>>, start |-> now, cut |-> FALSE,
              promise |-> promise]
  /\ UNCHANGED <<now, redis, sv, mem, saves, promise>>

Requested == LET i == Len(ld.replies)
             IN  <<IF i % 2 = 0 THEN "v" ELSE "r", ld.keys[(i \div 2) + 1]>>

AllReplied == Len(ld.replies) = 2 * Len(ld.keys)

Get ==
  /\ ld.pc = "get" /\ ~AllReplied
  /\ ld' = [ld EXCEPT !.replies = Append(@, kv[Requested])]
  /\ UNCHANGED <<now, redis, sv, mem, saves, promise>>

\* ZRANGE fails, or the pipeline does and is sent again or given up.  Exec returns
\* the first error of all replies: when that is a missing value, LoadAll goes on
\* with what it has and passes over the replies that never came.
LoadFails ==
  /\ \/ ld.pc = "down" /\ ld' = Up
     \/ /\ ld.pc = "get" /\ ~AllReplied
        /\ \/ ld' = [ld EXCEPT !.replies = <<>>]
           \/ IF Missing \in Range(ld.replies)
              THEN ld' = [ld EXCEPT !.cut = TRUE, !.replies =
                            [i \in 1..2 * Len(ld.keys) |->
                               IF i \in DOMAIN @ THEN @[i] ELSE Missing]]
              ELSE ld' = Up
  /\ UNCHANGED <<now, redis, sv, mem, saves, promise>>

\* mutant: values that are there are paired by their order.
PairedInOrder ==
  LET n == Len(ld.keys)
      there(offset) == SelectSeq([i \in 1..n |-> ld.replies[2 * i - offset]],
                                 LAMBDA x : x # Missing)
  IN  {[key |-> ld.keys[i], vector |-> there(1)[i], response |-> there(0)[i],
        storedAt |-> now] : i \in DOMAIN there(1) \cap DOMAIN there(0)}

\* What LoadAll makes of the replies: two for each key, by position, and a key
\* that lacks one of them is passed over.
Loaded ==
  {[key |-> ld.keys[i], vector |-> ld.replies[2 * i - 1],
    response |-> ld.replies[2 * i], storedAt |-> now] :
     i \in {j \in DOMAIN ld.keys : /\ ld.replies[2 * j - 1] # Missing
                                   /\ ld.replies[2 * j] # Missing}}

\* Each loaded entry is appended as if stored now.
LoadFromStore ==
  /\ ld.pc = "get" /\ AllReplied
  /\ mem' = mem \cup Loaded
  /\ ld' = Up
  /\ UNCHANGED <<now, redis, sv, saves, promise>>

-----------------------------------------------------------------------------
\* An entry older than the TTL is not served, removed from memory or not.
Served(e, t) == t - e.storedAt <= TTL

\* Time passes; Redis drops what has run out.  The timeouts of the client keep a
\* pipeline from taking longer than MaxDelay.
Tick ==
  /\ now < MaxTime
  /\ \A s \in Savers : sv[s].pc # "idle" => now < sv[s].born + MaxDelay
  /\ ld.pc = "get" => now < ld.start + MaxDelay
  /\ now' = now + 1
  /\ kv' = [x \in Field \X Key |-> IF kv[x].until = now' THEN Missing ELSE kv[x]]
  /\ IF idxUntil = now' THEN idx' = {} /\ idxUntil' = NoExpiry
                        ELSE UNCHANGED <<idx, idxUntil>>
  /\ mem' = {e \in mem : Served(e, now')}
  /\ UNCHANGED <<sv, ld, saves, promise>>

Next ==
  \/ Tick \/ Crash \/ ZRange \/ Get \/ LoadFails \/ LoadFromStore
  \/ \E s \in Savers : \/ Save(s) \/ SetVector(s) \/ SetResponse(s) \/ ZAdd(s)
                       \/ Expire(s) \/ Cut(s)

Spec == Init /\ [][Next]_vars

-----------------------------------------------------------------------------
(***************************************************************************)
(* Properties                                                              *)
(***************************************************************************)

\* A recovery loads every key that a Save had completed when the index was read and
\* whose values cannot have run out since; and every entry it loads has the vector
\* and the response of its own key, whatever expires or is saved meanwhile and
\* wherever pipelines are cut.  Only a pipeline of its own that is cut loads less.
RecoveryIsExact ==
  [][ld.pc = "get" /\ ld'.pc = "up" /\ AllReplied =>
       LET loaded == mem' \ mem
       IN  /\ \A e \in loaded : e.vector.of = e.key /\ e.response.of = e.key
           /\ ld.cut \/ \A k \in Key :
                ld.promise[k] > now => \E e \in loaded : e.key = k]_vars

\* A recovered entry starts a second life: a response is served for less than
\* twice its TTL and the time the two pipelines took, and never longer, however
\* often the gateway restarts.
AgeBound ==
  \A e \in mem : now - e.response.born < 2 * TTL + 2 * MaxDelay
=============================================================================
