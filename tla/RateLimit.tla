----------------------------- MODULE RateLimit -----------------------------
(***************************************************************************)
(* RateLimitMiddleware of ingress/middleware_ratelimit.go, for one API key *)
(* with a positive rate_limit and a connected Redis.  Every request reads  *)
(* the clock once, then talks to Redis in up to four commands; the two of  *)
(* the pipeline are not a transaction, so the commands of concurrent       *)
(* requests interleave, and a request may be slow between any two of them. *)
(*                                                                         *)
(* The members of the sorted set are random and never collide, so the set  *)
(* is a count of members per score.  Redis is external: ZREMRANGEBYSCORE,  *)
(* ZCARD, ZADD and EXPIRE are modelled by what the middleware uses of them.*)
(***************************************************************************)
EXTENDS Integers, FiniteSets, FiniteSetsExt

CONSTANTS Workers,       \* requests of this key that run at the same time
          Limit,         \* rate_limit
          Window,        \* the 60 seconds, in ticks
          RedisFails,    \* TRUE: a command may fail
          MaxDelay,      \* bound: ticks from reading the clock to the last command
          MaxTime,       \* bound: the clock stops here
          MaxAdmitted    \* bound: requests admitted in a behavior

ASSUME RateLimitAssumption ==
  /\ IsFiniteSet(Workers)
  /\ Limit \in Nat \ {0} /\ Window \in Nat \ {0}
  /\ MaxTime \in Nat /\ MaxAdmitted \in Nat
  /\ MaxDelay \in 0..Window - 1
  /\ RedisFails \in BOOLEAN

Time == 0..MaxTime
NoExpiry == -1

VARIABLES now,       \* the clock
          zset,      \* ratelimit:<key>: how many members each score has
          expireAt,  \* when Redis drops the key
          pc,        \* the next command of each request
          score,     \* the clock as each request read it
          admitted,  \* history: how many requests each score admitted
          peak,      \* history: the most requests that have run at the same time
          failed     \* history: a command has failed

vars == <<now, zset, expireAt, pc, score, admitted, peak, failed>>

\* The members whose score is in S, each told apart by a number.
Members(counts, S) == Cardinality(UNION {{t} \X (1..counts[t]) : t \in S})
Card == Members(zset, Time)

TypeOK ==
  /\ now \in Time
  /\ zset \in [Time -> Nat] /\ admitted \in [Time -> Nat]
  /\ expireAt \in {NoExpiry} \cup 0..MaxTime + 2 * Window
  /\ pc \in [Workers -> {"idle", "purge", "count", "add", "expire"}]
  /\ score \in [Workers -> Time]
  /\ peak \in 0..Cardinality(Workers) /\ failed \in BOOLEAN

Init ==
  /\ now = 0
  /\ zset = [t \in Time |-> 0]
  /\ expireAt = NoExpiry
  /\ pc = [w \in Workers |-> "idle"]
  /\ score = [w \in Workers |-> 0]
  /\ admitted = [t \in Time |-> 0]
  /\ peak = 0 /\ failed = FALSE

Goto(w, l) == pc' = [pc EXCEPT ![w] = l]

\* The handler runs: c.Next().
Admit(w) == admitted' = [admitted EXCEPT ![score[w]] = @ + 1]

Arrive(w) ==
  /\ pc[w] = "idle"
  /\ Members(admitted, Time) + Cardinality({v \in Workers : pc[v] # "idle"}) < MaxAdmitted
  /\ score' = [score EXCEPT ![w] = now]
  /\ Goto(w, "purge")
  /\ peak' = Max({peak, Cardinality({v \in Workers : pc'[v] # "idle"})})
  /\ UNCHANGED <<now, zset, expireAt, admitted, failed>>

\* mutant: a member at the very start of the window stays.
OutsideStrictly(w, t) == t < score[w] - Window

Outside(w, t) == t <= score[w] - Window

\* ZREMRANGEBYSCORE 0 windowStart.  An emptied key is gone, and its expiry too.
Purge(w) ==
  /\ pc[w] = "purge"
  /\ zset' = [t \in Time |-> IF Outside(w, t) THEN 0 ELSE zset[t]]
  /\ expireAt' = IF \E t \in Time : zset'[t] > 0 THEN expireAt ELSE NoExpiry
  /\ Goto(w, "count")
  /\ UNCHANGED <<now, score, admitted, peak, failed>>

\* mutant: the limit itself is let through.
AboveLimit(count) == count > Limit

OverLimit(count) == count >= Limit

\* ZCARD, and the decision
CountBelowLimit(w) ==
  /\ pc[w] = "count"
  /\ ~OverLimit(Card)
  /\ Goto(w, "add")
  /\ UNCHANGED <<now, zset, expireAt, score, admitted, peak, failed>>

Reject(w) ==
  /\ pc[w] = "count"
  /\ OverLimit(Card)
  /\ Goto(w, "idle")
  /\ UNCHANGED <<now, zset, expireAt, score, admitted, peak, failed>>

\* pipe.Exec returns an error: the request goes through uncounted.
FailOpen(w) ==
  /\ RedisFails
  /\ pc[w] \in {"purge", "count"}
  /\ failed' = TRUE
  /\ Admit(w)
  /\ Goto(w, "idle")
  /\ UNCHANGED <<now, zset, expireAt, score, peak>>

\* ZADD; its error is ignored
Add(w) ==
  /\ pc[w] = "add"
  /\ \/ /\ zset' = [zset EXCEPT ![score[w]] = @ + 1]
        /\ UNCHANGED failed
     \/ /\ RedisFails
        /\ failed' = TRUE
        /\ UNCHANGED zset
  /\ Goto(w, "expire")
  /\ UNCHANGED <<now, expireAt, score, admitted, peak>>

\* mutant: milliseconds for seconds.
TTLInMilliseconds == 2000 * Window

KeyTTL == 2 * Window

\* EXPIRE of two windows, whose error is ignored too; then the handler runs
Expire(w) ==
  /\ pc[w] = "expire"
  /\ \/ /\ expireAt' = IF Card = 0 THEN NoExpiry ELSE now + KeyTTL
        /\ UNCHANGED failed
     \/ /\ RedisFails
        /\ failed' = TRUE
        /\ UNCHANGED expireAt
  /\ Admit(w)
  /\ Goto(w, "idle")
  /\ UNCHANGED <<now, zset, score, peak>>

\* Time passes, and Redis drops the key when its time has come.  The client's
\* dial, read and write timeouts keep a request from waiting for a whole window.
Tick ==
  /\ now < MaxTime
  /\ \A w \in Workers : pc[w] # "idle" => now < score[w] + MaxDelay
  /\ now' = now + 1
  /\ IF expireAt = now'
     THEN /\ zset' = [t \in Time |-> 0]
          /\ expireAt' = NoExpiry
     ELSE UNCHANGED <<zset, expireAt>>
  /\ UNCHANGED <<pc, score, admitted, peak, failed>>

Next ==
  \/ Tick
  \/ \E w \in Workers : \/ Arrive(w) \/ Purge(w) \/ CountBelowLimit(w) \/ Reject(w)
                        \/ FailOpen(w) \/ Add(w) \/ Expire(w)

Spec == Init /\ [][Next]_vars

-----------------------------------------------------------------------------
(***************************************************************************)
(* Properties                                                              *)
(***************************************************************************)

AdmittedIn(start, length) ==
  Members(admitted, {t \in Time : start < t /\ t <= start + length})

\* The documented limit, exactly, in every window while requests of the key come
\* one after the other, however slow each of them is and whenever the key expires.
\* Each further request that has ever run at the same time may pass its check
\* before the first of them is counted, but no more than that; and a request that
\* came later purges on behalf of one that is slow, which costs MaxDelay.
WindowLimit ==
  ~failed => \A start \in -1..MaxTime :
    IF peak <= 1 THEN AdmittedIn(start, Window) <= Limit
    ELSE AdmittedIn(start, Window - MaxDelay) <= Limit + peak - 1

\* A request is rejected only when Limit requests were admitted, or are about to
\* be, in the window that ends with it, whichever commands failed before.
RejectionJustified ==
  [][\A w \in Workers :
       pc[w] = "count" /\ pc'[w] = "idle" /\ admitted' = admitted =>
         Members(admitted, {t \in Time : t > score[w] - Window})
           + Cardinality({v \in Workers : pc[v] = "expire"}) >= Limit]_vars
=============================================================================
