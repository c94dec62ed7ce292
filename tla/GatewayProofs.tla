---------------------------- MODULE GatewayProofs ----------------------------
(***************************************************************************)
(* Proofs about Gateway.tla for every set of requests, models, providers,  *)
(* routes and chains.  The argument: a handler is sequential, so what      *)
(* holds of one request is a statement about that request's own variables  *)
(* and whether its client is gone; no step of another request disturbs it. *)
(* Three things are shared: the clients that went away, which only grow,   *)
(* the cache, where a response outlives its handler but not the history of *)
(* the call behind it, and the breakers, whose counts are set against the  *)
(* calls of all requests together.                                         *)
(***************************************************************************)
EXTENDS Gateway, FiniteSetTheorems, SequenceTheorems, TLAPS

(***************************************************************************)
(* What the methods of a breaker do, for every threshold and clock.        *)
(***************************************************************************)

\* Each method returns a breaker.
LEMMA MethodTypes ==
  ASSUME NEW time \in SUBSET Nat, NEW t \in time, NEW b \in BreakerType(time)
  PROVE  /\ AfterAllow(b, t) \in BreakerType(time)
         /\ AfterSuccess(b) \in BreakerType(time)
         /\ AfterFailure(b, t) \in BreakerType(time)
<1> USE DEF BreakerType, CircuitState
<1>1. AfterAllow(b, t) \in BreakerType(time)
    BY DEF AfterAllow
<1>2. AfterSuccess(b) \in BreakerType(time)
    BY DEF AfterSuccess
<1>3. AfterFailure(b, t) \in BreakerType(time)
    BY DEF AfterFailure
<1> QED
    BY <1>1, <1>2, <1>3

\* Allow() touches nothing but the state, and only to make an Open breaker
\* whose cooldown is over HalfOpen.
LEMMA AllowEffect ==
  ASSUME NEW time \in SUBSET Nat, NEW t \in time, NEW b \in BreakerType(time)
  PROVE  /\ AfterAllow(b, t).failures = b.failures
         /\ AfterAllow(b, t).openedAt = b.openedAt
         /\ \/ AfterAllow(b, t).state = b.state
            \/ /\ b.state = "Open" /\ t - b.openedAt >= Cooldown
               /\ AfterAllow(b, t).state = "HalfOpen"
  BY DEF BreakerType, AfterAllow, CooldownOver

\* A success closes the breaker and forgets the failures.
LEMMA SuccessEffect ==
  ASSUME NEW time \in SUBSET Nat, NEW b \in BreakerType(time)
  PROVE  AfterSuccess(b).failures = 0 /\ AfterSuccess(b).state = "Closed"
  BY DEF BreakerType, AfterSuccess

\* A failure is counted, and at the threshold the breaker is not Closed.
LEMMA FailureEffect ==
  ASSUME NEW time \in SUBSET Nat, NEW t \in time, NEW b \in BreakerType(time)
  PROVE  /\ AfterFailure(b, t).failures = b.failures + 1
         /\ \/ b.failures + 1 >= Threshold
            \/ AfterFailure(b, t).state = b.state
  BY BreakerAssumption DEF BreakerType, AfterFailure

\* A new breaker is Closed and has counted nothing.
LEMMA NewEffect ==
  ASSUME NEW time \in SUBSET Nat, 0 \in time
  PROVE  /\ NewCircuitBreaker \in BreakerType(time)
         /\ NewCircuitBreaker.failures = 0 /\ NewCircuitBreaker.state = "Closed"
  BY DEF BreakerType, CircuitState, NewCircuitBreaker

-----------------------------------------------------------------------------
Send == [to : Key, level : Level, got : AnswerKind \cup {"pending"}, late : BOOLEAN]
Reply == [kind : Kind, body : Key \cup {NoRoute}]

\* The level of the n-th attempt of any plan.
LevelAt(n) == IF n = 1 THEN "primary" ELSE IF n <= 1 + RetryMax THEN "retry" ELSE "fallback"

\* The number of attempts for a model.
PlanLen(m) == 1 + RetryMax + Len(Chain[m])

(***************************************************************************)
(* One request: l is where its handler is, rt its route, n and sk the      *)
(* attempt and skipRetries of Execute, rep its reply, s its calls, gone    *)
(* whether its client went away.                                           *)
(***************************************************************************)

\* The handler has a route, and is inside the plan when it looks at it.
InPlan(l, rt, n) ==
  /\ l \in {"attempt", "backoff", "call", "sending", "store"} => rt \in Key
  /\ l \in {"backoff", "call", "sending"} => n <= PlanLen(rt[2])

\* Every call is over and failed, but the one that is running.
CallsOver(l, rt, n, s) ==
  /\ l \in {"lookup", "route"} => s = <<>>
  /\ l \in {"attempt", "backoff", "call"} => \A i \in 1..Len(s) : Failed(s[i])
  /\ l = "sending" =>
       /\ Len(s) > 0 /\ s[Len(s)].got = "pending"
       /\ s[Len(s)].to = rt /\ s[Len(s)].level = LevelAt(n)
       /\ \A i \in 1..Len(s) - 1 : Failed(s[i])

\* What the client is told matches the calls; nobody is told anything early.
Told(l, rep, s, gone) ==
  /\ l \notin {"store", "done"} => rep.kind = "none"
  /\ l = "store" => rep.kind = "answer"
  /\ l = "done" => rep.kind # "none"
  /\ rep.kind = "answer" =>
       /\ Len(s) > 0 /\ s[Len(s)].got = "ok" /\ s[Len(s)].to = rep.body
       /\ \A i \in 1..Len(s) - 1 : Failed(s[i])
  /\ rep.kind = "canned" => \A i \in 1..Len(s) : Failed(s[i])
  /\ rep.kind \in {"circuit_open", "no_route", "cached"} => s = <<>>
  /\ rep.kind = "canceled" => gone /\ \A i \in 1..Len(s) : Failed(s[i])

\* No more calls than attempts, and none past the retries.
Counted(l, n, s) ==
  /\ Len(s) <= 1 + RetryMax
  /\ l \in {"attempt", "backoff", "call"} => Len(s) <= n - 1
  /\ l = "sending" => Len(s) <= n

\* A call that cannot be retried is remembered in skipRetries, and no retry
\* follows it.
NotRetryable(send) ==
  send.level = "primary" /\ Failed(send) /\ ~IsRetryable(CodeOf(send.got))
SkipKept(l, n, sk, s) ==
  /\ l \in {"backoff", "call", "sending"} /\ LevelAt(n) = "retry" => ~sk
  /\ \A i \in 1..Len(s) : NotRetryable(s[i]) =>
       sk /\ \A j \in 1..Len(s) : s[j].level # "retry"

\* A call begun on a dead context is the last one.
LateLast(l, s, gone) ==
  \A i \in 1..Len(s) : s[i].late =>
    i = Len(s) /\ gone /\ l \notin {"backoff", "call"}

Sound(l, rt, n, sk, rep, s, gone) ==
  /\ InPlan(l, rt, n) /\ CallsOver(l, rt, n, s) /\ Told(l, rep, s, gone)
  /\ Counted(l, n, s) /\ SkipKept(l, n, sk, s) /\ LateLast(l, s, gone)

(***************************************************************************)
(* All requests together                                                   *)
(***************************************************************************)

\* The breaker b holds against its key no more failures than are in the set.
Holds(b, blamed) ==
  /\ IsFiniteSet(blamed)
  /\ b.failures <= Cardinality(blamed)
  /\ b.state # "Closed" => Cardinality(blamed) >= Threshold

SendsTyped == sends \in [Requests -> Seq(Send)]

RequestsSound ==
  \A r \in Requests :
    Sound(pc[r], route[r], att[r], skip[r], reply[r], sends[r], r \in canceled)

BreakersHold == \A k \in Key : Holds(breakers[k], Blamed(sends, k))

IInv == TypeOK /\ SendsTyped /\ RequestsSound /\ StoredWereAnswered /\ BreakersHold

-----------------------------------------------------------------------------
(***************************************************************************)
(* The plan                                                                *)
(***************************************************************************)

\* A plan is one primary attempt, RetryMax retries of the same provider and
\* model, and the fallbacks, which name no provider.
LEMMA PlanShape ==
  ASSUME NEW p \in Provider, NEW m \in Model
  PROVE  /\ Len(Attempts(p, m)) = PlanLen(m)
         /\ PlanLen(m) \in Nat \ {0}
         /\ \A n \in 1..PlanLen(m) :
              /\ Attempts(p, m)[n].level = LevelAt(n)
              /\ Attempts(p, m)[n].provider = IF n <= 1 + RetryMax THEN p ELSE NoProvider
              /\ n <= 1 + RetryMax => Attempts(p, m)[n].model = m
<1> DEFINE chain == Chain[m]
         N == Len(chain)
         first == <<Attempt(p, m, "primary")>>
         retries == [i \in 1..RetryMax |-> Attempt(p, m, "retry")]
         others == [i \in 1..N |-> Attempt(NoProvider, chain[i], "fallback")]
         Any == [provider : Provider \cup {NoProvider}, model : Model, level : Level]
<1>1. chain \in Seq(Model)
    BY GatewayAssumption, FallbackAssumption
<1>2. PlanLen(m) = 1 + RetryMax + N /\ Attempts(p, m) = (first \o retries) \o others
    BY DEF PlanLen, Attempts
<1>3. RetryMax \in Nat /\ RetryMax > 0
    BY FallbackAssumption
<1> HIDE DEF chain
<1>4. N \in Nat /\ \A i \in 1..N : chain[i] \in Model
    BY <1>1
<1>5. first \in Seq(Any) /\ Len(first) = 1 /\ first[1] = Attempt(p, m, "primary")
    BY DEF Attempt, Level
<1>6. /\ retries \in Seq(Any) /\ Len(retries) = RetryMax
      /\ \A i \in 1..RetryMax : retries[i] = Attempt(p, m, "retry")
  <2>1. retries \in [1..RetryMax -> Any]
      BY <1>3 DEF Attempt, Level
  <2> QED
      BY <1>3, <2>1
<1> HIDE DEF N
<1>7. /\ others \in Seq(Any) /\ Len(others) = N
      /\ \A i \in 1..N : others[i] = Attempt(NoProvider, chain[i], "fallback")
  <2>1. others \in [1..N -> Any]
      BY <1>4 DEF Attempt, Level
  <2> QED
      BY <1>4, <2>1
<1> HIDE DEF first, retries, others, Any
<1>8. /\ first \o retries \in Seq(Any) /\ Len(first \o retries) = 1 + RetryMax
      /\ \A n \in 1..1 + RetryMax :
           (first \o retries)[n] = IF n <= 1 THEN first[n] ELSE retries[n - 1]
    BY <1>3, <1>5, <1>6, ConcatProperties
<1>9. /\ Len(Attempts(p, m)) = 1 + RetryMax + N
      /\ \A n \in 1..1 + RetryMax + N :
           Attempts(p, m)[n] = IF n <= 1 + RetryMax THEN (first \o retries)[n]
                               ELSE others[n - (1 + RetryMax)]
  <2> DEFINE both == first \o retries
  <2>1. both \in Seq(Any) /\ Len(both) = 1 + RetryMax
      BY <1>8
  <2> HIDE DEF both
  <2>2. /\ Len(both \o others) = Len(both) + Len(others)
        /\ \A n \in 1..Len(both) + Len(others) :
             (both \o others)[n] = IF n <= Len(both) THEN both[n]
                                   ELSE others[n - Len(both)]
      BY <1>7, <2>1, ConcatProperties
  <2>3. Attempts(p, m) = both \o others
      BY <1>2 DEF both
  <2>4. Len(both) = 1 + RetryMax /\ Len(others) = N
      BY <1>7, <2>1
  <2> QED
      BY <2>2, <2>3, <2>4 DEF both
<1>10. ASSUME NEW n \in 1..1 + RetryMax + N
       PROVE  /\ Attempts(p, m)[n].level = LevelAt(n)
              /\ Attempts(p, m)[n].provider = IF n <= 1 + RetryMax THEN p ELSE NoProvider
              /\ n <= 1 + RetryMax => Attempts(p, m)[n].model = m
  <2>1. CASE n = 1
    <3>1. 1 \in 1..1 + RetryMax + N /\ 1 \in 1..1 + RetryMax /\ 1 <= 1 + RetryMax
        BY <1>3, <1>4
    <3>2. Attempts(p, m)[1] = (first \o retries)[1]
        BY <1>9, <3>1
    <3>3. Attempts(p, m)[1] = Attempt(p, m, "primary")
        BY <1>5, <1>8, <3>1, <3>2
    <3> QED
        BY <2>1, <3>1, <3>3 DEF Attempt, LevelAt
  <2>2. CASE n > 1 /\ n <= 1 + RetryMax
    <3>1. n - 1 \in 1..RetryMax /\ n \in 1..1 + RetryMax
        BY <1>3, <1>4, <2>2
    <3>2. Attempts(p, m)[n] = Attempt(p, m, "retry")
        BY <1>6, <1>8, <1>9, <2>2, <3>1
    <3> QED
        BY <2>2, <3>2 DEF Attempt, LevelAt
  <2>3. CASE n > 1 + RetryMax
    <3>1. n - (1 + RetryMax) \in 1..N /\ ~(n <= 1 + RetryMax) /\ n # 1
        BY <1>3, <1>4, <2>3
    <3>2. Attempts(p, m)[n] = Attempt(NoProvider, chain[n - (1 + RetryMax)], "fallback")
        BY <1>7, <1>9, <3>1
    <3> QED
        BY <3>1, <3>2 DEF Attempt, LevelAt
  <2> QED
      BY <1>3, <1>4, <2>1, <2>2, <2>3
<1>11. 1 + RetryMax + N \in Nat \ {0}
    BY <1>3, <1>4
<1> QED
    BY <1>2, <1>9, <1>10, <1>11

\* The same, for a request that has a route.
LEMMA PlanOfRoute ==
  ASSUME NEW r \in Requests, route[r] \in Key
  PROVE  /\ Len(Plan(r)) = PlanLen(route[r][2]) /\ PlanLen(route[r][2]) \in Nat \ {0}
         /\ \A n \in 1..PlanLen(route[r][2]) :
              /\ Plan(r)[n].level = LevelAt(n)
              /\ Plan(r)[n].provider \in Registry =>
                   n <= 1 + RetryMax /\ <<Plan(r)[n].provider, Plan(r)[n].model>> = route[r]
<1>1. route[r][1] \in Provider /\ route[r][2] \in Model
      /\ route[r] = <<route[r][1], route[r][2]>>
    BY DEF Key
<1>2. NoProvider \notin Registry
    BY GatewayAssumption
<1> QED
    BY <1>1, <1>2, PlanShape DEF Plan

-----------------------------------------------------------------------------
(***************************************************************************)
(* One step of one handler, as a statement about that request alone        *)
(***************************************************************************)

\* A sound request stays sound when its client goes away.
LEMMA SoundGone ==
  ASSUME NEW l, NEW rt, NEW n, NEW sk, NEW rep, NEW s, NEW gone \in BOOLEAN,
         Sound(l, rt, n, sk, rep, s, gone)
  PROVE  Sound(l, rt, n, sk, rep, s, TRUE)
  BY DEF Sound, Told, LateLast

\* The reply that ends a handler.
LEMMA SoundReturn ==
  ASSUME NEW l \in PC \ {"done"}, NEW rt, NEW n \in Nat \ {0}, NEW sk \in BOOLEAN, NEW rep,
         NEW s \in Seq(Send), NEW gone \in BOOLEAN, Sound(l, rt, n, sk, rep, s, gone),
         NEW rt2, NEW kind, NEW body,
         \/ kind \in {"cached", "no_route", "circuit_open"} /\ l \in {"lookup", "route"}
         \/ kind = "canned" /\ l = "attempt"
         \/ kind = "canceled" /\ l \in {"attempt", "backoff"} /\ gone
  PROVE  Sound("done", rt2, n, sk, [kind |-> kind, body |-> body], s, gone)
<1> DEFINE rep2 == [kind |-> kind, body |-> body]
<1>1. rep2.kind = kind
    OBVIOUS
<1> HIDE DEF rep2
<1>2. InPlan("done", rt2, n) /\ CallsOver("done", rt2, n, s) /\ Counted("done", n, s)
    BY DEF Sound, InPlan, CallsOver, Counted
<1>3. Told("done", rep2, s, gone)
    BY <1>1 DEF Sound, Told, CallsOver
<1>4. SkipKept("done", n, sk, s) /\ LateLast("done", s, gone)
    BY DEF Sound, SkipKept, LateLast
<1> QED
    BY <1>2, <1>3, <1>4 DEF Sound, rep2

\* A step inside the loop that makes no call.
LEMMA SoundMove ==
  ASSUME NEW l \in PC, NEW l2 \in PC, NEW rt \in Key, NEW n \in Nat \ {0}, NEW sk \in BOOLEAN,
         NEW rep, NEW s \in Seq(Send), NEW gone \in BOOLEAN, Sound(l, rt, n, sk, rep, s, gone),
         \/ /\ l = "attempt" /\ l2 \in {"backoff", "call"} /\ n <= PlanLen(rt[2])
            /\ ~gone /\ ~(LevelAt(n) = "retry" /\ sk)
         \/ l = "backoff" /\ l2 = "call"
  PROVE  Sound(l2, rt, n, sk, rep, s, gone)
  BY DEF Sound, InPlan, CallsOver, Told, Counted, SkipKept, LateLast

\* An attempt that ends without a call to a provider.
LEMMA SoundSkip ==
  ASSUME NEW l \in {"attempt", "call"}, NEW rt \in Key, NEW n \in Nat \ {0},
         NEW sk \in BOOLEAN, NEW sk2 \in BOOLEAN, sk => sk2,
         NEW rep, NEW s \in Seq(Send), NEW gone \in BOOLEAN, Sound(l, rt, n, sk, rep, s, gone)
  PROVE  Sound("attempt", rt, n + 1, sk2, rep, s, gone)
  BY DEF Sound, InPlan, CallsOver, Told, Counted, SkipKept, LateLast

\* An allowed attempt begins its call.
LEMMA SoundCall ==
  ASSUME NEW rt \in Key, NEW n \in Nat \ {0}, NEW sk \in BOOLEAN, NEW rep,
         NEW s \in Seq(Send), NEW gone \in BOOLEAN, Sound("call", rt, n, sk, rep, s, gone),
         n <= 1 + RetryMax, NEW new \in Send,
         new = [to |-> rt, level |-> LevelAt(n), got |-> "pending", late |-> gone]
  PROVE  Sound("sending", rt, n, sk, rep, Append(s, new), gone)
<1> DEFINE t == Append(s, new)
           N == Len(s)
<1>1. /\ t \in Seq(Send) /\ Len(t) = N + 1 /\ N \in Nat
      /\ t[N + 1] = new /\ \A i \in 1..N : t[i] = s[i]
    BY AppendProperties
<1>2. new.to = rt /\ new.level = LevelAt(n) /\ new.got = "pending" /\ new.late = gone
    OBVIOUS
<1>3. RetryMax \in Nat
    BY FallbackAssumption
<1>4. ~Failed(new) /\ ~NotRetryable(new)
    BY <1>2 DEF Failed, NotRetryable
<1> HIDE DEF t, N
<1>5. InPlan("sending", rt, n)
    BY DEF Sound, InPlan
<1>6. CallsOver("sending", rt, n, t)
    BY <1>1, <1>2 DEF Sound, CallsOver, N
<1>7. Told("sending", rep, t, gone)
    BY DEF Sound, Told
<1>8. Counted("sending", n, t)
    BY <1>1, <1>3 DEF Sound, Counted, N
<1>9. SkipKept("sending", n, sk, t)
  <2>1. LevelAt(n) = "retry" => ~sk
      BY DEF Sound, SkipKept
  <2>2. ASSUME NEW i \in 1..N + 1, NotRetryable(t[i]), NEW j \in 1..N + 1
        PROVE  sk /\ t[j].level # "retry"
    <3>1. i \in 1..N /\ NotRetryable(s[i])
        BY <1>1, <1>4, <2>2
    <3>2. sk /\ \A q \in 1..N : s[q].level # "retry"
        BY <3>1 DEF Sound, SkipKept, N
    <3>3. t[N + 1].level # "retry"
        BY <1>1, <1>2, <2>1, <3>2
    <3> QED
        BY <1>1, <3>2, <3>3
  <2> QED
      BY <1>1, <2>1, <2>2 DEF SkipKept
<1>10. LateLast("sending", t, gone)
  <2>1. \A i \in 1..N : ~s[i].late
      BY DEF Sound, LateLast, N
  <2>2. ASSUME NEW i \in 1..N + 1, t[i].late
        PROVE  i = N + 1 /\ gone
      BY <1>1, <1>2, <2>1, <2>2
  <2> QED
      BY <1>1, <2>2 DEF LateLast
<1> QED
    BY <1>5, <1>6, <1>7, <1>8, <1>9, <1>10 DEF Sound, t

\* What an answer leaves of the history of a request.
WithAnswer(s, answer) == [s EXCEPT ![Len(s)].got = answer]

LEMMA AnswerRecorded ==
  ASSUME NEW s \in Seq(Send), Len(s) > 0, NEW answer \in AnswerKind,
         NEW t, t = WithAnswer(s, answer)
  PROVE  /\ t \in Seq(Send) /\ Len(t) = Len(s)
         /\ \A i \in 1..Len(s) - 1 : t[i] = s[i]
         /\ t[Len(s)].got = answer /\ t[Len(s)].to = s[Len(s)].to
         /\ t[Len(s)].level = s[Len(s)].level /\ t[Len(s)].late = s[Len(s)].late
<1> DEFINE N == Len(s)
           last == [s[N] EXCEPT !.got = answer]
<1>1. N \in Nat /\ N > 0 /\ s \in [1..N -> Send]
    BY LenProperties
<1>2. s[N] \in Send
    BY <1>1
<1>3. /\ last \in Send
      /\ last.got = answer /\ last.to = s[N].to
      /\ last.level = s[N].level /\ last.late = s[N].late
    BY <1>2 DEF Send
<1>4. t = [s EXCEPT ![N] = last]
    BY <1>1, <1>2 DEF WithAnswer
<1> HIDE DEF last
<1>5. /\ t \in [1..N -> Send]
      /\ t[N] = last /\ \A i \in 1..N - 1 : t[i] = s[i]
  <2> HIDE DEF N
  <2> QED
      BY <1>1, <1>3, <1>4
<1>6. t \in Seq(Send) /\ Len(t) = N
    BY <1>1, <1>5
<1> QED
    BY <1>3, <1>5, <1>6

\* The provider answers the running call.
LEMMA SoundAnswer ==
  ASSUME NEW rt \in Key, NEW n \in Nat \ {0}, NEW sk \in BOOLEAN, NEW rep,
         NEW s \in Seq(Send), NEW gone \in BOOLEAN, Sound("sending", rt, n, sk, rep, s, gone),
         NEW t \in Seq(Send), t = WithAnswer(s, "ok")
  PROVE  Sound("store", rt, n, sk, [kind |-> "answer", body |-> s[Len(s)].to], t, gone)
<1> DEFINE rep2 == [kind |-> "answer", body |-> s[Len(s)].to]
           N == Len(s)
<1>1. rep2.kind = "answer" /\ rep2.body = s[N].to
    OBVIOUS
<1>2. N \in Nat /\ N > 0 /\ (\A i \in 1..N - 1 : Failed(s[i]))
    BY DEF Sound, CallsOver
<1>3. /\ Len(t) = N /\ \A i \in 1..N - 1 : t[i] = s[i]
      /\ t[N].got = "ok" /\ t[N].to = s[N].to
      /\ t[N].level = s[N].level /\ t[N].late = s[N].late
  <2>1. "ok" \in AnswerKind
      BY DEF AnswerKind
  <2> QED
      BY <1>2, <2>1, AnswerRecorded
<1> HIDE DEF rep2
<1>4. InPlan("store", rt, n) /\ CallsOver("store", rt, n, t)
    BY DEF InPlan, CallsOver
<1>5. Told("store", rep2, t, gone)
    BY <1>1, <1>2, <1>3 DEF Told
<1>6. Counted("store", n, t)
    BY <1>3 DEF Sound, Counted
<1>7. SkipKept("store", n, sk, t)
  <2>1. ASSUME NEW i \in 1..N, NotRetryable(t[i])
        PROVE  NotRetryable(s[i])
      BY <1>2, <1>3, <2>1 DEF NotRetryable, Failed
  <2>2. \A j \in 1..N : t[j].level = s[j].level
      BY <1>2, <1>3
  <2> QED
      BY <1>3, <2>1, <2>2 DEF Sound, SkipKept
<1>8. LateLast("store", t, gone)
  <2>1. \A j \in 1..N : t[j].late = s[j].late
      BY <1>2, <1>3
  <2> QED
      BY <1>3, <2>1 DEF Sound, LateLast
<1> QED
    BY <1>4, <1>5, <1>6, <1>7, <1>8 DEF Sound, rep2

\* The running call fails, and the attempt with it.
LEMMA SoundFailure ==
  ASSUME NEW rt \in Key, NEW n \in Nat \ {0}, NEW sk \in BOOLEAN, NEW sk2 \in BOOLEAN, NEW rep,
         NEW s \in Seq(Send), NEW gone \in BOOLEAN, Sound("sending", rt, n, sk, rep, s, gone),
         NEW answer \in AnswerKind \ {"ok"},
         sk2 <=> \/ sk
                 \/ LevelAt(n) = "primary" /\ ~IsRetryable(CodeOf(answer)),
         NEW t \in Seq(Send), t = WithAnswer(s, answer)
  PROVE  Sound("attempt", rt, n + 1, sk2, rep, t, gone)
<1> DEFINE N == Len(s)
<1>1. /\ N \in Nat /\ N > 0 /\ (\A i \in 1..N - 1 : Failed(s[i]))
      /\ s[N].level = LevelAt(n)
    BY DEF Sound, CallsOver
<1>2. /\ Len(t) = N /\ \A i \in 1..N - 1 : t[i] = s[i]
      /\ t[N].got = answer /\ t[N].to = s[N].to
      /\ t[N].level = s[N].level /\ t[N].late = s[N].late
    BY <1>1, AnswerRecorded
<1>3. Failed(t[N])
    BY <1>2 DEF Failed, AnswerKind
<1>4. \A j \in 1..N : t[j].level = s[j].level /\ t[j].late = s[j].late
    BY <1>1, <1>2
<1>5. InPlan("attempt", rt, n + 1)
    BY DEF InPlan
<1>6. CallsOver("attempt", rt, n + 1, t)
    BY <1>1, <1>2, <1>3 DEF CallsOver
<1>7. Told("attempt", rep, t, gone)
    BY DEF Sound, Told
<1>8. Counted("attempt", n + 1, t)
    BY <1>1, <1>2 DEF Sound, Counted
<1>9. SkipKept("attempt", n + 1, sk2, t)
  <2>1. ASSUME NEW i \in 1..N, NotRetryable(t[i]), NEW j \in 1..N
        PROVE  sk2 /\ t[j].level # "retry"
    <3>1. CASE i < N
      <4>1. NotRetryable(s[i])
          BY <1>1, <1>2, <2>1, <3>1
      <4> QED
          BY <1>4, <4>1 DEF Sound, SkipKept
    <3>2. CASE i = N
      <4>1. LevelAt(n) = "primary" /\ ~IsRetryable(CodeOf(answer))
          BY <1>1, <1>2, <2>1, <3>2 DEF NotRetryable
      <4>2. n = 1
          BY <4>1 DEF LevelAt
      <4>3. N = 1
        <5>1. N <= n
            BY DEF Sound, Counted
        <5> HIDE DEF N
        <5> QED
            BY <1>1, <4>2, <5>1
      <4>4. j = N /\ t[N].level = "primary"
          BY <1>1, <1>2, <4>1, <4>3
      <4> QED
          BY <4>1, <4>4
    <3> QED
        BY <1>1, <3>1, <3>2
  <2> QED
      BY <1>2, <2>1 DEF SkipKept
<1>10. LateLast("attempt", t, gone)
    BY <1>2, <1>4 DEF Sound, LateLast
<1> QED
    BY <1>5, <1>6, <1>7, <1>8, <1>9, <1>10 DEF Sound

-----------------------------------------------------------------------------
(***************************************************************************)
(* The steps of the system: what each leaves of the requests               *)
(***************************************************************************)

\* The variables of one request, in the types of the model.
LEMMA RequestTypes ==
  ASSUME TypeOK, SendsTyped, NEW r \in Requests
  PROVE  /\ pc[r] \in PC /\ route[r] \in Key \cup {NoRoute} /\ att[r] \in Nat \ {0}
         /\ skip[r] \in BOOLEAN /\ sends[r] \in Seq(Send)
         /\ reply[r] \in Reply
         /\ (r \in canceled) \in BOOLEAN
  BY DEF TypeOK, SendsTyped, Reply

\* The handler of another request keeps away from the variables of this one.
LEMMA OthersKept ==
  ASSUME TypeOK, SendsTyped, NEW r \in Requests, Handler(r), NEW q \in Requests, q # r
  PROVE  /\ pc'[q] = pc[q] /\ route'[q] = route[q] /\ att'[q] = att[q]
         /\ skip'[q] = skip[q] /\ reply'[q] = reply[q] /\ sends'[q] = sends[q]
<1> DEFINE Kept == /\ pc'[q] = pc[q] /\ route'[q] = route[q] /\ att'[q] = att[q]
                   /\ skip'[q] = skip[q] /\ reply'[q] = reply[q] /\ sends'[q] = sends[q]
<1>t. /\ pc \in [Requests -> PC] /\ route \in [Requests -> Key \cup {NoRoute}]
      /\ att \in [Requests -> Nat \ {0}] /\ skip \in [Requests -> BOOLEAN]
      /\ reply \in [Requests -> Reply]
      /\ sends \in [Requests -> Seq(Send)]
    BY DEF TypeOK, SendsTyped, Reply
<1>1. ASSUME LookupHit(r) \/ LookupMiss(r) \/ RouteError(r) \/ Route(r) PROVE Kept
    BY <1>t, <1>1 DEF LookupHit, LookupMiss, RouteError, Route, Return, Goto, execution
<1>2. ASSUME Exhausted(r) \/ ContextDone(r) \/ NextAttempt(r) \/ BackoffOver(r) PROVE Kept
    BY <1>t, <1>2 DEF Exhausted, ContextDone, NextAttempt, BackoffOver, Return, Goto, execution
<1>3. ASSUME ProviderNotFound(r) \/ Call(r) PROVE Kept
    BY <1>t, <1>3 DEF ProviderNotFound, Call, AttemptFailed, Goto, execution
<1>4. ASSUME NEW a \in Answers, Answer(r, a) PROVE Kept
    BY <1>t, <1>4 DEF Answer, AttemptFailed, Goto, execution
<1>5. ASSUME Store(r) PROVE Kept
    BY <1>t, <1>5 DEF Store, Goto, execution
<1> QED
    BY <1>1, <1>2, <1>3, <1>4, <1>5 DEF Handler

\* The provider sendFn reaches is the routed one.
LEMMA CallKey ==
  ASSUME TypeOK, RequestsSound, NEW r \in Requests, pc[r] = "call"
  PROVE  /\ route[r] \in Key
         /\ att[r] \in 1..PlanLen(route[r][2]) /\ Plan(r)[att[r]].level = LevelAt(att[r])
         /\ Plan(r)[att[r]].provider \in Registry =>
              /\ <<Plan(r)[att[r]].provider, Plan(r)[att[r]].model>> = route[r]
              /\ att[r] <= 1 + RetryMax
<1>1. route[r] \in Key /\ att[r] <= PlanLen(route[r][2]) /\ att[r] \in Nat \ {0}
    BY DEF TypeOK, RequestsSound, Sound, InPlan
<1>2. PlanLen(route[r][2]) \in Nat
    BY <1>1, PlanOfRoute
<1>3. att[r] \in 1..PlanLen(route[r][2])
    BY <1>1, <1>2
<1> QED
    BY <1>1, <1>3, PlanOfRoute

\* A handler's own step keeps its request sound.
LEMMA HandlerSound ==
  ASSUME TypeOK, SendsTyped, RequestsSound, NEW r \in Requests, Handler(r)
  PROVE  Sound(pc'[r], route'[r], att'[r], skip'[r], reply'[r], sends'[r], r \in canceled)
<1> DEFINE gone == r \in canceled
           Now(l, rt, n, sk, rep, s) == Sound(l, rt, n, sk, rep, s, gone)
           Next1 == Now(pc'[r], route'[r], att'[r], skip'[r], reply'[r], sends'[r])
<1>s. Now(pc[r], route[r], att[r], skip[r], reply[r], sends[r])
    BY DEF RequestsSound
<1>t. /\ pc \in [Requests -> PC] /\ route \in [Requests -> Key \cup {NoRoute}]
      /\ att \in [Requests -> Nat \ {0}] /\ skip \in [Requests -> BOOLEAN]
      /\ reply \in [Requests -> Reply]
      /\ sends \in [Requests -> Seq(Send)]
    BY DEF TypeOK, SendsTyped, Reply
<1>r. /\ pc[r] \in PC /\ att[r] \in Nat \ {0} /\ skip[r] \in BOOLEAN
      /\ sends[r] \in Seq(Send) /\ gone \in BOOLEAN
    BY RequestTypes
<1>p. pc[r] \in {"attempt", "backoff", "call", "sending", "store"} => route[r] \in Key
    BY <1>s DEF Sound, InPlan
<1> HIDE DEF Now, gone
<1>1. ASSUME LookupHit(r) \/ RouteError(r) \/ Exhausted(r) \/ ContextDone(r)
      PROVE  Next1
  <2>1. PICK kind, body :
          /\ pc'[r] = "done" /\ route'[r] = route[r] /\ att'[r] = att[r] /\ skip'[r] = skip[r]
          /\ reply'[r] = [kind |-> kind, body |-> body] /\ sends'[r] = sends[r]
          /\ \/ /\ kind \in {"cached", "no_route", "circuit_open"}
                /\ pc[r] \in {"lookup", "route"}
             \/ kind = "canned" /\ pc[r] = "attempt"
             \/ kind = "canceled" /\ pc[r] \in {"attempt", "backoff"} /\ gone
    <3> DEFINE Ended(kind, body) ==
          /\ pc'[r] = "done" /\ route'[r] = route[r] /\ att'[r] = att[r] /\ skip'[r] = skip[r]
          /\ reply'[r] = [kind |-> kind, body |-> body] /\ sends'[r] = sends[r]
    <3>1. ASSUME LookupHit(r) PROVE pc[r] = "lookup" /\ \E body : Ended("cached", body)
        BY <1>t, <3>1 DEF LookupHit, Return, Goto, execution
    <3>2. ASSUME RouteError(r) PROVE pc[r] = "route" /\ Ended("no_route", NoRoute)
        BY <1>t, <3>2 DEF RouteError, Return, Goto, execution
    <3>3. ASSUME Exhausted(r) PROVE pc[r] = "attempt" /\ Ended("canned", route[r])
        BY <1>t, <3>3 DEF Exhausted, Return, Goto, execution
    <3>4. ASSUME ContextDone(r)
          PROVE  pc[r] \in {"attempt", "backoff"} /\ gone /\ Ended("canceled", NoRoute)
        BY <1>t, <3>4 DEF gone, ContextDone, CtxDone, Return, Goto, execution
    <3> QED
        BY <1>1, <3>1, <3>2, <3>3, <3>4
  <2>2. pc[r] \in PC \ {"done"}
      BY <2>1, <1>r
  <2>3. Now("done", route[r], att[r], skip[r], [kind |-> kind, body |-> body], sends[r])
      BY <1>s, <1>r, <2>1, <2>2, SoundReturn DEF Now
  <2> QED
      BY <2>1, <2>3
<1>2. ASSUME LookupMiss(r) PROVE Next1
  <2>1. /\ pc[r] = "lookup" /\ pc'[r] = "route" /\ route'[r] = route[r] /\ att'[r] = att[r]
        /\ skip'[r] = skip[r] /\ reply'[r] = reply[r] /\ sends'[r] = sends[r]
      BY <1>t, <1>2 DEF LookupMiss, Goto, execution
  <2>2. Now("route", route[r], att[r], skip[r], reply[r], sends[r])
      BY <1>s, <1>r, <2>1
      DEF Now, Sound, InPlan, CallsOver, Told, Counted, SkipKept, LateLast
  <2> QED
      BY <2>1, <2>2
<1>3. ASSUME Route(r) PROVE Next1
  <2>1. PICK k \in Key :
          /\ route'[r] = k /\ att'[r] = att[r]
          /\ skip'[r] = skip[r] /\ sends'[r] = sends[r]
          /\ \/ pc'[r] = "attempt" /\ reply'[r] = reply[r]
             \/ /\ pc'[r] = "done"
                /\ reply'[r] = [kind |-> "circuit_open", body |-> NoRoute]
    <3>1. Routes[asks[r]] \subseteq Key
        BY GatewayAssumption DEF TypeOK, Key
    <3> QED
        BY <1>t, <1>3, <3>1 DEF Route, Return, Goto, execution
  <2>2. pc[r] = "route" /\ pc[r] \in PC \ {"done"}
      BY <1>3 DEF Route, PC
  <2>3. CASE pc'[r] = "attempt" /\ reply'[r] = reply[r]
    <3>1. sends[r] = <<>>
        BY <1>s, <2>2 DEF Now, Sound, CallsOver
    <3>2. Now("attempt", k, att[r], skip[r], reply[r], <<>>)
        BY <1>s, <1>r, <2>2, <3>1
        DEF Now, Sound, InPlan, CallsOver, Told, Counted, SkipKept, LateLast
    <3> QED
        BY <2>1, <2>3, <3>1, <3>2
  <2>4. CASE pc'[r] = "done" /\ reply'[r] = [kind |-> "circuit_open", body |-> NoRoute]
    <3>1. Now("done", k, att[r], skip[r], [kind |-> "circuit_open", body |-> NoRoute],
              sends[r])
        BY <1>s, <1>r, <2>2, SoundReturn DEF Now
    <3> QED
        BY <2>1, <2>4, <3>1
  <2> QED
      BY <2>1, <2>3, <2>4
<1>4. ASSUME NextAttempt(r) PROVE Next1
  <2>1. /\ pc[r] = "attempt" /\ route'[r] = route[r] /\ skip'[r] = skip[r]
        /\ reply'[r] = reply[r] /\ sends'[r] = sends[r] /\ ~gone
        /\ att[r] <= Len(Plan(r))
      BY <1>4 DEF gone, NextAttempt, CtxDone
  <2>2. route[r] \in Key
      BY <1>p, <2>1
  <2>3. att[r] \in 1..PlanLen(route[r][2]) /\ Plan(r)[att[r]].level = LevelAt(att[r])
    <3>1. Len(Plan(r)) = PlanLen(route[r][2]) /\ PlanLen(route[r][2]) \in Nat
        BY <2>2, PlanOfRoute
    <3>2. att[r] \in 1..PlanLen(route[r][2])
        BY <1>r, <2>1, <3>1
    <3> QED
        BY <2>2, <3>2, PlanOfRoute
  <2>4. \/ pc'[r] = "attempt" /\ att'[r] = att[r] + 1
        \/ /\ pc'[r] \in {"backoff", "call"} /\ att'[r] = att[r]
           /\ ~(LevelAt(att[r]) = "retry" /\ skip[r])
      BY <1>4, <1>t, <2>1, <2>3 DEF NextAttempt, Goto
  <2>5. CASE pc'[r] = "attempt" /\ att'[r] = att[r] + 1
    <3>1. Now("attempt", route[r], att[r] + 1, skip[r], reply[r], sends[r])
        BY <1>s, <1>r, <2>1, <2>2, SoundSkip DEF Now
    <3> QED
        BY <2>1, <2>5, <3>1
  <2>6. CASE /\ pc'[r] \in {"backoff", "call"} /\ att'[r] = att[r]
             /\ ~(LevelAt(att[r]) = "retry" /\ skip[r])
    <3>1. att[r] <= PlanLen(route[r][2]) /\ pc'[r] \in PC
        BY <2>3, <2>6 DEF PC
    <3>2. Now(pc'[r], route[r], att[r], skip[r], reply[r], sends[r])
        BY <1>s, <1>r, <2>1, <2>2, <2>6, <3>1, SoundMove DEF Now
    <3> QED
        BY <2>1, <2>6, <3>2
  <2> QED
      BY <2>4, <2>5, <2>6
<1>5. ASSUME BackoffOver(r) PROVE Next1
  <2>1. /\ pc[r] = "backoff" /\ pc'[r] = "call" /\ route'[r] = route[r] /\ att'[r] = att[r]
        /\ skip'[r] = skip[r] /\ reply'[r] = reply[r] /\ sends'[r] = sends[r]
      BY <1>t, <1>5 DEF BackoffOver, Goto, execution
  <2>2. Now("call", route[r], att[r], skip[r], reply[r], sends[r])
      BY <1>s, <1>r, <1>p, <2>1, SoundMove DEF Now, PC
  <2> QED
      BY <2>1, <2>2
<1>6. ASSUME pc[r] = "call", NEW code, AttemptFailed(r, code),
             route' = route, reply' = reply, sends' = sends
      PROVE  Next1
  <2>1. /\ pc'[r] = "attempt" /\ att'[r] = att[r] + 1
        /\ skip'[r] \in BOOLEAN /\ (skip[r] => skip'[r])
      BY <1>t, <1>6 DEF AttemptFailed, Goto
  <2>2. Now("attempt", route[r], att[r] + 1, skip'[r], reply[r], sends[r])
      BY <1>s, <1>r, <1>p, <1>6, <2>1, SoundSkip DEF Now
  <2> QED
      BY <1>6, <2>1, <2>2
<1>7. ASSUME ProviderNotFound(r) PROVE Next1
    BY <1>6, <1>7 DEF ProviderNotFound
<1>8. ASSUME Call(r) PROVE Next1
  <2>1. /\ pc[r] = "call" /\ route' = route /\ reply' = reply
        /\ Plan(r)[att[r]].provider \in Registry
      BY <1>8 DEF Call
  <2>2. /\ route[r] \in Key /\ Plan(r)[att[r]].level = LevelAt(att[r])
        /\ <<Plan(r)[att[r]].provider, Plan(r)[att[r]].model>> = route[r]
        /\ att[r] <= 1 + RetryMax
      BY <2>1, CallKey
  <2> DEFINE new == [to |-> route[r], level |-> LevelAt(att[r]), got |-> "pending",
                     late |-> gone]
  <2>3. CASE AttemptFailed(r, "circuit_breaker_open") /\ sends' = sends
      BY <1>6, <2>1, <2>3
  <2>4. CASE /\ pc'[r] = "sending" /\ att' = att /\ skip' = skip
             /\ sends'[r] = Append(sends[r], new)
    <3>1. new \in Send
        BY <1>r, <2>2 DEF Send, LevelAt, Level
    <3>2. Now("sending", route[r], att[r], skip[r], reply[r], Append(sends[r], new))
        BY <1>s, <1>r, <2>1, <2>2, <3>1, SoundCall DEF Now
    <3> QED
        BY <2>1, <2>4, <3>2
  <2>5. \/ AttemptFailed(r, "circuit_breaker_open") /\ sends' = sends
        \/ /\ pc'[r] = "sending" /\ att' = att /\ skip' = skip
           /\ sends'[r] = Append(sends[r], new)
      BY <1>t, <1>8, <2>1, <2>2 DEF gone, Call, Goto, execution
  <2> QED
      BY <2>3, <2>4, <2>5
<1>9. ASSUME NEW a \in Answers, Answer(r, a) PROVE Next1
  <2>1. pc[r] = "sending" /\ route' = route /\ a \in AnswerKind /\ route[r] \in Key
    <3>1. pc[r] = "sending" /\ route' = route
        BY <1>9 DEF Answer
    <3> QED
        BY <1>p, <3>1, GatewayAssumption
  <2> DEFINE t == WithAnswer(sends[r], a)
  <2>2. Len(sends[r]) > 0 /\ att[r] <= PlanLen(route[r][2])
      BY <1>s, <2>1 DEF Now, Sound, CallsOver, InPlan
  <2>3. sends'[r] = t /\ t \in Seq(Send)
    <3>1. sends'[r] = t
        BY <1>t, <1>9 DEF Answer, WithAnswer
    <3> QED
        BY <1>r, <2>1, <2>2, <3>1, AnswerRecorded
  <2>4. CASE /\ a = "ok" /\ pc'[r] = "store" /\ att' = att /\ skip' = skip
             /\ reply'[r] = [kind |-> "answer", body |-> sends[r][Len(sends[r])].to]
    <3>1. t = WithAnswer(sends[r], "ok")
        BY <2>4
    <3> HIDE DEF t
    <3>2. Sound("sending", route[r], att[r], skip[r], reply[r], sends[r], gone)
        BY <1>s, <2>1 DEF Now
    <3>3. Now("store", route[r], att[r], skip[r],
              [kind |-> "answer", body |-> sends[r][Len(sends[r])].to], t)
        BY <1>r, <2>1, <2>3, <3>1, <3>2, SoundAnswer DEF Now
    <3> QED
        BY <2>1, <2>3, <2>4, <3>3
  <2>5. CASE a # "ok" /\ AttemptFailed(r, CodeOf(a)) /\ reply' = reply
    <3>1. Plan(r)[att[r]].level = LevelAt(att[r])
      <4>1. PlanLen(route[r][2]) \in Nat
          BY <2>1, PlanOfRoute
      <4>2. att[r] \in 1..PlanLen(route[r][2])
          BY <1>r, <2>2, <4>1
      <4> QED
          BY <2>1, <4>2, PlanOfRoute
    <3>2. /\ pc'[r] = "attempt" /\ att'[r] = att[r] + 1
          /\ skip'[r] = (skip[r] \/ (LevelAt(att[r]) = "primary" /\ ~IsRetryable(CodeOf(a))))
        BY <1>t, <2>5, <3>1 DEF AttemptFailed, Goto
    <3>3. /\ skip'[r] \in BOOLEAN
          /\ skip'[r] <=> \/ skip[r]
                          \/ LevelAt(att[r]) = "primary" /\ ~IsRetryable(CodeOf(a))
        BY <3>2
    <3>4. t = WithAnswer(sends[r], a)
        OBVIOUS
    <3> HIDE DEF t
    <3>5. Sound("sending", route[r], att[r], skip[r], reply[r], sends[r], gone)
        BY <1>s, <2>1 DEF Now
    <3>6. a \in AnswerKind \ {"ok"}
        BY <2>1, <2>5
    <3>7. Now("attempt", route[r], att[r] + 1, skip'[r], reply[r], t)
        BY <1>r, <2>1, <2>3, <3>3, <3>4, <3>5, <3>6, SoundFailure DEF Now
    <3> QED
        BY <2>1, <2>3, <2>5, <3>2, <3>7
  <2>6. \/ /\ a = "ok" /\ pc'[r] = "store" /\ att' = att /\ skip' = skip
           /\ reply'[r] = [kind |-> "answer", body |-> sends[r][Len(sends[r])].to]
        \/ a # "ok" /\ AttemptFailed(r, CodeOf(a)) /\ reply' = reply
      BY <1>t, <1>9 DEF Answer, Goto, execution
  <2> QED
      BY <2>4, <2>5, <2>6
<1>10. ASSUME Store(r) PROVE Next1
  <2>1. /\ pc[r] = "store" /\ pc'[r] = "done" /\ route'[r] = route[r] /\ att'[r] = att[r]
        /\ skip'[r] = skip[r] /\ reply'[r] = reply[r] /\ sends'[r] = sends[r]
      BY <1>t, <1>10 DEF Store, Goto, execution
  <2>2. Now("done", route[r], att[r], skip[r], reply[r], sends[r])
      BY <1>s, <1>r, <2>1
      DEF Now, Sound, InPlan, CallsOver, Told, Counted, SkipKept, LateLast
  <2> QED
      BY <2>1, <2>2
<1> QED
    BY <1>1, <1>2, <1>3, <1>4, <1>5, <1>7, <1>8, <1>9, <1>10 DEF Handler, Now, gone

-----------------------------------------------------------------------------
(***************************************************************************)
(* The invariant                                                           *)
(***************************************************************************)

LEMMA IInvInit == Init => IInv
<1> SUFFICES ASSUME Init PROVE IInv
    OBVIOUS
<1> USE DEF Init
<1>1. TypeOK /\ SendsTyped
  <2>1. 0..MaxTime \in SUBSET Nat /\ 0 \in 0..MaxTime
      BY GatewayAssumption
  <2>2. NewCircuitBreaker \in BreakerType(0..MaxTime)
      BY <2>1, NewEffect
  <2>3. breakers \in [Key -> BreakerType(0..MaxTime)]
      BY <2>2
  <2>4. /\ pc \in [Requests -> PC] /\ route \in [Requests -> Key \cup {NoRoute}]
        /\ att \in [Requests -> Nat \ {0}] /\ skip \in [Requests -> BOOLEAN]
        /\ sends \in [Requests -> Seq(Send)]
      BY DEF PC
  <2>5. NoReply \in Reply
      BY DEF NoReply, Reply, Kind
  <2>6. reply \in [Requests -> Reply]
      BY <2>5
  <2>7. \A r \in Requests : DOMAIN sends[r] = {}
      OBVIOUS
  <2> QED
      BY <2>1, <2>3, <2>4, <2>6, <2>7 DEF TypeOK, SendsTyped, Reply
<1>2. RequestsSound
  <2>1. Sound("lookup", NoRoute, 1, FALSE, NoReply, <<>>, FALSE)
      BY FallbackAssumption
      DEF Sound, InPlan, CallsOver, Told, Counted, SkipKept, LateLast, NoReply
  <2>2. ASSUME NEW r \in Requests
        PROVE  /\ pc[r] = "lookup" /\ route[r] = NoRoute /\ att[r] = 1 /\ skip[r] = FALSE
               /\ reply[r] = NoReply /\ sends[r] = <<>> /\ (r \in canceled) = FALSE
      OBVIOUS
  <2> QED
      BY <2>1, <2>2 DEF RequestsSound
<1>3. StoredWereAnswered
    BY DEF StoredWereAnswered
<1>4. BreakersHold
  <2> SUFFICES ASSUME NEW k \in Key PROVE Holds(breakers[k], Blamed(sends, k))
      BY DEF BreakersHold
  <2>1. Blamed(sends, k) = {}
      BY DEF Blamed
  <2>2. breakers[k] = NewCircuitBreaker
      OBVIOUS
  <2>3. IsFiniteSet({}) /\ Cardinality({}) = 0
      BY FS_EmptySet
  <2>4. NewCircuitBreaker.failures = 0 /\ NewCircuitBreaker.state = "Closed"
      BY DEF NewCircuitBreaker
  <2> HIDE DEF Init
  <2>5. Holds(NewCircuitBreaker, {})
      BY <2>3, <2>4 DEF Holds
  <2> QED
      BY <2>1, <2>2, <2>5
<1> QED
    BY <1>1, <1>2, <1>3, <1>4 DEF IInv

LEMMA TypeStep ==
  ASSUME TypeOK, SendsTyped, RequestsSound, [Next]_vars
  PROVE  TypeOK' /\ SendsTyped'
<1> DEFINE Data == /\ asks \in ReqModels /\ now \in 0..MaxTime /\ stored \subseteq Response
                   /\ breakers \in [Key -> BreakerType(0..MaxTime)]
           Control == /\ pc \in [Requests -> PC] /\ canceled \subseteq Requests
                      /\ route \in [Requests -> Key \cup {NoRoute}]
                      /\ att \in [Requests -> Nat \ {0}] /\ skip \in [Requests -> BOOLEAN]
                      /\ reply \in [Requests -> Reply]
                      /\ sends \in [Requests -> Seq(Send)]
<1>0. Data /\ Control
    BY DEF TypeOK, SendsTyped, Reply
<1>t. 0..MaxTime \in SUBSET Nat
    BY GatewayAssumption
<1>a. ASSUME NEW r \in Requests, NEW code, AttemptFailed(r, code)
      PROVE  pc' \in [Requests -> PC] /\ att' \in [Requests -> Nat \ {0}]
             /\ skip' \in [Requests -> BOOLEAN]
    BY <1>0, <1>a DEF AttemptFailed, Goto, PC
<1>b. ASSUME NEW r \in Requests, NEW kind \in Kind, NEW body \in Key \cup {NoRoute},
             Return(r, kind, body)
      PROVE  pc' \in [Requests -> PC] /\ reply' \in [Requests -> Reply]
  <2>1. [kind |-> kind, body |-> body] \in Reply
      BY DEF Reply
  <2> QED
      BY <1>0, <1>b, <2>1 DEF Return, Goto, PC
<1>1. ASSUME Tick PROVE Data' /\ Control'
  <2>1. now' \in 0..MaxTime
      BY <1>0, <1>1, GatewayAssumption DEF Tick
  <2> QED
      BY <1>0, <1>1, <2>1 DEF Tick, execution
<1>2. ASSUME NEW r \in Requests, Cancel(r) PROVE Data' /\ Control'
    BY <1>0, <1>2 DEF Cancel, execution
<1>3. ASSUME NEW r \in Requests, LookupHit(r) PROVE Data' /\ Control'
  <2>1. PICK e \in stored : Return(r, "cached", e.by)
      BY <1>3 DEF LookupHit
  <2>2. e.by \in Key /\ "cached" \in Kind
      BY <1>0 DEF Response, Key, Kind
  <2> QED
      BY <1>0, <1>3, <1>b, <2>1, <2>2 DEF LookupHit, execution
<1>12. ASSUME NEW r \in Requests, LookupMiss(r) \/ BackoffOver(r) PROVE Data' /\ Control'
    BY <1>0, <1>12 DEF LookupMiss, BackoffOver, Goto, execution, PC
<1>13. ASSUME NEW r \in Requests, RouteError(r) \/ ContextDone(r) PROVE Data' /\ Control'
  <2>1. Return(r, "no_route", NoRoute) \/ Return(r, "canceled", NoRoute)
      BY <1>13 DEF RouteError, ContextDone
  <2>2. "no_route" \in Kind /\ "canceled" \in Kind
      BY DEF Kind
  <2> QED
      BY <1>0, <1>13, <1>b, <2>1, <2>2 DEF RouteError, ContextDone, execution
<1>14. ASSUME NEW r \in Requests, Exhausted(r) PROVE Data' /\ Control'
  <2>1. Return(r, "canned", route[r]) /\ "canned" \in Kind
      BY <1>14 DEF Exhausted, Kind
  <2> QED
      BY <1>0, <1>14, <1>b, <2>1 DEF Exhausted, execution
<1>4. ASSUME NEW r \in Requests, Route(r) PROVE Data' /\ Control'
  <2>1. Routes[asks[r]] \subseteq Key
      BY <1>0, GatewayAssumption DEF Key
  <2>2. PICK k \in Key : breakers' = [breakers EXCEPT ![k] = AfterAllow(@, now)]
      BY <1>4, <2>1 DEF Route
  <2>3. AfterAllow(breakers[k], now) \in BreakerType(0..MaxTime)
      BY <1>0, <1>t, MethodTypes
  <2>4. breakers' \in [Key -> BreakerType(0..MaxTime)]
      BY <1>0, <2>2, <2>3
  <2>5. route' \in [Requests -> Key \cup {NoRoute}]
      BY <1>0, <1>4, <2>1 DEF Route
  <2>6. pc' \in [Requests -> PC] /\ reply' \in [Requests -> Reply]
    <3>1. "circuit_open" \in Kind
        BY DEF Kind
    <3>2. \/ Goto(r, "attempt") /\ reply' = reply
          \/ Return(r, "circuit_open", NoRoute)
        BY <1>4 DEF Route
    <3> QED
        BY <1>0, <1>b, <3>1, <3>2 DEF Goto, PC
  <2> QED
      BY <1>0, <1>4, <2>4, <2>5, <2>6 DEF Route, execution
<1>6. ASSUME NEW r \in Requests, NextAttempt(r) PROVE Data' /\ Control'
  <2>1. \/ att' = [att EXCEPT ![r] = @ + 1] /\ pc' = pc
        \/ (Goto(r, "backoff") \/ Goto(r, "call")) /\ att' = att
      BY <1>6 DEF NextAttempt
  <2>2. pc' \in [Requests -> PC] /\ att' \in [Requests -> Nat \ {0}]
    <3>1. pc' \in [Requests -> PC]
        BY <1>0, <2>1 DEF Goto, PC
    <3>2. att[r] + 1 \in Nat \ {0}
        BY <1>0
    <3>3. att' \in [Requests -> Nat \ {0}]
        BY <1>0, <2>1, <3>2
    <3> QED
        BY <3>1, <3>3
  <2>3. /\ asks' = asks /\ breakers' = breakers /\ now' = now /\ stored' = stored
        /\ canceled' = canceled /\ route' = route /\ skip' = skip
        /\ reply' = reply /\ sends' = sends
      BY <1>6 DEF NextAttempt
  <2> QED
      BY <1>0, <2>2, <2>3
<1>7. ASSUME NEW r \in Requests, ProviderNotFound(r) PROVE Data' /\ Control'
  <2>1. AttemptFailed(r, "provider_error")
      BY <1>7 DEF ProviderNotFound
  <2> QED
      BY <1>0, <1>7, <1>a, <2>1 DEF ProviderNotFound
<1>8. ASSUME NEW r \in Requests, Call(r) PROVE Data' /\ Control'
  <2>1. pc[r] = "call" /\ Plan(r)[att[r]].provider \in Registry
        /\ asks' = asks /\ now' = now /\ stored' = stored
        /\ canceled' = canceled /\ route' = route /\ reply' = reply
      BY <1>8 DEF Call
  <2>2. /\ route[r] \in Key /\ Plan(r)[att[r]].level = LevelAt(att[r])
        /\ <<Plan(r)[att[r]].provider, Plan(r)[att[r]].model>> = route[r]
      BY <2>1, CallKey
  <2>3. breakers' = [breakers EXCEPT ![route[r]] = AfterAllow(@, now)]
      BY <1>8, <2>2 DEF Call
  <2>4. AfterAllow(breakers[route[r]], now) \in BreakerType(0..MaxTime)
      BY <1>0, <1>t, <2>2, MethodTypes
  <2>5. breakers' \in [Key -> BreakerType(0..MaxTime)]
      BY <1>0, <2>3, <2>4
  <2>6. Data'
      BY <1>0, <2>1, <2>5
  <2> DEFINE new == [to |-> route[r], level |-> LevelAt(att[r]), got |-> "pending",
                     late |-> r \in canceled]
  <2>7. \/ AttemptFailed(r, "circuit_breaker_open") /\ sends' = sends
        \/ /\ Goto(r, "sending") /\ att' = att /\ skip' = skip
           /\ sends' = [sends EXCEPT ![r] = Append(@, new)]
      BY <1>8, <2>2 DEF Call, execution
  <2>8. Append(sends[r], new) \in Seq(Send)
    <3>1. new \in Send
        BY <2>2 DEF Send, LevelAt, Level
    <3> QED
        BY <1>0, <3>1, AppendProperties
  <2>9. sends' \in [Requests -> Seq(Send)]
      BY <1>0, <2>7, <2>8
  <2>10. /\ pc' \in [Requests -> PC]
         /\ att' \in [Requests -> Nat \ {0}] /\ skip' \in [Requests -> BOOLEAN]
      BY <1>0, <1>a, <2>7 DEF Goto, PC
  <2> QED
      BY <1>0, <2>1, <2>6, <2>9, <2>10
<1>9. ASSUME NEW r \in Requests, NEW a \in Answers, Answer(r, a) PROVE Data' /\ Control'
  <2>1. /\ pc[r] = "sending" /\ a \in AnswerKind
        /\ asks' = asks /\ now' = now /\ stored' = stored
        /\ canceled' = canceled /\ route' = route
        /\ sends' = [sends EXCEPT ![r] = WithAnswer(@, a)]
      BY <1>0, <1>9, GatewayAssumption DEF Answer, WithAnswer
  <2>2. Len(sends[r]) > 0 /\ sends[r][Len(sends[r])].to = route[r] /\ route[r] \in Key
      BY <2>1 DEF RequestsSound, Sound, CallsOver, InPlan
  <2>3. WithAnswer(sends[r], a) \in Seq(Send)
      BY <1>0, <2>1, <2>2, AnswerRecorded
  <2>4. \/ /\ breakers' = [breakers EXCEPT ![route[r]] = AfterSuccess(@)]
           /\ reply' = [reply EXCEPT ![r] = [kind |-> "answer", body |-> route[r]]]
           /\ Goto(r, "store") /\ att' = att /\ skip' = skip
        \/ /\ breakers' = [breakers EXCEPT ![route[r]] = AfterFailure(@, now)]
           /\ AttemptFailed(r, CodeOf(a)) /\ reply' = reply
      BY <1>9, <2>2 DEF Answer, execution
  <2>5. /\ AfterSuccess(breakers[route[r]]) \in BreakerType(0..MaxTime)
        /\ AfterFailure(breakers[route[r]], now) \in BreakerType(0..MaxTime)
      BY <1>0, <1>t, <2>2, MethodTypes
  <2>6. breakers' \in [Key -> BreakerType(0..MaxTime)]
      BY <1>0, <2>4, <2>5
  <2>7. Control'
    <3>1. sends' \in [Requests -> Seq(Send)]
        BY <1>0, <2>1, <2>3
    <3>2. [kind |-> "answer", body |-> route[r]] \in Reply
        BY <2>2 DEF Reply, Kind
    <3>3. reply' \in [Requests -> Reply]
        BY <1>0, <2>4, <3>2
    <3>4. /\ pc' \in [Requests -> PC]
          /\ att' \in [Requests -> Nat \ {0}] /\ skip' \in [Requests -> BOOLEAN]
        BY <1>0, <1>a, <2>4 DEF Goto, PC
    <3> QED
        BY <1>0, <2>1, <3>1, <3>3, <3>4
  <2> QED
      BY <1>0, <2>1, <2>6, <2>7
<1>10. ASSUME NEW r \in Requests, Store(r) PROVE Data' /\ Control'
  <2>1. pc[r] = "store"
      BY <1>10 DEF Store
  <2>2. Len(sends[r]) > 0 /\ sends[r][Len(sends[r])].to = reply[r].body
      BY <2>1 DEF RequestsSound, Sound, Told
  <2>3. sends[r][Len(sends[r])] \in Send
      BY <1>0, <2>2, LenProperties
  <2>4. reply[r].body \in Key
      BY <2>2, <2>3 DEF Send
  <2>5. [by |-> reply[r].body, for |-> asks[r]] \in Response
    <3>1. asks[r] \in Model
        BY <1>0, GatewayAssumption
    <3> QED
        BY <2>4, <3>1 DEF Response, Key
  <2> QED
      BY <1>0, <1>10, <2>5 DEF Store, Goto, execution, PC
<1>11. ASSUME UNCHANGED vars PROVE Data' /\ Control'
    BY <1>0, <1>11 DEF vars
<1>15. Data' /\ Control'
  <2> HIDE DEF Data, Control
  <2> QED
      BY <1>1, <1>2, <1>3, <1>4, <1>6, <1>7, <1>8, <1>9, <1>10, <1>11, <1>12, <1>13, <1>14
      DEF Next, Handler, Terminated
<1>16. \A r \in Requests : \A i \in DOMAIN sends'[r] : sends'[r][i] \in Send
    BY <1>15
<1> QED
    BY <1>15, <1>16 DEF TypeOK, SendsTyped, Send, Reply

LEMMA SoundStep ==
  ASSUME TypeOK, SendsTyped, RequestsSound, [Next]_vars
  PROVE  RequestsSound'
<1> DEFINE Here(q) == Sound(pc'[q], route'[q], att'[q], skip'[q], reply'[q], sends'[q],
                            q \in canceled')
<1>1. ASSUME NEW r \in Requests, Handler(r), NEW q \in Requests PROVE Here(q)
  <2>1. canceled' = canceled
      BY <1>1
      DEF Handler, LookupHit, LookupMiss, RouteError, Route, Exhausted, ContextDone,
          NextAttempt, BackoffOver, ProviderNotFound, Call, Answer, Store
  <2>2. CASE q = r
      BY <1>1, <2>1, <2>2, HandlerSound
  <2>3. CASE q # r
      BY <1>1, <2>1, <2>3, OthersKept DEF RequestsSound
  <2> QED
      BY <2>2, <2>3
<1>2. ASSUME NEW r \in Requests, Cancel(r), NEW q \in Requests PROVE Here(q)
  <2>1. /\ pc'[q] = pc[q] /\ route'[q] = route[q] /\ att'[q] = att[q]
        /\ skip'[q] = skip[q] /\ reply'[q] = reply[q] /\ sends'[q] = sends[q]
        /\ canceled' = canceled \cup {r}
      BY <1>2 DEF Cancel, execution
  <2> DEFINE gone == q \in canceled
             Now(g) == Sound(pc[q], route[q], att[q], skip[q], reply[q], sends[q], g)
  <2>2. Now(gone) /\ gone \in BOOLEAN
      BY DEF RequestsSound
  <2>3. (q \in canceled') = gone \/ (q \in canceled') = TRUE
      BY <2>1
  <2> HIDE DEF gone
  <2>4. Now(TRUE)
      BY <2>2, SoundGone
  <2>5. CASE (q \in canceled') = gone
      BY <2>1, <2>2, <2>5
  <2>6. CASE (q \in canceled') = TRUE
      BY <2>1, <2>4, <2>6
  <2> QED
      BY <2>3, <2>5, <2>6
<1>3. ASSUME Tick \/ UNCHANGED vars, NEW q \in Requests PROVE Here(q)
    BY <1>3 DEF Tick, vars, execution, RequestsSound
<1>4. ASSUME NEW q \in Requests PROVE Here(q)
  <2> HIDE DEF Here
  <2> QED
      BY <1>1, <1>2, <1>3 DEF Next, Terminated
<1> QED
    BY <1>4 DEF RequestsSound

\* A handler that has its answer from a provider changes neither the answer nor
\* the history behind it.
LEMMA AnswerKept ==
  ASSUME TypeOK, SendsTyped, RequestsSound, [Next]_vars,
         NEW r \in Requests, reply[r].kind = "answer"
  PROVE  reply'[r] = reply[r] /\ sends'[r] = sends[r]
<1>1. pc[r] \in {"store", "done"}
    BY RequestTypes DEF RequestsSound, Sound, Told, PC
<1>2. ASSUME Handler(r) PROVE reply' = reply /\ sends' = sends
    BY <1>1, <1>2
    DEF Handler, LookupHit, LookupMiss, RouteError, Route, Exhausted, ContextDone,
        NextAttempt, BackoffOver, ProviderNotFound, Call, Answer, Store
<1>3. ASSUME NEW q \in Requests, Handler(q), q # r
      PROVE  reply'[r] = reply[r] /\ sends'[r] = sends[r]
    BY <1>3, OthersKept
<1>4. ASSUME NEW q \in Requests, Cancel(q) PROVE reply' = reply /\ sends' = sends
    BY <1>4 DEF Cancel
<1>5. ASSUME Tick \/ UNCHANGED vars PROVE reply' = reply /\ sends' = sends
    BY <1>5 DEF Tick, vars
<1>6. \/ Tick \/ UNCHANGED vars
      \/ \E q \in Requests : Handler(q) \/ Cancel(q)
    BY Zenon DEF Next, Terminated
<1>7. ASSUME NEW q \in Requests, Handler(q) \/ Cancel(q)
      PROVE  reply'[r] = reply[r] /\ sends'[r] = sends[r]
  <2>1. CASE q = r
      BY <1>2, <1>4, <1>7, <2>1
  <2>2. CASE q # r
      BY <1>3, <1>4, <1>7, <2>2
  <2> QED
      BY <2>1, <2>2
<1> QED
    BY <1>5, <1>6, <1>7

\* The model a request names is fixed.
LEMMA AsksKept == ASSUME [Next]_vars PROVE asks' = asks
  BY DEF Next, Terminated, vars, Tick, Cancel, Handler, LookupHit, LookupMiss, RouteError,
         Route, Exhausted, ContextDone, NextAttempt, BackoffOver, ProviderNotFound, Call,
         Answer, Store

\* The cache grows by the response a provider answered, and by nothing else.
LEMMA StoredStep ==
  ASSUME TypeOK, SendsTyped, RequestsSound, StoredWereAnswered, [Next]_vars
  PROVE  StoredWereAnswered'
<1> DEFINE Behind(e, rep, ask, s, r) ==
             rep[r] = [kind |-> "answer", body |-> e.by] /\ ask[r] = e.for
               /\ s[r][Len(s[r])].got = "ok"
<1>1. ASSUME NEW e, NEW r \in Requests, Behind(e, reply, asks, sends, r)
      PROVE  Behind(e, reply', asks', sends', r)
  <2>1. reply[r].kind = "answer"
      BY <1>1
  <2>2. reply'[r] = reply[r] /\ sends'[r] = sends[r] /\ asks' = asks
      BY <2>1, AnswerKept, AsksKept
  <2> QED
      BY <1>1, <2>2
<1>2. \A e \in stored : \E r \in Requests : Behind(e, reply, asks, sends, r)
    BY DEF StoredWereAnswered
<1>3. ASSUME NEW r \in Requests, Store(r)
      PROVE  LET e == [by |-> reply[r].body, for |-> asks[r]] IN
               stored' = stored \cup {e} /\ Behind(e, reply, asks, sends, r)
  <2>1. pc[r] = "store"
      BY <1>3 DEF Store
  <2>2. reply[r].kind = "answer" /\ sends[r][Len(sends[r])].got = "ok"
      BY <2>1 DEF RequestsSound, Sound, Told
  <2>3. reply[r] = [kind |-> "answer", body |-> reply[r].body]
      BY <2>2, RequestTypes DEF Reply
  <2> QED
      BY <1>3, <2>2, <2>3 DEF Store
<1>4. \/ stored' = stored
      \/ \E r \in Requests : Store(r)
    BY DEF Next, Terminated, vars, Tick, Cancel, Handler, LookupHit, LookupMiss, RouteError,
           Route, Exhausted, ContextDone, NextAttempt, BackoffOver, ProviderNotFound, Call,
           Answer
<1>5. ASSUME NEW e \in stored' PROVE \E r \in Requests : Behind(e, reply, asks, sends, r)
  <2> HIDE DEF Behind
  <2> QED
      BY <1>2, <1>3, <1>4
<1>6. ASSUME NEW e \in stored' PROVE \E r \in Requests : Behind(e, reply', asks', sends', r)
  <2> HIDE DEF Behind
  <2> QED
      BY <1>1, <1>5
<1> QED
    BY <1>6 DEF StoredWereAnswered

-----------------------------------------------------------------------------
(***************************************************************************)
(* The breakers and the calls of all requests                              *)
(***************************************************************************)

\* What the methods of a breaker do to its account.
LEMMA HoldsAfter ==
  ASSUME NEW t \in 0..MaxTime, NEW b \in BreakerType(0..MaxTime),
         NEW blamed, Holds(b, blamed)
  PROVE  /\ Holds(AfterAllow(b, t), blamed)
         /\ Holds(AfterSuccess(b), blamed)
         /\ \A x : x \notin blamed => Holds(AfterFailure(b, t), blamed \cup {x})
<1>t. 0..MaxTime \in SUBSET Nat
    BY GatewayAssumption
<1>b. b.failures \in Nat /\ Threshold \in Int
    BY BreakerAssumption DEF BreakerType
<1>c. /\ IsFiniteSet(blamed) /\ Cardinality(blamed) \in Nat
      /\ b.failures <= Cardinality(blamed)
      /\ b.state # "Closed" => Cardinality(blamed) >= Threshold
    BY FS_CardinalityType DEF Holds
<1>1. Holds(AfterAllow(b, t), blamed)
  <2>1. /\ AfterAllow(b, t).failures = b.failures
        /\ AfterAllow(b, t).state = b.state \/ b.state = "Open"
      BY <1>t, AllowEffect
  <2>2. AfterAllow(b, t).state # "Closed" => b.state # "Closed"
      BY <2>1
  <2> QED
      BY <1>c, <2>1, <2>2 DEF Holds
<1>2. Holds(AfterSuccess(b), blamed)
  <2>1. AfterSuccess(b).failures = 0 /\ AfterSuccess(b).state = "Closed"
      BY <1>t, SuccessEffect
  <2> QED
      BY <1>c, <2>1 DEF Holds
<1>3. ASSUME NEW x, x \notin blamed PROVE Holds(AfterFailure(b, t), blamed \cup {x})
  <2>1. /\ AfterFailure(b, t).failures = b.failures + 1
        /\ b.failures + 1 >= Threshold \/ AfterFailure(b, t).state = b.state
      BY <1>t, FailureEffect
  <2>2. /\ IsFiniteSet(blamed \cup {x})
        /\ Cardinality(blamed \cup {x}) = Cardinality(blamed) + 1
      BY <1>c, <1>3, FS_AddElement
  <2>3. AfterFailure(b, t).failures <= Cardinality(blamed \cup {x})
      BY <1>b, <1>c, <2>1, <2>2
  <2>4. AfterFailure(b, t).state # "Closed" => Cardinality(blamed \cup {x}) >= Threshold
      BY <1>b, <1>c, <2>1, <2>2
  <2> QED
      BY <2>2, <2>3, <2>4 DEF Holds
<1> QED
    BY <1>1, <1>2, <1>3

\* From the history h to the history g, only the n-th call of r has begun or
\* changed: old is what r had called, new is what it has called now.
Differ(h, g, r, n, old, new) ==
  /\ h[r] = old /\ g[r] = new /\ \A q \in Requests : q # r => g[q] = h[q]
  /\ n \in 1..1 + RetryMax /\ old \in Seq(Send) /\ new \in Seq(Send)
  /\ Len(new) = n /\ (Len(old) = n - 1 \/ Len(old) = n)
  /\ \A i \in 1..n - 1 : new[i] = old[i]
  /\ Len(old) = n => ~Failed(old[n])

\* Then the failed calls are the same, but for the n-th if that failed now.
LEMMA BlamedChange ==
  ASSUME NEW h, NEW g, NEW r \in Requests, NEW k, NEW n, NEW old, NEW new,
         Differ(h, g, r, n, old, new)
  PROVE  /\ <<r, n>> \notin Blamed(h, k)
         /\ new[n].to = k /\ Failed(new[n]) => Blamed(g, k) = Blamed(h, k) \cup {<<r, n>>}
         /\ ~(new[n].to = k /\ Failed(new[n])) => Blamed(g, k) = Blamed(h, k)
<1> DEFINE bad(s, i) == i \in DOMAIN s /\ s[i].to = k /\ Failed(s[i])
<1>d. /\ h[r] = old /\ g[r] = new /\ (\A q \in Requests : q # r => g[q] = h[q])
      /\ n \in 1..1 + RetryMax /\ old \in Seq(Send) /\ new \in Seq(Send)
      /\ Len(new) = n /\ (Len(old) = n - 1 \/ Len(old) = n)
      /\ (\A i \in 1..n - 1 : new[i] = old[i])
      /\ (Len(old) = n => ~Failed(old[n]))
    BY DEF Differ
<1>1. \A q \in Requests, i \in 1..1 + RetryMax :
        /\ <<q, i>> \in Blamed(h, k) <=> bad(h[q], i)
        /\ <<q, i>> \in Blamed(g, k) <=> bad(g[q], i)
    BY DEF Blamed
<1>2. RetryMax \in Nat /\ n \in Nat \ {0}
    BY <1>d, FallbackAssumption
<1> DEFINE L == Len(old)
<1>3. DOMAIN new = 1..n /\ DOMAIN old = 1..L /\ L \in Nat /\ (L = n - 1 \/ L = n)
    BY <1>d, LenProperties
<1> HIDE DEF L
<1>a. n \in 1..n /\ (n \in 1..L => L = n)
    BY <1>2, <1>3
<1>4. n \in DOMAIN new /\ (n \in DOMAIN old => Len(old) = n)
    BY <1>3, <1>a DEF L
<1>5. ~bad(old, n) /\ (bad(new, n) <=> new[n].to = k /\ Failed(new[n]))
    BY <1>d, <1>4
<1>6. ASSUME NEW i \in 1..1 + RetryMax, i # n
      PROVE  bad(new, i) <=> bad(old, i)
  <2>1. (i \in 1..n <=> i \in 1..n - 1) /\ (i \in 1..L <=> i \in 1..n - 1)
      BY <1>2, <1>3, <1>6
  <2>2. CASE i \in 1..n - 1
      BY <1>d, <1>3, <2>1, <2>2
  <2>3. CASE i \notin 1..n - 1
      BY <1>3, <2>1, <2>3
  <2> QED
      BY <2>2, <2>3
<1> HIDE DEF bad
<1>7. /\ <<r, n>> \notin Blamed(h, k)
      /\ <<r, n>> \in Blamed(g, k) <=> new[n].to = k /\ Failed(new[n])
    BY <1>1, <1>5, <1>d
<1>8. ASSUME NEW c \in Requests \X (1..1 + RetryMax), c # <<r, n>>
      PROVE  c \in Blamed(g, k) <=> c \in Blamed(h, k)
  <2>1. PICK q \in Requests, i \in 1..1 + RetryMax : c = <<q, i>>
      OBVIOUS
  <2>2. CASE q # r
      BY <1>1, <1>d, <2>1, <2>2
  <2>3. CASE q = r
    <3>1. i # n
        BY <1>8, <2>1, <2>3
    <3> QED
        BY <1>1, <1>6, <1>d, <2>1, <2>3, <3>1
  <2> QED
      BY <2>2, <2>3
<1>9. /\ Blamed(g, k) \subseteq Requests \X (1..1 + RetryMax)
      /\ Blamed(h, k) \subseteq Requests \X (1..1 + RetryMax)
      /\ <<r, n>> \in Requests \X (1..1 + RetryMax)
    BY <1>d DEF Blamed
<1>10. ASSUME new[n].to = k /\ Failed(new[n])
       PROVE  Blamed(g, k) = Blamed(h, k) \cup {<<r, n>>}
    BY <1>7, <1>8, <1>9, <1>10
<1>11. ASSUME ~(new[n].to = k /\ Failed(new[n]))
       PROVE  Blamed(g, k) = Blamed(h, k)
  <2>1. <<r, n>> \notin Blamed(g, k) /\ <<r, n>> \notin Blamed(h, k)
      BY <1>7, <1>11
  <2> QED
      BY <1>8, <1>9, <2>1
<1> QED
    BY <1>7, <1>10, <1>11

\* Every breaker's account stays covered.
LEMMA BreakersStep ==
  ASSUME TypeOK, SendsTyped, RequestsSound, BreakersHold, [Next]_vars
  PROVE  BreakersHold'
<1> DEFINE Here(k) == Holds(breakers'[k], Blamed(sends', k))
<1>t. /\ breakers \in [Key -> BreakerType(0..MaxTime)] /\ now \in 0..MaxTime
      /\ sends \in [Requests -> Seq(Send)]
    BY DEF TypeOK, SendsTyped
<1>h. ASSUME NEW k \in Key
      PROVE  Holds(breakers[k], Blamed(sends, k)) /\ breakers[k] \in BreakerType(0..MaxTime)
    BY <1>t DEF BreakersHold
<1>a. ASSUME NEW j \in Key, breakers' = [breakers EXCEPT ![j] = AfterAllow(@, now)],
             NEW k \in Key, Blamed(sends', k) = Blamed(sends, k)
      PROVE  Here(k)
  <2>1. Holds(AfterAllow(breakers[k], now), Blamed(sends, k))
      BY <1>t, <1>h, HoldsAfter
  <2>2. breakers'[k] = breakers[k] \/ breakers'[k] = AfterAllow(breakers[k], now)
      BY <1>t, <1>a
  <2> QED
      BY <1>a, <1>h, <2>1, <2>2
<1>1. ASSUME NEW r \in Requests, Route(r), NEW k \in Key PROVE Here(k)
  <2>1. Routes[asks[r]] \subseteq Key /\ sends' = sends
      BY <1>1, GatewayAssumption DEF Route, TypeOK, Key
  <2>2. PICK j \in Key : breakers' = [breakers EXCEPT ![j] = AfterAllow(@, now)]
      BY <1>1, <2>1 DEF Route
  <2> QED
      BY <1>a, <2>1, <2>2
<1>2. ASSUME NEW r \in Requests, Call(r), NEW k \in Key PROVE Here(k)
  <2>1. pc[r] = "call" /\ Plan(r)[att[r]].provider \in Registry
      BY <1>2 DEF Call
  <2>2. /\ route[r] \in Key /\ Plan(r)[att[r]].level = LevelAt(att[r])
        /\ <<Plan(r)[att[r]].provider, Plan(r)[att[r]].model>> = route[r]
        /\ att[r] \in Nat \ {0} /\ att[r] <= 1 + RetryMax
      BY <2>1, CallKey, RequestTypes
  <2>3. breakers' = [breakers EXCEPT ![route[r]] = AfterAllow(@, now)]
      BY <1>2, <2>2 DEF Call
  <2> DEFINE new == [to |-> route[r], level |-> LevelAt(att[r]), got |-> "pending",
                     late |-> r \in canceled]
             old == sends[r]
  <2>4. sends' = sends \/ sends' = [sends EXCEPT ![r] = Append(@, new)]
      BY <1>2, <2>2 DEF Call
  <2>5. CASE sends' = [sends EXCEPT ![r] = Append(@, new)]
    <3>1. new \in Send /\ ~Failed(new)
        BY <2>2 DEF Send, LevelAt, Level, Failed
    <3>2. old \in Seq(Send) /\ Len(old) \in Nat /\ Len(old) <= att[r] - 1
        BY <1>t, <2>1 DEF RequestsSound, Sound, Counted
    <3> DEFINE s == Append(old, new)
               n == Len(old) + 1
    <3> HIDE DEF new, old
    <3>3. /\ s \in Seq(Send) /\ Len(s) = n /\ s[n] = new
          /\ \A i \in 1..n - 1 : s[i] = old[i]
        BY <3>1, <3>2, AppendProperties
    <3>4. n \in 1..1 + RetryMax /\ Len(old) = n - 1 /\ Len(old) # n
        BY <2>2, <3>2, FallbackAssumption
    <3>5. sends'[r] = s /\ \A q \in Requests : q # r => sends'[q] = sends[q]
        BY <1>t, <2>5 DEF old
    <3> HIDE DEF s, n
    <3>6. Blamed(sends', k) = Blamed(sends, k)
      <4>1. sends[r] = old
          BY DEF old
      <4>2. Differ(sends, sends', r, n, old, s)
          BY <3>2, <3>3, <3>4, <3>5, <4>1 DEF Differ
      <4>3. ~Failed(s[n])
          BY <3>1, <3>3
      <4>4. /\ <<r, n>> \notin Blamed(sends, k)
            /\ s[n].to = k /\ Failed(s[n]) =>
                 Blamed(sends', k) = Blamed(sends, k) \cup {<<r, n>>}
            /\ ~(s[n].to = k /\ Failed(s[n])) => Blamed(sends', k) = Blamed(sends, k)
          BY <4>2, BlamedChange
      <4> QED
          BY <4>3, <4>4
    <3> QED
        BY <1>a, <2>2, <2>3, <3>6
  <2>6. CASE sends' = sends
      BY <1>a, <2>2, <2>3, <2>6
  <2> QED
      BY <2>4, <2>5, <2>6
<1>3. ASSUME NEW r \in Requests, NEW a \in Answers, Answer(r, a), NEW k \in Key PROVE Here(k)
  <2> DEFINE old == sends[r]
             n == Len(old)
             s == WithAnswer(old, a)
  <2>1. pc[r] = "sending" /\ a \in AnswerKind
      BY <1>3, GatewayAssumption DEF Answer
  <2>2. /\ n > 0 /\ old[n].got = "pending" /\ old[n].to = route[r] /\ route[r] \in Key
        /\ n <= 1 + RetryMax
      BY <2>1 DEF RequestsSound, Sound, CallsOver, InPlan, Counted
  <2>3. old \in Seq(Send) /\ n \in Nat
      BY <1>t
  <2>4. sends' = [sends EXCEPT ![r] = s]
      BY <1>t, <1>3 DEF Answer, WithAnswer
  <2>5. \/ a = "ok" /\ breakers' = [breakers EXCEPT ![route[r]] = AfterSuccess(@)]
        \/ a # "ok" /\ breakers' = [breakers EXCEPT ![route[r]] = AfterFailure(@, now)]
      BY <1>3, <2>2 DEF Answer
  <2> HIDE DEF old, s
  <2>6. /\ s \in Seq(Send) /\ Len(s) = n /\ \A i \in 1..n - 1 : s[i] = old[i]
        /\ s[n].got = a /\ s[n].to = route[r]
      BY <2>1, <2>2, <2>3, AnswerRecorded DEF s
  <2> HIDE DEF n
  <2>7. ~Failed(old[n]) /\ (Failed(s[n]) <=> a # "ok")
      BY <2>1, <2>2, <2>6 DEF Failed, AnswerKind
  <2>8. n \in 1..1 + RetryMax
      BY <2>2, <2>3, FallbackAssumption
  <2>9. /\ <<r, n>> \notin Blamed(sends, k)
        /\ s[n].to = k /\ Failed(s[n]) => Blamed(sends', k) = Blamed(sends, k) \cup {<<r, n>>}
        /\ ~(s[n].to = k /\ Failed(s[n])) => Blamed(sends', k) = Blamed(sends, k)
    <3>1. /\ sends[r] = old /\ sends'[r] = s /\ Len(old) = n
          /\ \A q \in Requests : q # r => sends'[q] = sends[q]
        BY <1>t, <2>4 DEF old, n
    <3>2. Differ(sends, sends', r, n, old, s)
        BY <2>3, <2>6, <2>7, <2>8, <3>1 DEF Differ
    <3> QED
        BY <3>2, BlamedChange
  <2>10. /\ Holds(AfterSuccess(breakers[k]), Blamed(sends, k))
         /\ Holds(AfterFailure(breakers[k], now), Blamed(sends, k) \cup {<<r, n>>})
      BY <1>t, <1>h, <2>9, HoldsAfter
  <2>11. CASE k # route[r]
    <3>1. breakers'[k] = breakers[k] /\ Blamed(sends', k) = Blamed(sends, k)
        BY <1>t, <2>5, <2>6, <2>9, <2>11
    <3> QED
        BY <1>h, <3>1
  <2>12. CASE k = route[r] /\ a = "ok"
    <3>1. breakers'[k] = AfterSuccess(breakers[k]) /\ Blamed(sends', k) = Blamed(sends, k)
        BY <1>t, <2>5, <2>6, <2>7, <2>9, <2>12
    <3> QED
        BY <2>10, <3>1
  <2>13. CASE k = route[r] /\ a # "ok"
    <3>1. /\ breakers'[k] = AfterFailure(breakers[k], now)
          /\ Blamed(sends', k) = Blamed(sends, k) \cup {<<r, n>>}
        BY <1>t, <2>5, <2>6, <2>7, <2>9, <2>13
    <3> QED
        BY <2>10, <3>1
  <2> QED
      BY <2>11, <2>12, <2>13
<1>4. \/ breakers' = breakers /\ sends' = sends
      \/ \E r \in Requests : Route(r) \/ Call(r) \/ \E a \in Answers : Answer(r, a)
    BY DEF Next, Terminated, vars, Tick, Cancel, Handler, LookupHit, LookupMiss, RouteError,
           Exhausted, ContextDone, NextAttempt, BackoffOver, ProviderNotFound, Store
<1>5. ASSUME NEW k \in Key PROVE Here(k)
  <2>1. CASE breakers' = breakers /\ sends' = sends
      BY <1>h, <2>1
  <2> HIDE DEF Here
  <2> QED
      BY <1>1, <1>2, <1>3, <1>4, <2>1
<1> QED
    BY <1>5 DEF BreakersHold

LEMMA IInvStep == IInv /\ [Next]_vars => IInv'
  BY TypeStep, SoundStep, StoredStep, BreakersStep DEF IInv

LEMMA Invariant == Spec => []IInv
<1>1. Init => IInv
    BY IInvInit
<1>2. IInv /\ [Next]_vars => IInv'
    BY IInvStep
<1> QED
    BY <1>1, <1>2, PTL DEF Spec

-----------------------------------------------------------------------------
(***************************************************************************)
(* The theorems                                                            *)
(***************************************************************************)

\* The type invariant of Gateway.tla, for any requests, providers and answers.
THEOREM TypeCorrect == Spec => []TypeOK
<1>1. IInv => TypeOK
    BY DEF IInv
<1> QED
    BY <1>1, Invariant, PTL

\* A client is told what happened to its request: what the handler returns
\* matches the calls it made.
THEOREM AnswersMatch == Spec => []AnswersMatchCalls
<1>1. IInv => AnswersMatchCalls
  <2> SUFFICES ASSUME IInv, NEW r \in Requests
               PROVE  LET s == sends[r] IN
      CASE reply[r].kind = "answer" ->
             /\ s # <<>> /\ s[Len(s)].got = "ok" /\ s[Len(s)].to = reply[r].body
             /\ \A i \in 1..Len(s) - 1 : Failed(s[i])
        [] reply[r].kind = "canned" -> \A i \in DOMAIN s : Failed(s[i])
        [] reply[r].kind \in {"circuit_open", "no_route", "cached"} -> s = <<>>
        [] reply[r].kind = "canceled" ->
             r \in canceled /\ \A i \in DOMAIN s : Failed(s[i])
        [] OTHER -> pc[r] # "done"
      BY DEF AnswersMatchCalls
  <2>1. Told(pc[r], reply[r], sends[r], r \in canceled)
      BY DEF IInv, RequestsSound, Sound
  <2>2. sends[r] \in Seq(Send) /\ DOMAIN sends[r] = 1..Len(sends[r])
        /\ reply[r].kind \in Kind
      BY RequestTypes DEF IInv, Reply
  <2> QED
      BY <2>1, <2>2 DEF Told, Kind
<1> QED
    BY <1>1, Invariant, PTL

\* One request costs its provider at most one call and RetryMax retries, and no
\* retry follows a primary call whose error cannot be retried.
THEOREM RetriesBounded == Spec => []RetryBudget
<1>1. IInv => RetryBudget
  <2> SUFFICES ASSUME IInv, NEW r \in Requests
               PROVE  LET s == sends[r] IN
      /\ Cardinality({i \in DOMAIN s : s[i].level # "fallback"}) <= 1 + RetryMax
      /\ \A i, j \in DOMAIN s :
           /\ s[i].level = "primary" /\ Failed(s[i]) /\ ~IsRetryable(CodeOf(s[i].got))
           => s[j].level # "retry"
      BY DEF RetryBudget
  <2> DEFINE s == sends[r]
             calls == {i \in DOMAIN s : s[i].level # "fallback"}
  <2>1. /\ Len(s) \in Nat /\ DOMAIN s = 1..Len(s) /\ Len(s) <= 1 + RetryMax
        /\ RetryMax \in Nat
    <3>1. Len(s) <= 1 + RetryMax
        BY DEF IInv, RequestsSound, Sound, Counted
    <3> QED
        BY <3>1, RequestTypes, FallbackAssumption DEF IInv
  <2>2. \A i, j \in DOMAIN s : NotRetryable(s[i]) => s[j].level # "retry"
      BY <2>1 DEF IInv, RequestsSound, Sound, SkipKept
  <2>3. Cardinality(calls) <= 1 + RetryMax
    <3>1. IsFiniteSet(DOMAIN s) /\ Cardinality(DOMAIN s) = Len(s)
      <4>1. IsFiniteSet(1..Len(s)) /\ Cardinality(1..Len(s)) = Len(s)
          BY <2>1, FS_Interval
      <4> QED
          BY <2>1, <4>1
    <3>2. calls \in SUBSET DOMAIN s
        OBVIOUS
    <3>3. IsFiniteSet(calls) /\ Cardinality(calls) <= Len(s)
        BY <3>1, <3>2, FS_Subset
    <3>4. Cardinality(calls) \in Nat
        BY <3>3, FS_CardinalityType
    <3> QED
        BY <2>1, <3>3, <3>4
  <2> QED
      BY <2>2, <2>3 DEF NotRetryable
<1> QED
    BY <1>1, Invariant, PTL

\* A client that goes away costs the providers at most one more call.
THEOREM CancelIsCheap == Spec => []CancelCostsOneCall
<1>1. IInv => CancelCostsOneCall
  <2> SUFFICES ASSUME IInv, NEW r \in Requests
               PROVE  Cardinality({i \in DOMAIN sends[r] : sends[r][i].late}) <= 1
      BY DEF CancelCostsOneCall
  <2> DEFINE s == sends[r]
             late == {i \in DOMAIN s : s[i].late}
  <2>1. DOMAIN s = 1..Len(s)
      BY RequestTypes DEF IInv
  <2>2. late \in SUBSET {Len(s)}
      BY <2>1 DEF IInv, RequestsSound, Sound, LateLast
  <2>3. IsFiniteSet({Len(s)}) /\ Cardinality({Len(s)}) = 1
      BY FS_Singleton
  <2>4. Cardinality(late) <= 1
      BY <2>2, <2>3, FS_Subset
  <2> QED
      BY <2>4
<1> QED
    BY <1>1, Invariant, PTL

\* The cache holds only what a provider answered to a request of that model.
THEOREM StoredAreAnswers == Spec => []StoredWereAnswered
<1>1. IInv => StoredWereAnswered
    BY DEF IInv
<1> QED
    BY <1>1, Invariant, PTL

\* A breaker counts only calls to its provider and model that failed, each once,
\* and stops admitting only after Threshold of them.
THEOREM BlameIsDeserved == Spec => []BreakersBlameCalls
<1>1. IInv => BreakersBlameCalls
    BY DEF IInv, BreakersHold, Holds, BreakersBlameCalls
<1> QED
    BY <1>1, Invariant, PTL
=============================================================================
