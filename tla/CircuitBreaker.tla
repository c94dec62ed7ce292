--------------------------- MODULE CircuitBreaker ---------------------------
(***************************************************************************)
(* One circuit breaker of the gateway and the requests that share it       *)
(* (decision/circuitbreaker.go, called through the CircuitBreakerManager   *)
(* of ingress/service.go).  A caller asks Allow(); once admitted it may    *)
(* record a success, record failures (a stream records one per error       *)
(* chunk), or leave without recording anything, as HandleChatCompletion    *)
(* does with the Allow() it asks before the fallback engine runs.  The     *)
(* calls of different requests interleave freely, so an answer may be      *)
(* recorded long after the breaker that admitted its request has opened.   *)
(***************************************************************************)
EXTENDS Breaker

CONSTANTS Callers,      \* concurrent requests for this provider and model
          MaxTime,      \* bound: the clock stops here
          MaxFailures   \* bound: failures recorded without a success between

ASSUME BoundsAssumption == MaxTime \in Nat /\ MaxFailures \in Nat

VARIABLES cb,        \* the breaker
          now,       \* the clock
          call,      \* what each caller is doing
          streak,    \* history: failures recorded since the last success
          failedAt   \* history: time of the last failure

vars == <<cb, now, call, streak, failedAt>>

Phase == {"idle", "admitted", "rejected", "failed"}

TypeOK == /\ cb \in BreakerType(0..MaxTime)
          /\ now \in 0..MaxTime
          /\ call \in [Callers -> Phase]
          /\ streak \in Nat
          /\ failedAt \in 0..MaxTime

Init == /\ cb = NewCircuitBreaker
        /\ now = 0
        /\ call = [c \in Callers |-> "idle"]
        /\ streak = 0
        /\ failedAt = 0

Tick == /\ now < MaxTime
        /\ now' = now + 1
        /\ UNCHANGED <<cb, call, streak, failedAt>>

Allow(c) ==
  /\ call[c] = "idle"
  /\ call' = [call EXCEPT ![c] = IF Allows(cb, now) THEN "admitted" ELSE "rejected"]
  /\ cb' = AfterAllow(cb, now)
  /\ UNCHANGED <<now, streak, failedAt>>

RecordSuccess(c) ==
  /\ call[c] = "admitted"
  /\ call' = [call EXCEPT ![c] = "idle"]
  /\ cb' = AfterSuccess(cb)
  /\ streak' = 0
  /\ UNCHANGED <<now, failedAt>>

RecordFailure(c) ==
  /\ call[c] \in {"admitted", "failed"}
  /\ streak < MaxFailures
  /\ call' = [call EXCEPT ![c] = "failed"]
  /\ cb' = AfterFailure(cb, now)
  /\ streak' = streak + 1
  /\ failedAt' = now
  /\ UNCHANGED now

Leave(c) ==
  /\ call[c] # "idle"
  /\ call' = [call EXCEPT ![c] = "idle"]
  /\ UNCHANGED <<cb, now, streak, failedAt>>

Next == \/ Tick
        \/ \E c \in Callers : \/ Allow(c)
                              \/ RecordSuccess(c)
                              \/ RecordFailure(c)
                              \/ Leave(c)

Spec == Init /\ [][Next]_vars

-----------------------------------------------------------------------------
(***************************************************************************)
(* Properties                                                              *)
(***************************************************************************)

\* Once Threshold failures have been recorded without a success between, the
\* breaker is not Closed, whatever the order in which late answers arrive; and
\* a breaker that is not Closed has such a run of failures behind it.
ClosedBelowThreshold ==
  (cb.state = "Closed") = (streak = 0 \/ streak < Threshold)

\* The half-open state is entered only when the cooldown since the last failure
\* is over, and no failure is recorded while it lasts.
HalfOpenAfterCooldown ==
  cb.state = "HalfOpen" => now - failedAt >= Cooldown

\* What a reader of the code relies on: with Threshold failures since the last
\* success, nobody is let through before the cooldown since the most recent
\* of them is over.
CooldownRespected ==
  [][\A c \in Callers :
       /\ streak > 0 /\ streak >= Threshold
       /\ call[c] = "idle" /\ call'[c] = "admitted"
       => now - failedAt >= Cooldown]_vars

\* While the breaker is HalfOpen one recorded failure is enough to open it
\* again, and its cooldown starts afresh at that failure: AfterFailure has no
\* case for HalfOpen, so this rests on failures never being reset before.
ProbeFailureReopens ==
  [][cb.state = "HalfOpen" /\ streak' > streak
       => cb'.state = "Open" /\ cb'.openedAt = now]_vars

\* The callers see the stateless gate of BreakerContract.  The gate is mapped to
\* the history, not to the fields of the breaker: a success that failed to reset
\* the counter could pass for a caller that left.
Contract == INSTANCE BreakerContract WITH streak <- streak, failedAt <- failedAt

ContractSpec == Contract!Spec
=============================================================================
