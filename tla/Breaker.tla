------------------------------ MODULE Breaker ------------------------------
(***************************************************************************)
(* The value of one CircuitBreaker of internal/decision/circuitbreaker.go  *)
(* and what its three methods do to it.  Every method runs under cb.mu, so *)
(* each is one operator from the breaker and the clock to a new breaker.   *)
(* The module has no variables: CircuitBreaker.tla gives one breaker its   *)
(* callers, Gateway.tla keeps one breaker per provider and model.          *)
(***************************************************************************)
EXTENDS Integers

CONSTANTS Threshold,  \* cb.threshold, any int the configuration holds
          Cooldown    \* cb.cooldown, in ticks of the clock

ASSUME BreakerAssumption == Threshold \in Int /\ Cooldown \in Int

CircuitState == {"Closed", "Open", "HalfOpen"}

BreakerType(time) == [state: CircuitState, failures: Nat, openedAt: time]

\* openedAt is the zero time.Time: it is not read before a first opening.
NewCircuitBreaker == [state |-> "Closed", failures |-> 0, openedAt |-> 0]

\* mutant: the cooldown ends one tick early.
CooldownAlmostOver(b, now) == now - b.openedAt >= Cooldown - 1

CooldownOver(b, now) == now - b.openedAt >= Cooldown

\* What Allow() returns.
Allows(b, now) == b.state = "Open" => CooldownOver(b, now)

\* mutant: the half-open state starts with a clean count.
AllowForgetsFailures(b, now) ==
  IF b.state = "Open" /\ CooldownOver(b, now)
  THEN [b EXCEPT !.state = "HalfOpen", !.failures = 0]
  ELSE b

\* mutant: a rejected call counts as one more failure.
AllowCountsRejection(b, now) ==
  IF b.state # "Open" THEN b
  ELSE IF CooldownOver(b, now) THEN [b EXCEPT !.state = "HalfOpen"]
  ELSE [b EXCEPT !.failures = @ + 1]

\* What Allow() leaves behind.
AfterAllow(b, now) ==
  IF b.state = "Open" /\ CooldownOver(b, now)
  THEN [b EXCEPT !.state = "HalfOpen"]
  ELSE b

\* mutant: a success makes up for one failure.
SuccessDecrements(b) == [b EXCEPT !.failures = @ - 1, !.state = "Closed"]

\* mutant: only a probe resets the count.
OnlyProbeResets(b) ==
  IF b.state = "HalfOpen" THEN [b EXCEPT !.failures = 0, !.state = "Closed"] ELSE b

AfterSuccess(b) == [b EXCEPT !.failures = 0, !.state = "Closed"]

\* mutant: one failure too many is needed.
FailureAboveThreshold(b, now) ==
  IF b.failures + 1 > Threshold
  THEN [state |-> "Open", failures |-> b.failures + 1, openedAt |-> now]
  ELSE [b EXCEPT !.failures = @ + 1]

\* mutant: a failure of a breaker that is open already keeps its time.
FailureKeepsOpenedAt(b, now) ==
  IF b.failures + 1 >= Threshold
  THEN [state |-> "Open", failures |-> b.failures + 1,
        openedAt |-> IF b.state = "Closed" THEN now ELSE b.openedAt]
  ELSE [b EXCEPT !.failures = @ + 1]

AfterFailure(b, now) ==
  IF b.failures + 1 >= Threshold
  THEN [state |-> "Open", failures |-> b.failures + 1, openedAt |-> now]
  ELSE [b EXCEPT !.failures = @ + 1]
=============================================================================
