------------------------------ MODULE Fallback ------------------------------
(***************************************************************************)
(* The fallback engine of internal/fallback/engine.go: the plan of         *)
(* attempts it makes for a request and which errors it retries.  The loop  *)
(* that walks the plan, Execute, has steps of its own in Gateway.tla,      *)
(* because other requests run between them.                                *)
(***************************************************************************)
EXTENDS Integers, Sequences

CONSTANTS Chain,     \* fallback.chains: a function from models to sequences of models
          RetryMax   \* fallback.retry_max, after NewEngine replaced a value <= 0

ASSUME FallbackAssumption ==
  /\ RetryMax \in Nat \ {0}
  /\ \A m \in DOMAIN Chain : Chain[m] \in Seq(DOMAIN Chain)

\* A fallback attempt names no provider.
NoProvider == "none"

Level == {"primary", "retry", "fallback"}

Attempt(p, m, level) == [provider |-> p, model |-> m, level |-> level]

\* mutant: one retry more than configured.
OneRetryMore(p, m) ==
  <<Attempt(p, m, "primary")>>
    \o [i \in 1..RetryMax + 1 |-> Attempt(p, m, "retry")]
    \o [i \in 1..Len(Chain[m]) |-> Attempt(NoProvider, Chain[m][i], "fallback")]

Attempts(p, m) ==
  <<Attempt(p, m, "primary")>>
    \o [i \in 1..RetryMax |-> Attempt(p, m, "retry")]
    \o [i \in 1..Len(Chain[m]) |-> Attempt(NoProvider, Chain[m][i], "fallback")]

(***************************************************************************)
(* What sendFn may return besides a response: the codes of model.Error, a  *)
(* plain error whose text matches one of the retryableErrors ("network"),  *)
(* and a plain error that matches none, such as a malformed body or a      *)
(* canceled context ("other").                                             *)
(***************************************************************************)
ErrorCode == {"invalid_request", "authentication_error", "rate_limit_exceeded",
              "model_not_found", "provider_error", "timeout",
              "circuit_breaker_open", "network", "other"}

IsRetryable(code) ==
  code \in {"provider_error", "timeout", "circuit_breaker_open", "network"}
=============================================================================
