-------------------------- MODULE MCBreakerManager --------------------------
(***************************************************************************)
(* The circuit breaker with a few interchangeable callers.  The clock runs *)
(* past twice the cooldown, so a breaker can open, cool down, let probes   *)
(* through, open again and cool down again.                                *)
(***************************************************************************)
EXTENDS BreakerManager, TLC

CallerSymmetry == Permutations(Callers)
=============================================================================
