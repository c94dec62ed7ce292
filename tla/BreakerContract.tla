-------------------------- MODULE BreakerContract --------------------------
(***************************************************************************)
(* What a circuit breaker promises to its callers, without its three       *)
(* states: a gate that looks only at the failures recorded since the last  *)
(* success and at the time of the last of them.  CircuitBreaker.tla is     *)
(* shown to implement it, so the Closed/Open/HalfOpen machine of the code  *)
(* admits and rejects exactly when this gate does.                         *)
(***************************************************************************)
EXTENDS Integers

CONSTANTS Callers, Threshold, Cooldown

VARIABLES streak,    \* failures recorded since the last success
          failedAt,  \* time of the last recorded failure
          now,       \* the clock
          call       \* what each caller is doing

vars == <<streak, failedAt, now, call>>

Tripped == streak > 0 /\ streak >= Threshold

Admits == Tripped => now - failedAt >= Cooldown

Init == /\ streak = 0
        /\ failedAt = 0
        /\ now = 0
        /\ call = [c \in Callers |-> "idle"]

Tick == /\ now' = now + 1
        /\ UNCHANGED <<streak, failedAt, call>>

Ask(c) == /\ call[c] = "idle"
          /\ call' = [call EXCEPT ![c] = IF Admits THEN "admitted" ELSE "rejected"]
          /\ UNCHANGED <<streak, failedAt, now>>

Succeed(c) == /\ call[c] = "admitted"
              /\ call' = [call EXCEPT ![c] = "idle"]
              /\ streak' = 0
              /\ UNCHANGED <<failedAt, now>>

Fail(c) == /\ call[c] \in {"admitted", "failed"}
           /\ call' = [call EXCEPT ![c] = "failed"]
           /\ streak' = streak + 1
           /\ failedAt' = now
           /\ UNCHANGED now

Leave(c) == /\ call[c] # "idle"
            /\ call' = [call EXCEPT ![c] = "idle"]
            /\ UNCHANGED <<streak, failedAt, now>>

Next == Tick \/ \E c \in Callers : Ask(c) \/ Succeed(c) \/ Fail(c) \/ Leave(c)

Spec == Init /\ [][Next]_vars
=============================================================================
