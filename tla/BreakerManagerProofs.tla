------------------------ MODULE BreakerManagerProofs ------------------------
(***************************************************************************)
(* Proofs about one breaker, CircuitBreaker.tla, and about the manager of  *)
(* ingress/service.go that keeps it, BreakerManager.tla, for every set of  *)
(* callers, threshold, cooldown and bound.                                 *)
(*                                                                         *)
(* One breaker: an inductive invariant, IInv, ties its state to the run of *)
(* failures behind it and to the time of the last of them; the safety      *)
(* properties and the implementation of the stateless contract are read    *)
(* off it.                                                                 *)
(*                                                                         *)
(* The manager implements the single breaker: once there is a breaker the  *)
(* map never changes, so everybody who holds a pointer holds the one in    *)
(* the map; and what a caller asked for stays possible until the breaker's *)
(* method has run.                                                         *)
(***************************************************************************)
EXTENDS BreakerManager, FiniteSetTheorems, TLAPS

(***************************************************************************)
(* What the methods of a breaker do, for every threshold and clock.        *)
(***************************************************************************)

\* Each method returns a breaker.
LEMMA MethodTypes ==
  ASSUME NEW time \in SUBSET Nat, NEW t \in time, NEW b \in BreakerType(time)
  PROVE  /\ AfterAllow(b, t) \in BreakerType(time)
         /\ AfterSuccess(b) \in BreakerType(time)
         /\ AfterFailure(b, t) \in BreakerType(time)
<1> USE DEF BreakerType, CircuitState
<1>1. AfterAllow(b, t) \in BreakerType(time)
    BY DEF AfterAllow
<1>2. AfterSuccess(b) \in BreakerType(time)
    BY DEF AfterSuccess
<1>3. AfterFailure(b, t) \in BreakerType(time)
    BY DEF AfterFailure
<1> QED
    BY <1>1, <1>2, <1>3

\* Allow() touches nothing but the state, and only to make an Open breaker
\* whose cooldown is over HalfOpen.
LEMMA AllowEffect ==
  ASSUME NEW time \in SUBSET Nat, NEW t \in time, NEW b \in BreakerType(time)
  PROVE  /\ AfterAllow(b, t).failures = b.failures
         /\ AfterAllow(b, t).openedAt = b.openedAt
         /\ \/ AfterAllow(b, t).state = b.state
            \/ /\ b.state = "Open" /\ t - b.openedAt >= Cooldown
               /\ AfterAllow(b, t).state = "HalfOpen"
  BY DEF BreakerType, AfterAllow, CooldownOver

-----------------------------------------------------------------------------
(***************************************************************************)
(* One breaker                                                             *)
(***************************************************************************)

\* A breaker that is not Closed opened at its last failure.
OpenedAtLastFailure == cb.state # "Closed" => cb.openedAt = failedAt

\* The counter of the breaker is the run of failures behind it.
StreakCounted == cb.failures = streak

IInv == /\ TypeOK /\ ClosedBelowThreshold /\ HalfOpenAfterCooldown
        /\ OpenedAtLastFailure /\ StreakCounted

-----------------------------------------------------------------------------
(***************************************************************************)
(* The invariant of one breaker                                            *)
(***************************************************************************)

LEMMA IInvInit == Init => IInv
  BY BoundsAssumption, BreakerAssumption
  DEF Init, IInv, TypeOK, ClosedBelowThreshold, HalfOpenAfterCooldown,
      OpenedAtLastFailure, StreakCounted, NewCircuitBreaker, BreakerType, CircuitState, Phase

LEMMA TypeStep == TypeOK /\ [Next]_vars => TypeOK'
<1> SUFFICES ASSUME TypeOK, [Next]_vars PROVE TypeOK'
    OBVIOUS
<1> USE BoundsAssumption DEF TypeOK, Phase
<1>t. (0..MaxTime) \in SUBSET Nat
    OBVIOUS
<1>1. CASE Tick
    BY <1>1 DEF Tick
<1>2. ASSUME NEW c \in Callers, Allow(c) PROVE TypeOK'
    BY <1>t, <1>2, MethodTypes DEF Allow
<1>3. ASSUME NEW c \in Callers, RecordSuccess(c) PROVE TypeOK'
    BY <1>t, <1>3, MethodTypes DEF RecordSuccess
<1>4. ASSUME NEW c \in Callers, RecordFailure(c) PROVE TypeOK'
    BY <1>t, <1>4, MethodTypes DEF RecordFailure
<1>5. ASSUME NEW c \in Callers, Leave(c) PROVE TypeOK'
    BY <1>5 DEF Leave
<1>6. CASE UNCHANGED vars
    BY <1>6 DEF vars
<1> QED
    BY <1>1, <1>2, <1>3, <1>4, <1>5, <1>6 DEF Next

LEMMA IInvStep == IInv /\ [Next]_vars => IInv'
<1> SUFFICES ASSUME IInv, [Next]_vars PROVE IInv'
    OBVIOUS
<1> DEFINE Rest == /\ ClosedBelowThreshold /\ HalfOpenAfterCooldown
                 /\ OpenedAtLastFailure /\ StreakCounted
<1> USE BoundsAssumption, BreakerAssumption
<1>0. TypeOK /\ TypeOK'
    BY TypeStep DEF IInv
<1>t. (0..MaxTime) \in SUBSET Nat /\ now \in 0..MaxTime /\ cb \in BreakerType(0..MaxTime)
    BY <1>0 DEF TypeOK
<1>1. CASE Tick
    BY <1>0, <1>1
    DEF Tick, IInv, TypeOK, ClosedBelowThreshold, HalfOpenAfterCooldown,
        OpenedAtLastFailure, StreakCounted
<1>2. ASSUME NEW c \in Callers, Allow(c) PROVE Rest'
  <2>1. /\ cb'.failures = cb.failures
        /\ cb'.openedAt = cb.openedAt
        /\ \/ cb'.state = cb.state
           \/ /\ cb.state = "Open" /\ now - cb.openedAt >= Cooldown
              /\ cb'.state = "HalfOpen"
      BY <1>2, <1>t, AllowEffect DEF Allow
  <2> QED
      BY <1>0, <1>2, <2>1
      DEF Allow, IInv, TypeOK, ClosedBelowThreshold, HalfOpenAfterCooldown,
          OpenedAtLastFailure, StreakCounted
<1>3. ASSUME NEW c \in Callers, RecordSuccess(c) PROVE Rest'
    BY <1>0, <1>3
    DEF RecordSuccess, AfterSuccess, TypeOK, BreakerType, ClosedBelowThreshold,
        HalfOpenAfterCooldown,
        OpenedAtLastFailure, StreakCounted
<1>4. ASSUME NEW c \in Callers, RecordFailure(c) PROVE Rest'
  <2>0. cb.failures = streak /\ streak \in Nat
      BY <1>0 DEF IInv, TypeOK, StreakCounted
  <2>1. CASE streak + 1 >= Threshold
      BY <1>0, <1>4, <2>0, <2>1
      DEF RecordFailure, AfterFailure, TypeOK, BreakerType, ClosedBelowThreshold,
          HalfOpenAfterCooldown, OpenedAtLastFailure, StreakCounted
  <2>2. CASE streak + 1 < Threshold
    <3>1. cb.state = "Closed"
        BY <2>0, <2>2 DEF IInv, ClosedBelowThreshold
    <3> QED
        BY <1>0, <1>4, <2>0, <2>2, <3>1
        DEF RecordFailure, AfterFailure, TypeOK, BreakerType, ClosedBelowThreshold,
            HalfOpenAfterCooldown, OpenedAtLastFailure, StreakCounted
  <2> QED
      BY <2>0, <2>1, <2>2
<1>5. ASSUME NEW c \in Callers, Leave(c) PROVE Rest'
    BY <1>5 DEF Leave, IInv, ClosedBelowThreshold, HalfOpenAfterCooldown,
                OpenedAtLastFailure, StreakCounted
<1>6. CASE UNCHANGED vars
    BY <1>6 DEF vars, IInv, TypeOK, ClosedBelowThreshold, HalfOpenAfterCooldown,
                OpenedAtLastFailure, StreakCounted
<1> QED
    BY <1>0, <1>1, <1>2, <1>3, <1>4, <1>5, <1>6 DEF Next, IInv

\* The strengthening holds in every reachable state.
LEMMA IInvHolds == Spec => []IInv
  BY IInvInit, IInvStep, PTL DEF Spec

-----------------------------------------------------------------------------
(***************************************************************************)
(* Theorems about one breaker                                              *)
(***************************************************************************)

\* The breaker, its clock and its callers stay within their types.
THEOREM TypeCorrect == Spec => []TypeOK
<1>1. IInv => TypeOK
    BY DEF IInv
<1> QED
    BY IInvHolds, <1>1, PTL

\* RecordSuccess and RecordFailure, in whatever order concurrent requests call
\* them, leave the breaker Closed exactly when fewer than Threshold failures
\* follow the last success.
THEOREM ClosedExactlyBelowThreshold == Spec => []ClosedBelowThreshold
<1>1. IInv => ClosedBelowThreshold
    BY DEF IInv
<1> QED
    BY IInvHolds, <1>1, PTL

\* The breaker is HalfOpen only when the cooldown since its last failure is over.
THEOREM HalfOpenIsLate == Spec => []HalfOpenAfterCooldown
<1>1. IInv => HalfOpenAfterCooldown
    BY DEF IInv
<1> QED
    BY IInvHolds, <1>1, PTL

\* Allow() lets nobody through within the cooldown of the last of Threshold
\* failures in a row.
THEOREM NobodyAdmittedDuringCooldown == Spec => CooldownRespected
<1> DEFINE Step == \A c \in Callers :
                     /\ streak > 0 /\ streak >= Threshold
                     /\ call[c] = "idle" /\ call'[c] = "admitted"
                     => now - failedAt >= Cooldown
<1>1. IInv /\ [Next]_vars => [Step]_vars
  <2> SUFFICES ASSUME IInv, Next, NEW c \in Callers,
                      streak > 0, streak >= Threshold,
                      call[c] = "idle", call'[c] = "admitted"
               PROVE  now - failedAt >= Cooldown
      OBVIOUS
  <2>1. cb.state # "Closed"
      BY BreakerAssumption DEF IInv, TypeOK, BreakerType, ClosedBelowThreshold
  <2>2. Allow(c)
      BY DEF Next, Tick, Allow, RecordSuccess, RecordFailure, Leave, IInv, TypeOK
  <2>3. Allows(cb, now)
      BY <2>2 DEF Allow, IInv, TypeOK
  <2> QED
      BY <2>1, <2>3
      DEF Allows, CooldownOver, IInv, TypeOK, BreakerType, CircuitState,
          HalfOpenAfterCooldown,
          OpenedAtLastFailure, StreakCounted
<1> QED
    BY IInvHolds, <1>1, PTL DEF Spec, CooldownRespected

\* One failed probe opens a HalfOpen breaker again, for a whole cooldown.
THEOREM OneProbeFailureReopens == Spec => ProbeFailureReopens
<1> DEFINE Step == cb.state = "HalfOpen" /\ streak' > streak
                     => cb'.state = "Open" /\ cb'.openedAt = now
<1>1. IInv /\ [Next]_vars => [Step]_vars
  <2> SUFFICES ASSUME IInv, Next, cb.state = "HalfOpen", streak' > streak
               PROVE  cb'.state = "Open" /\ cb'.openedAt = now
      OBVIOUS
  <2>1. cb.failures >= Threshold /\ cb.failures \in Nat
      BY BreakerAssumption DEF IInv, TypeOK, BreakerType, ClosedBelowThreshold, StreakCounted
  <2>2. PICK c \in Callers : RecordFailure(c)
      BY DEF Next, Tick, Allow, RecordSuccess, Leave, IInv, TypeOK
  <2> QED
      BY <2>1, <2>2, BreakerAssumption
      DEF RecordFailure, AfterFailure
<1> QED
    BY IInvHolds, <1>1, PTL DEF Spec, ProbeFailureReopens

\* Callers of the three-state breaker see the stateless gate of BreakerContract:
\* HalfOpen adds nothing they can observe, and in particular does not limit the
\* number of probes.  Each step maps to the step of the same name.
THEOREM ImplementsContract == Spec => ContractSpec
<1> USE BreakerAssumption
<1>1. Init => Contract!Init
    BY DEF Init, NewCircuitBreaker, Contract!Init
<1>2. IInv /\ [Next]_vars => [Contract!Next]_(Contract!vars)
  <2> SUFFICES ASSUME IInv, [Next]_vars
               PROVE  [Contract!Next]_(Contract!vars)
      OBVIOUS
  <2>1. CASE Tick
      BY <2>1 DEF Tick, Contract!Next, Contract!Tick
  <2>2. ASSUME NEW c \in Callers, Allow(c) PROVE Contract!Ask(c)
    <3>1. Allows(cb, now) <=> Contract!Admits
        BY DEF Allows, CooldownOver, Contract!Admits, Contract!Tripped, IInv, TypeOK,
               BreakerType, CircuitState, ClosedBelowThreshold, HalfOpenAfterCooldown,
               OpenedAtLastFailure
    <3> QED
        BY <2>2, <3>1 DEF Allow, Contract!Ask
  <2>3. ASSUME NEW c \in Callers, RecordSuccess(c) PROVE Contract!Succeed(c)
      BY <2>3 DEF RecordSuccess, Contract!Succeed
  <2>4. ASSUME NEW c \in Callers, RecordFailure(c) PROVE Contract!Fail(c)
      BY <2>4 DEF RecordFailure, Contract!Fail
  <2>5. ASSUME NEW c \in Callers, Leave(c) PROVE Contract!Leave(c)
      BY <2>5 DEF Leave, Contract!Leave
  <2>6. CASE UNCHANGED vars
      BY <2>6 DEF vars, Contract!vars
  <2> QED
      BY <2>1, <2>2, <2>3, <2>4, <2>5, <2>6 DEF Next, Contract!Next
<1> QED
    BY IInvHolds, <1>1, <1>2, PTL DEF Spec, ContractSpec, Contract!Spec

-----------------------------------------------------------------------------
(***************************************************************************)
(* The manager's breaker                                                   *)
(***************************************************************************)

Method == {"Allow", "RecordSuccess", "RecordFailure"}

ManagerTypeOK ==
  /\ now \in 0..MaxTime
  /\ call \in [Callers -> Phase]
  /\ doing \in [Callers -> [pc : {"idle", "find", "create", "apply"},
                            method : Method \cup {"none"}, ptr : Nat]]
  /\ heap \in Seq(BreakerType(0..MaxTime))

\* The map's entry is the last breaker allocated, and there is none without it.
EntryIsLast == entry = Len(heap)

\* Whoever is about to call a method of a breaker holds the one in the map.
PointersAreEntry ==
  \A c \in Callers : doing[c].pc = "apply" => doing[c].ptr = entry /\ entry # 0

\* What a caller asked for is still its next step as a caller of one breaker.
StillCalls ==
  \A c \in Callers :
    /\ doing[c].pc = "idle" <=> doing[c].method = "none"
    /\ doing[c].method = "Allow" => call[c] = "idle"
    /\ doing[c].method = "RecordSuccess" => call[c] = "admitted"
    /\ doing[c].method = "RecordFailure" => call[c] \in {"admitted", "failed"}

\* The bound of the failures in a row leaves room for those on their way.
RoomForFailures ==
  /\ streak \in Nat
  /\ IsFiniteSet(RecordingFailure)
  /\ streak + Cardinality(RecordingFailure) <= MaxFailures

MInv == ManagerTypeOK /\ EntryIsLast /\ PointersAreEntry /\ StillCalls /\ RoomForFailures

-----------------------------------------------------------------------------
(***************************************************************************)
(* The invariant of the manager                                            *)
(***************************************************************************)

LEMMA MInvInit == ManagerInit => MInv
<1> SUFFICES ASSUME ManagerInit PROVE MInv
    OBVIOUS
<1>1. RecordingFailure = {}
    BY DEF ManagerInit, RecordingFailure, NotCalling
<1>2. RoomForFailures
    BY <1>1, FS_EmptySet, BoundsAssumption DEF RoomForFailures, ManagerInit, Init
<1>3. ManagerTypeOK
    BY BoundsAssumption DEF ManagerTypeOK, ManagerInit, Init, NotCalling, Phase, Method
<1>4. EntryIsLast /\ PointersAreEntry /\ StillCalls
    BY DEF EntryIsLast, PointersAreEntry, StillCalls, ManagerInit, Init, NotCalling
<1> QED
    BY <1>2, <1>3, <1>4 DEF MInv

\* A breaker's method, on the pointer: the breaker in the map is what it makes of
\* it, and one failure less is on its way when it was RecordFailure.
LEMMA ApplyEffect ==
  ASSUME MInv, NEW c \in Callers, NEW method \in Method, NEW outcome \in Phase,
         NEW breaker \in BreakerType(0..MaxTime),
         Apply(c, method, breaker, outcome)
  PROVE  /\ entry \in DOMAIN heap /\ Pointed(c) = Entered(heap, entry)
         /\ Entered(heap', entry') = breaker
         /\ ManagerTypeOK' /\ EntryIsLast' /\ PointersAreEntry' /\ StillCalls'
         /\ RecordingFailure' = RecordingFailure \ {c}
<1> USE DEF MInv, ManagerTypeOK, EntryIsLast, PointersAreEntry
<1>1. entry \in DOMAIN heap /\ entry # 0 /\ doing[c].ptr = entry
    BY DEF Apply
<1>2. /\ heap' = [heap EXCEPT ![entry] = breaker] /\ entry' = entry
      /\ heap' \in Seq(BreakerType(0..MaxTime)) /\ Len(heap') = Len(heap)
    BY <1>1 DEF Apply
<1>3. Entered(heap', entry') = breaker /\ Pointed(c) = Entered(heap, entry)
    BY <1>1, <1>2 DEF Entered, Pointed
<1>4. ManagerTypeOK' /\ EntryIsLast'
    BY <1>2 DEF Apply, NotCalling
<1>5. PointersAreEntry'
    BY <1>2 DEF Apply, NotCalling
<1>6. StillCalls'
    BY DEF Apply, NotCalling, StillCalls
<1>7. RecordingFailure' = RecordingFailure \ {c}
    BY DEF Apply, NotCalling, RecordingFailure
<1> QED
    BY <1>1, <1>3, <1>4, <1>5, <1>6, <1>7

\* A failure that was on its way and is not any more leaves room.
LEMMA OneFewer ==
  ASSUME RoomForFailures, NEW c
  PROVE  /\ IsFiniteSet(RecordingFailure \ {c})
         /\ Cardinality(RecordingFailure) \in Nat
         /\ Cardinality(RecordingFailure \ {c}) \in Nat
         /\ Cardinality(RecordingFailure \ {c}) =
              IF c \in RecordingFailure THEN Cardinality(RecordingFailure) - 1
                                        ELSE Cardinality(RecordingFailure)
<1>1. IsFiniteSet(RecordingFailure)
    BY DEF RoomForFailures
<1>2. IsFiniteSet(RecordingFailure \ {c})
    BY <1>1, FS_RemoveElement
<1> QED
    BY <1>1, <1>2, FS_RemoveElement, FS_CardinalityType

\* The three methods of the manager are those of the one breaker.
LEMMA ApplyRefines ==
  ASSUME MInv, NEW c \in Callers
  PROVE  /\ ApplyAllow(c) => MInv' /\ OneBreaker!Allow(c)
         /\ ApplySuccess(c) => MInv' /\ OneBreaker!RecordSuccess(c)
         /\ ApplyFailure(c) => MInv' /\ OneBreaker!RecordFailure(c)
<1>t. /\ (0..MaxTime) \in SUBSET Nat /\ now \in 0..MaxTime
      /\ streak \in Nat /\ streak + Cardinality(RecordingFailure) <= MaxFailures
    BY BoundsAssumption DEF MInv, ManagerTypeOK, RoomForFailures
<1>r. /\ IsFiniteSet(RecordingFailure \ {c})
      /\ Cardinality(RecordingFailure) \in Nat
      /\ Cardinality(RecordingFailure \ {c}) \in Nat
      /\ Cardinality(RecordingFailure \ {c}) =
           IF c \in RecordingFailure THEN Cardinality(RecordingFailure) - 1
                                     ELSE Cardinality(RecordingFailure)
    BY OneFewer DEF MInv
<1>p. ASSUME doing[c].pc = "apply" PROVE Pointed(c) \in BreakerType(0..MaxTime)
    BY <1>p DEF MInv, ManagerTypeOK, EntryIsLast, PointersAreEntry, Pointed
<1>1. ASSUME ApplyAllow(c) PROVE MInv' /\ OneBreaker!Allow(c)
  <2> DEFINE outcome == IF Allows(Pointed(c), now) THEN "admitted" ELSE "rejected"
  <2>1. /\ Apply(c, "Allow", AfterAllow(Pointed(c), now), outcome)
        /\ UNCHANGED <<streak, failedAt, now>>
      BY <1>1 DEF ApplyAllow, Apply
  <2>2. AfterAllow(Pointed(c), now) \in BreakerType(0..MaxTime)
      BY <1>t, <1>p, <2>1, MethodTypes DEF Apply
  <2>3. /\ Pointed(c) = Entered(heap, entry)
        /\ Entered(heap', entry') = AfterAllow(Pointed(c), now)
        /\ ManagerTypeOK' /\ EntryIsLast' /\ PointersAreEntry' /\ StillCalls'
        /\ RecordingFailure' = RecordingFailure \ {c}
    <3>1. outcome \in Phase /\ "Allow" \in Method
        BY DEF Phase, Method
    <3> QED
        BY <2>1, <2>2, <3>1, ApplyEffect
  <2>4. RoomForFailures'
      BY <1>t, <2>1, <2>3, <1>r, BoundsAssumption DEF RoomForFailures
  <2>5. call[c] = "idle" /\ call' = [call EXCEPT ![c] = outcome]
      BY <2>1 DEF Apply, MInv, StillCalls
  <2>6. OneBreaker!Allow(c)
      BY <2>1, <2>3, <2>5
      DEF OneBreaker!Allow, OneBreaker!Allows, OneBreaker!AfterAllow, Allows, AfterAllow,
          OneBreaker!CooldownOver, CooldownOver
  <2> QED
      BY <2>3, <2>4, <2>6 DEF MInv
<1>2. ASSUME ApplySuccess(c) PROVE MInv' /\ OneBreaker!RecordSuccess(c)
  <2>1. /\ Apply(c, "RecordSuccess", AfterSuccess(Pointed(c)), "idle")
        /\ streak' = 0 /\ UNCHANGED <<failedAt, now>>
      BY <1>2 DEF ApplySuccess, Apply
  <2>2. AfterSuccess(Pointed(c)) \in BreakerType(0..MaxTime)
      BY <1>t, <1>p, <2>1, MethodTypes DEF Apply
  <2>3. /\ Pointed(c) = Entered(heap, entry)
        /\ Entered(heap', entry') = AfterSuccess(Pointed(c))
        /\ ManagerTypeOK' /\ EntryIsLast' /\ PointersAreEntry' /\ StillCalls'
        /\ RecordingFailure' = RecordingFailure \ {c}
    <3>1. "idle" \in Phase /\ "RecordSuccess" \in Method
        BY DEF Phase, Method
    <3> QED
        BY <2>1, <2>2, <3>1, ApplyEffect
  <2>4. RoomForFailures'
      BY <1>t, <2>1, <2>3, <1>r, BoundsAssumption DEF RoomForFailures
  <2>5. call[c] = "admitted" /\ call' = [call EXCEPT ![c] = "idle"]
      BY <2>1 DEF Apply, MInv, StillCalls
  <2>6. OneBreaker!RecordSuccess(c)
      BY <2>1, <2>3, <2>5
      DEF OneBreaker!RecordSuccess, OneBreaker!AfterSuccess, AfterSuccess
  <2> QED
      BY <2>3, <2>4, <2>6 DEF MInv
<1>3. ASSUME ApplyFailure(c) PROVE MInv' /\ OneBreaker!RecordFailure(c)
  <2>1. /\ Apply(c, "RecordFailure", AfterFailure(Pointed(c), now), "failed")
        /\ streak' = streak + 1 /\ failedAt' = now /\ now' = now
      BY <1>3 DEF ApplyFailure, Apply
  <2>2. AfterFailure(Pointed(c), now) \in BreakerType(0..MaxTime)
      BY <1>t, <1>p, <2>1, MethodTypes DEF Apply
  <2>3. /\ Pointed(c) = Entered(heap, entry)
        /\ Entered(heap', entry') = AfterFailure(Pointed(c), now)
        /\ ManagerTypeOK' /\ EntryIsLast' /\ PointersAreEntry' /\ StillCalls'
        /\ RecordingFailure' = RecordingFailure \ {c}
    <3>1. "failed" \in Phase /\ "RecordFailure" \in Method
        BY DEF Phase, Method
    <3> QED
        BY <2>1, <2>2, <3>1, ApplyEffect
  <2>4. c \in RecordingFailure
      BY <2>1 DEF Apply, RecordingFailure
  <2>5. /\ IsFiniteSet(RecordingFailure')
        /\ Cardinality(RecordingFailure') = Cardinality(RecordingFailure) - 1
        /\ Cardinality(RecordingFailure') \in Nat
      BY <1>r, <2>3, <2>4
  <2>6. RoomForFailures' /\ streak < MaxFailures
      BY <1>r, <1>t, <2>1, <2>5, BoundsAssumption DEF RoomForFailures
  <2>7. call[c] \in {"admitted", "failed"} /\ call' = [call EXCEPT ![c] = "failed"]
      BY <2>1 DEF Apply, MInv, StillCalls
  <2>8. OneBreaker!RecordFailure(c)
      BY <2>1, <2>3, <2>6, <2>7
      DEF OneBreaker!RecordFailure, OneBreaker!AfterFailure, AfterFailure
  <2> QED
      BY <2>3, <2>6, <2>8 DEF MInv
<1> QED
    BY <1>1, <1>2, <1>3

\* A caller that looks for the breaker keeps its type.
LEMMA LookTypes ==
  ASSUME ManagerTypeOK, NEW c \in Callers, NEW pc \in {"create", "apply"}, NEW ptr \in Nat,
         doing' = [doing EXCEPT ![c].pc = pc, ![c].ptr = ptr]
  PROVE  doing' \in [Callers -> [pc : {"idle", "find", "create", "apply"},
                                 method : Method \cup {"none"}, ptr : Nat]]
  BY DEF ManagerTypeOK

\* Until the breaker's method runs nobody can tell that a method of the manager has
\* begun, created the breaker included.
LEMMA BeforeApply ==
  ASSUME MInv, NEW c \in Callers, Begin(c) \/ Find(c) \/ Create(c)
  PROVE  MInv' /\ UNCHANGED <<Entered(heap, entry), now, call, streak, failedAt>>
<1> USE DEF MInv, ManagerTypeOK, EntryIsLast, PointersAreEntry
<1>1. CASE Begin(c)
  <2>1. PICK method \in Method :
          /\ Calls(c, method)
          /\ doing' = [doing EXCEPT ![c].pc = "find", ![c].method = method]
      BY <1>1 DEF Begin, Method
  <2>2. UNCHANGED <<now, call, streak, failedAt, heap, entry>> /\ doing[c].pc = "idle"
      BY <1>1 DEF Begin
  <2>3. ManagerTypeOK' /\ EntryIsLast' /\ PointersAreEntry'
    <3>1. doing' \in [Callers -> [pc : {"idle", "find", "create", "apply"},
                                  method : Method \cup {"none"}, ptr : Nat]]
        BY <2>1
    <3>2. \A d \in Callers : doing'[d].ptr = doing[d].ptr
                              /\ (doing'[d].pc = "apply" => doing[d].pc = "apply")
        BY <2>1
    <3>3. ManagerTypeOK'
        BY <2>2, <3>1
    <3>4. PointersAreEntry'
        BY <2>2, <3>2
    <3> QED
        BY <2>2, <3>3, <3>4
  <2>4. StillCalls'
      BY <2>1, <2>2 DEF StillCalls, Calls, Method
  <2>5. CASE method = "RecordFailure"
    <3>1. RecordingFailure' = RecordingFailure \cup {c} /\ c \notin RecordingFailure
        BY <2>1, <2>2, <2>5 DEF RecordingFailure, StillCalls
    <3>2. streak + Cardinality(RecordingFailure) < MaxFailures
        BY <2>1, <2>5 DEF Calls
    <3>3. /\ IsFiniteSet(RecordingFailure')
          /\ Cardinality(RecordingFailure') = Cardinality(RecordingFailure) + 1
          /\ Cardinality(RecordingFailure) \in Nat
        BY <3>1, FS_AddElement, FS_CardinalityType DEF RoomForFailures
    <3> QED
        BY <2>2, <2>3, <2>4, <3>2, <3>3, BoundsAssumption DEF RoomForFailures, Entered
  <2>6. CASE method # "RecordFailure"
    <3>1. RecordingFailure' = RecordingFailure
        BY <2>1, <2>2, <2>6 DEF RecordingFailure, StillCalls
    <3> QED
        BY <2>2, <2>3, <2>4, <3>1 DEF RoomForFailures, Entered
  <2> QED
      BY <2>5, <2>6
<1>2. CASE Find(c)
  <2>1. RecordingFailure' = RecordingFailure
      BY <1>2 DEF Find, RecordingFailure
  <2>2. ManagerTypeOK' /\ EntryIsLast'
    <3>1. entry \in Nat
        OBVIOUS
    <3>2. PICK pc \in {"create", "apply"} :
            doing' = [doing EXCEPT ![c].pc = pc, ![c].ptr = entry]
        BY <1>2 DEF Find
    <3>3. UNCHANGED <<now, call, heap, entry>>
        BY <1>2 DEF Find
    <3> QED
        BY <3>1, <3>2, <3>3, LookTypes
  <2>3. PointersAreEntry'
      BY <1>2 DEF Find
  <2>4. StillCalls'
      BY <1>2 DEF Find, StillCalls
  <2> QED
      BY <1>2, <2>1, <2>2, <2>3, <2>4 DEF Find, RoomForFailures, Entered
<1>3. CASE Create(c)
  <2>1. RecordingFailure' = RecordingFailure
      BY <1>3 DEF Create, RecordingFailure
  <2>2. NewCircuitBreaker \in BreakerType(0..MaxTime)
      BY BoundsAssumption DEF NewCircuitBreaker, BreakerType, CircuitState
  <2>3. /\ heap' \in Seq(BreakerType(0..MaxTime)) /\ entry' = Len(heap') /\ entry' # 0
        /\ entry = 0 \/ entry' = entry
        /\ Entered(heap', entry') = Entered(heap, entry)
    <3>1. CASE entry = 0
        BY <1>3, <2>2, <3>1 DEF Create, Absent, Entered
    <3>2. CASE entry # 0
        BY <1>3, <3>2 DEF Create, Absent, Entered
    <3> QED
        BY <3>1, <3>2
  <2>4. ManagerTypeOK' /\ EntryIsLast'
    <3>1. entry' \in Nat
        BY <2>3
    <3>2. /\ doing' = [doing EXCEPT ![c].pc = "apply", ![c].ptr = entry']
          /\ UNCHANGED <<now, call>>
        BY <1>3 DEF Create
    <3> QED
        BY <2>3, <3>1, <3>2, LookTypes
  <2>5. StillCalls'
      BY <1>3 DEF Create, StillCalls
  <2>6. PointersAreEntry'
      BY <1>3, <2>3 DEF Create
  <2> QED
      BY <1>3, <2>1, <2>3, <2>4, <2>5, <2>6 DEF Create, RoomForFailures
<1> QED
    BY <1>1, <1>2, <1>3

-----------------------------------------------------------------------------
(***************************************************************************)
(* The refinement                                                          *)
(***************************************************************************)

\* Every step keeps the invariant and is a step of the one breaker, or none.
LEMMA ManagerStep ==
  MInv /\ [ManagerNext]_managerVars => MInv' /\ [OneBreaker!Next]_(OneBreaker!vars)
<1> SUFFICES ASSUME MInv, [ManagerNext]_managerVars
             PROVE  MInv' /\ [OneBreaker!Next]_(OneBreaker!vars)
    OBVIOUS
<1> USE DEF OneBreaker!vars
<1>1. CASE ManagerTick
  <2>1. UNCHANGED <<call, streak, failedAt, heap, entry, doing>>
        /\ now < MaxTime /\ now' = now + 1
      BY <1>1 DEF ManagerTick, Tick
  <2>2. RecordingFailure' = RecordingFailure
      BY <2>1 DEF RecordingFailure
  <2>3. MInv'
      BY <2>1, <2>2, BoundsAssumption
      DEF MInv, ManagerTypeOK, EntryIsLast, PointersAreEntry, StillCalls, RoomForFailures
  <2>4. OneBreaker!Tick
      BY <2>1 DEF OneBreaker!Tick, Entered
  <2> QED
      BY <2>3, <2>4 DEF OneBreaker!Next
<1>2. ASSUME NEW c \in Callers, Begin(c) \/ Find(c) \/ Create(c)
      PROVE  MInv' /\ UNCHANGED OneBreaker!vars
    BY <1>2, BeforeApply
<1>3. ASSUME NEW c \in Callers, ApplyAllow(c) \/ ApplySuccess(c) \/ ApplyFailure(c)
      PROVE  MInv' /\ OneBreaker!Next
    BY <1>3, ApplyRefines DEF OneBreaker!Next
<1>4. ASSUME NEW c \in Callers, ManagerLeave(c) PROVE MInv' /\ OneBreaker!Next
  <2>1. /\ doing[c].pc = "idle" /\ call[c] # "idle"
        /\ call' = [call EXCEPT ![c] = "idle"]
        /\ UNCHANGED <<now, streak, failedAt, heap, entry, doing>>
      BY <1>4 DEF ManagerLeave, Leave
  <2>2. RecordingFailure' = RecordingFailure
      BY <2>1 DEF RecordingFailure
  <2>3. MInv'
      BY <2>1, <2>2
      DEF MInv, ManagerTypeOK, EntryIsLast, PointersAreEntry, StillCalls, RoomForFailures,
          Phase
  <2>4. OneBreaker!Leave(c)
      BY <2>1 DEF OneBreaker!Leave, Entered
  <2> QED
      BY <2>3, <2>4 DEF OneBreaker!Next
<1>5. CASE UNCHANGED managerVars
  <2>1. RecordingFailure' = RecordingFailure
      BY <1>5 DEF RecordingFailure, managerVars
  <2> QED
      BY <1>5, <2>1
      DEF managerVars, MInv, ManagerTypeOK, EntryIsLast, PointersAreEntry, StillCalls,
          RoomForFailures, Entered
<1> QED
    BY <1>1, <1>2, <1>3, <1>4, <1>5 DEF ManagerNext

\* Requests that race through getOrCreate, and call the breaker with no lock of the
\* manager held, see one breaker that has been there from the start.
THEOREM ManagerIsOneBreaker == ManagerSpec => SharesOneBreaker
<1>1. ManagerInit => OneBreaker!Init
    BY DEF ManagerInit, Init, OneBreaker!Init, Entered, NewCircuitBreaker,
           OneBreaker!NewCircuitBreaker
<1> QED
    BY <1>1, MInvInit, ManagerStep, PTL DEF ManagerSpec, SharesOneBreaker, OneBreaker!Spec

-----------------------------------------------------------------------------
(***************************************************************************)
(* What holds of one breaker holds of the manager                          *)
(***************************************************************************)

\* cb of CircuitBreaker follows the breaker in the map.
CbIsEntered == cb = Entered(heap, entry)

LEMMA CbFollows == CbIsEntered /\ [ManagerNext]_managerVars => CbIsEntered'
  BY DEF CbIsEntered, ManagerNext, managerVars, ManagerTick, Tick, Begin, Find, Create, Apply,
         ApplyAllow, ApplySuccess, ApplyFailure, ManagerLeave, Leave, Entered

\* A step of the breaker in the map is a step of cb.
LEMMA StepOfCb ==
  ASSUME CbIsEntered, CbIsEntered', [OneBreaker!Next]_(OneBreaker!vars)
  PROVE  [Next]_vars
<1> USE DEF CbIsEntered
<1>1. CASE OneBreaker!Tick
    BY <1>1 DEF OneBreaker!Tick, Tick, Next
<1>2. ASSUME NEW c \in Callers, OneBreaker!Allow(c) PROVE Allow(c)
    BY <1>2 DEF OneBreaker!Allow, Allow, OneBreaker!Allows, Allows, OneBreaker!AfterAllow,
                AfterAllow, OneBreaker!CooldownOver, CooldownOver
<1>3. ASSUME NEW c \in Callers, OneBreaker!RecordSuccess(c) PROVE RecordSuccess(c)
    BY <1>3 DEF OneBreaker!RecordSuccess, RecordSuccess, OneBreaker!AfterSuccess, AfterSuccess
<1>4. ASSUME NEW c \in Callers, OneBreaker!RecordFailure(c) PROVE RecordFailure(c)
    BY <1>4 DEF OneBreaker!RecordFailure, RecordFailure, OneBreaker!AfterFailure, AfterFailure
<1>5. ASSUME NEW c \in Callers, OneBreaker!Leave(c) PROVE Leave(c)
    BY <1>5 DEF OneBreaker!Leave, Leave
<1>6. CASE UNCHANGED OneBreaker!vars
    BY <1>6 DEF OneBreaker!vars, vars
<1> QED
    BY <1>1, <1>2, <1>3, <1>4, <1>5, <1>6 DEF OneBreaker!Next, Next

\* The manager's behaviors are behaviors of the single breaker.
LEMMA ManagerBehaves == ManagerSpec => Spec
<1>1. ManagerInit => Init /\ CbIsEntered
    BY DEF ManagerInit, Init, CbIsEntered, Entered
<1>2. /\ MInv /\ CbIsEntered /\ [ManagerNext]_managerVars
      => /\ MInv' /\ CbIsEntered' /\ [Next]_vars
    BY ManagerStep, CbFollows, StepOfCb
<1> QED
    BY <1>1, <1>2, MInvInit, PTL DEF ManagerSpec, Spec

\* However requests race through getOrCreate, Threshold failures without a success
\* between leave the breaker they share not Closed, and nothing else does.
THEOREM ManagerKeepsThreshold == ManagerSpec => []ClosedBelowThreshold
  BY ManagerBehaves, ClosedExactlyBelowThreshold, PTL

\* Nor is anybody let through the manager before the cooldown is over.
THEOREM ManagerRespectsCooldown == ManagerSpec => CooldownRespected
  BY ManagerBehaves, NobodyAdmittedDuringCooldown, PTL

\* Callers of the manager see the stateless gate.
THEOREM ManagerImplementsContract == ManagerSpec => ContractSpec
  BY ManagerBehaves, ImplementsContract, PTL
=============================================================================
