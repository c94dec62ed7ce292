--------------------------- MODULE BreakerManager ---------------------------
(***************************************************************************)
(* circuitBreakerManagerImpl of ingress/service.go, for one provider and   *)
(* model: the keys share only the lock.  No breaker exists at the start.   *)
(* Every method of the manager first gets the breaker from the map, under  *)
(* the read lock, or creates it, under the write lock, and then calls the  *)
(* breaker's method with neither lock held: requests interleave between    *)
(* these steps, and one may still hold a pointer when the map has changed. *)
(*                                                                         *)
(* The manager is shown to implement CircuitBreaker.tla, where the breaker *)
(* exists from the start and each call is one step; so what is proved of   *)
(* CircuitBreaker, and what Gateway assumes, holds of the manager.         *)
(***************************************************************************)
EXTENDS CircuitBreaker, FiniteSets, Sequences

VARIABLES heap,    \* the breakers created so far, a pointer is an index
          entry,   \* m.breakers[key], 0 while there is none
          doing    \* the manager's method each caller is in

managerVars == <<cb, now, call, streak, failedAt, heap, entry, doing>>

\* The breaker a method called next would find: cb of CircuitBreaker.
Entered(h, e) == IF e = 0 THEN NewCircuitBreaker ELSE h[e]

NotCalling == [pc |-> "idle", method |-> "none", ptr |-> 0]

ManagerInit == /\ Init
               /\ heap = <<>>
               /\ entry = 0
               /\ doing = [c \in Callers |-> NotCalling]

RecordingFailure == {c \in Callers : doing[c].method = "RecordFailure"}

\* The calls the chat service makes of the manager, in the order it makes them.
Calls(c, method) ==
  \/ method = "Allow" /\ call[c] = "idle"
  \/ method = "RecordSuccess" /\ call[c] = "admitted"
  \/ /\ method = "RecordFailure" /\ call[c] \in {"admitted", "failed"}
     /\ streak + Cardinality(RecordingFailure) < MaxFailures

Begin(c) ==
  /\ doing[c].pc = "idle"
  /\ \E method \in {"Allow", "RecordSuccess", "RecordFailure"} :
       /\ Calls(c, method)
       /\ doing' = [doing EXCEPT ![c].pc = "find", ![c].method = method]
  /\ UNCHANGED <<cb, now, call, streak, failedAt, heap, entry>>

\* The first look, under the read lock.
Find(c) ==
  /\ doing[c].pc = "find"
  /\ doing' = [doing EXCEPT ![c].pc = IF entry = 0 THEN "create" ELSE "apply",
                            ![c].ptr = entry]
  /\ UNCHANGED <<cb, now, call, streak, failedAt, heap, entry>>

\* mutant: no second look under the write lock.
Missing == TRUE

\* The second look, under the write lock.
Absent == entry = 0

Create(c) ==
  /\ doing[c].pc = "create"
  /\ heap' = IF Absent THEN Append(heap, NewCircuitBreaker) ELSE heap
  /\ entry' = IF Absent THEN Len(heap') ELSE entry
  /\ doing' = [doing EXCEPT ![c].pc = "apply", ![c].ptr = entry']
  /\ cb' = Entered(heap', entry')
  /\ UNCHANGED <<now, call, streak, failedAt>>

\* The breaker's method runs on the pointer, under the breaker's own lock.
Apply(c, method, breaker, outcome) ==
  /\ doing[c].pc = "apply" /\ doing[c].method = method
  /\ heap' = [heap EXCEPT ![doing[c].ptr] = breaker]
  /\ cb' = Entered(heap', entry)
  /\ call' = [call EXCEPT ![c] = outcome]
  /\ doing' = [doing EXCEPT ![c] = NotCalling]
  /\ UNCHANGED <<now, entry>>

Pointed(c) == heap[doing[c].ptr]

ApplyAllow(c) ==
  /\ Apply(c, "Allow", AfterAllow(Pointed(c), now),
           IF Allows(Pointed(c), now) THEN "admitted" ELSE "rejected")
  /\ UNCHANGED <<streak, failedAt>>

ApplySuccess(c) ==
  /\ Apply(c, "RecordSuccess", AfterSuccess(Pointed(c)), "idle")
  /\ streak' = 0
  /\ UNCHANGED failedAt

ApplyFailure(c) ==
  /\ Apply(c, "RecordFailure", AfterFailure(Pointed(c), now), "failed")
  /\ streak' = streak + 1
  /\ failedAt' = now

ManagerLeave(c) ==
  /\ doing[c].pc = "idle"
  /\ Leave(c)
  /\ UNCHANGED <<heap, entry, doing>>

ManagerTick == Tick /\ UNCHANGED <<heap, entry, doing>>

ManagerNext ==
  \/ ManagerTick
  \/ \E c \in Callers : \/ Begin(c) \/ Find(c) \/ Create(c) \/ ApplyAllow(c)
                        \/ ApplySuccess(c) \/ ApplyFailure(c) \/ ManagerLeave(c)

ManagerSpec == ManagerInit /\ [][ManagerNext]_managerVars

-----------------------------------------------------------------------------
(***************************************************************************)
(* Properties                                                              *)
(***************************************************************************)

\* Whatever requests race to be the first, they share one breaker that forgets
\* none of their failures: the manager implements the single breaker that has
\* been there from the start.
OneBreaker == INSTANCE CircuitBreaker WITH cb <- Entered(heap, entry)

SharesOneBreaker == OneBreaker!Spec
=============================================================================
