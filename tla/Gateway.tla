------------------------------ MODULE Gateway ------------------------------
(***************************************************************************)
(* The non-streaming path of the gateway (HandleChatCompletion,            *)
(* buildSendFn and CircuitBreakerManager in ingress/service.go, Execute in *)
(* fallback/engine.go).  Concurrent requests look into the semantic cache, *)
(* are routed, ask the breaker of their provider and model, and run the    *)
(* engine's attempts one by one; they share the breakers and the cache.    *)
(* A client may go away at any time, which cancels the request's context;  *)
(* the providers answer, fail or time out.                                 *)
(*                                                                         *)
(* The cache is abstract here (a set of stored responses, of which Lookup  *)
(* may find any one of the same model): SemanticCache.tla opens it up.     *)
(* The backoff timer fires at some time: its length is not related to the  *)
(* breakers' clock.                                                        *)
(***************************************************************************)
EXTENDS Breaker, Fallback, FiniteSets

CONSTANTS Requests,   \* concurrent requests
          Model,      \* the models a request may name, and their routes
          Provider,   \* every provider name a route may carry
          Registry,   \* the registered ones: providerLookup is nil elsewhere
          ReqModels,  \* the models the requests may name: a set of functions
          Routes,     \* model |-> the <<provider, model>> Route may return for it
          Answers,    \* what a provider may answer
          MaxTime     \* bound: the breakers' clock stops here

AnswerKind == {"ok", "status4xx", "status5xx", "network", "malformed", "canceled"}

ASSUME GatewayAssumption ==
  /\ Registry \subseteq Provider
  /\ NoProvider \notin Provider
  /\ DOMAIN Chain = Model
  /\ ReqModels \subseteq [Requests -> Model]
  /\ Routes \in [Model -> SUBSET (Provider \X Model)]
  /\ Answers \subseteq AnswerKind
  /\ MaxTime \in Nat

Key == Provider \X Model

VARIABLES asks,      \* the model each request names
          breakers,  \* cbManager.breakers: the breaker of each provider and model
          now,       \* the clock the breakers read
          stored,    \* the responses in the semantic cache
          pc,        \* where each request's handler is
          canceled,  \* requests whose context is done
          route,     \* the RouteDecision of each request
          att,       \* Execute: index of the current attempt
          skip,      \* Execute: skipRetries
          reply,     \* what each request was answered
          sends      \* history: the calls each request made to a provider

vars == <<asks, breakers, now, stored, pc, canceled, route, att, skip, reply, sends>>

execution == <<att, skip>>

PC == {"lookup", "route", "attempt", "backoff", "call", "sending", "store", "done"}

Response == [by : Provider \X Model, for : Model]
Kind == {"none", "answer", "cached", "canned", "circuit_open", "no_route", "canceled"}
NoRoute == <<NoProvider, NoProvider>>
NoReply == [kind |-> "none", body |-> NoRoute]

TypeOK ==
  /\ asks \in ReqModels
  /\ breakers \in [Key -> BreakerType(0..MaxTime)]
  /\ now \in 0..MaxTime
  /\ stored \subseteq Response
  /\ pc \in [Requests -> PC]
  /\ canceled \subseteq Requests
  /\ route \in [Requests -> Key \cup {NoRoute}]
  /\ att \in [Requests -> Nat \ {0}]
  /\ skip \in [Requests -> BOOLEAN]
  /\ reply \in [Requests -> [kind : Kind, body : Key \cup {NoRoute}]]
  /\ \A r \in Requests : \A i \in DOMAIN sends[r] :
       sends[r][i] \in [to : Key, level : Level, got : AnswerKind \cup {"pending"},
                        late : BOOLEAN]

Init ==
  /\ asks \in ReqModels
  /\ breakers = [k \in Key |-> NewCircuitBreaker]
  /\ now = 0
  /\ stored = {}
  /\ pc = [r \in Requests |-> "lookup"]
  /\ canceled = {}
  /\ route = [r \in Requests |-> NoRoute]
  /\ att = [r \in Requests |-> 1]
  /\ skip = [r \in Requests |-> FALSE]
  /\ reply = [r \in Requests |-> NoReply]
  /\ sends = [r \in Requests |-> <<>>]

\* mutant: the context is another request's.
AnyContextDone(r) == canceled # {}

\* mutant: nobody looks at the context.
ContextIgnored(r) == FALSE

\* ctx.Err() # nil
CtxDone(r) == r \in canceled

Plan(r) == Attempts(route[r][1], route[r][2])

\* The handler goes on at l.
Goto(r, l) == pc' = [pc EXCEPT ![r] = l]

\* The handler returns.
Return(r, kind, body) ==
  /\ Goto(r, "done")
  /\ reply' = [reply EXCEPT ![r] = [kind |-> kind, body |-> body]]

-----------------------------------------------------------------------------
(***************************************************************************)
(* HandleChatCompletion before the engine                                  *)
(***************************************************************************)

LookupHit(r) ==
  /\ pc[r] = "lookup"
  /\ \E e \in stored : /\ e.for = asks[r]
                       /\ Return(r, "cached", e.by)
  /\ UNCHANGED <<asks, breakers, now, stored, canceled, route, execution, sends>>

LookupMiss(r) ==
  /\ pc[r] = "lookup"
  /\ Goto(r, "route")
  /\ UNCHANGED <<asks, breakers, now, stored, canceled, route, execution, reply, sends>>

RouteError(r) ==
  /\ pc[r] = "route"
  /\ Routes[asks[r]] = {}
  /\ Return(r, "no_route", NoRoute)
  /\ UNCHANGED <<asks, breakers, now, stored, canceled, route, execution, sends>>

\* Route, then Allow on the routed provider and model before anything is sent.
Route(r) ==
  /\ pc[r] = "route"
  /\ \E k \in Routes[asks[r]] :
       /\ route' = [route EXCEPT ![r] = k]
       /\ breakers' = [breakers EXCEPT ![k] = AfterAllow(@, now)]
       /\ \/ /\ Allows(breakers[k], now)
             /\ Goto(r, "attempt")
             /\ UNCHANGED reply
          \/ /\ ~Allows(breakers[k], now)
             /\ Return(r, "circuit_open", NoRoute)
  /\ UNCHANGED <<asks, now, stored, canceled, execution, sends>>

-----------------------------------------------------------------------------
(***************************************************************************)
(* Execute, and the sendFn it calls                                        *)
(***************************************************************************)

\* mutant: the canned response is stored like an answer.
ExhaustedThenStored(r) ==
  /\ pc[r] = "attempt"
  /\ att[r] > Len(Plan(r))
  /\ Goto(r, "store")
  /\ reply' = [reply EXCEPT ![r] = [kind |-> "canned", body |-> route[r]]]
  /\ UNCHANGED <<asks, breakers, now, stored, canceled, route, execution, sends>>

\* The loop has ended without a success: the canned response, with no error,
\* which the handler labels with the routed provider.
Exhausted(r) ==
  /\ pc[r] = "attempt"
  /\ att[r] > Len(Plan(r))
  /\ Return(r, "canned", route[r])
  /\ UNCHANGED <<asks, breakers, now, stored, canceled, route, execution, sends>>

\* The top of the loop sees the context done, or the wait for the backoff does.
ContextDone(r) ==
  /\ \/ pc[r] = "attempt" /\ att[r] <= Len(Plan(r))
     \/ pc[r] = "backoff"
  /\ CtxDone(r)
  /\ Return(r, "canceled", NoRoute)
  /\ UNCHANGED <<asks, breakers, now, stored, canceled, route, execution, sends>>

\* The top of the loop: a retry that is skipped, one that waits first, or any
\* other attempt, which calls sendFn at once.
NextAttempt(r) ==
  /\ pc[r] = "attempt"
  /\ att[r] <= Len(Plan(r))
  /\ ~CtxDone(r)
  /\ LET retry == Plan(r)[att[r]].level = "retry" IN
       \/ /\ retry /\ skip[r]
          /\ att' = [att EXCEPT ![r] = @ + 1]
          /\ UNCHANGED pc
       \/ /\ ~(retry /\ skip[r])
          /\ Goto(r, IF retry THEN "backoff" ELSE "call")
          /\ UNCHANGED att
  /\ UNCHANGED <<asks, breakers, now, stored, canceled, route, skip, reply, sends>>

BackoffOver(r) ==
  /\ pc[r] = "backoff"
  /\ Goto(r, "call")
  /\ UNCHANGED <<asks, breakers, now, stored, canceled, route, execution, reply, sends>>

\* mutant: the loop starts again.
AttemptRestarted(r, code) ==
  /\ att' = [att EXCEPT ![r] = 0]
  /\ Goto(r, "attempt")
  /\ UNCHANGED skip

\* mutant: the loop stays at the attempt that failed.
AttemptRepeated(r, code) == Goto(r, "attempt") /\ UNCHANGED <<att, skip>>

\* What Execute does with an error of the current attempt.
AttemptFailed(r, code) ==
  /\ skip' = [skip EXCEPT ![r] = \/ @
                                 \/ /\ Plan(r)[att[r]].level = "primary"
                                    /\ ~IsRetryable(code)]
  /\ att' = [att EXCEPT ![r] = @ + 1]
  /\ Goto(r, "attempt")

\* sendFn returns before it asks any breaker when providerLookup finds nothing.
ProviderNotFound(r) ==
  /\ pc[r] = "call"
  /\ Plan(r)[att[r]].provider \notin Registry
  /\ AttemptFailed(r, "provider_error")
  /\ UNCHANGED <<asks, breakers, now, stored, canceled, route, reply, sends>>

\* sendFn asks the breaker again; only an allowed attempt reaches the provider.
Call(r) ==
  /\ pc[r] = "call"
  /\ Plan(r)[att[r]].provider \in Registry
  /\ LET k == <<Plan(r)[att[r]].provider, Plan(r)[att[r]].model>> IN
       /\ breakers' = [breakers EXCEPT ![k] = AfterAllow(@, now)]
       /\ \/ /\ ~Allows(breakers[k], now)
             /\ AttemptFailed(r, "circuit_breaker_open")
             /\ UNCHANGED sends
          \/ /\ Allows(breakers[k], now)
             /\ Goto(r, "sending")
             /\ sends' = [sends EXCEPT ![r] = Append(@,
                   [to |-> k, level |-> Plan(r)[att[r]].level, got |-> "pending",
                    late |-> r \in canceled])]
             /\ UNCHANGED execution
  /\ UNCHANGED <<asks, now, stored, canceled, route, reply>>

\* The error the adapters make of an answer.
CodeOf(answer) ==
  CASE answer \in {"status4xx", "status5xx"} -> "provider_error"
    [] answer = "network"                    -> "network"
    [] OTHER                                 -> "other"

\* provider.Send returns and its outcome is recorded on the breaker, a canceled
\* context like any other error.
Answer(r, answer) ==
  /\ pc[r] = "sending"
  /\ answer = "canceled" => r \in canceled
  /\ LET k == sends[r][Len(sends[r])].to IN
       \/ /\ answer = "ok"
          /\ breakers' = [breakers EXCEPT ![k] = AfterSuccess(@)]
          /\ reply' = [reply EXCEPT ![r] = [kind |-> "answer", body |-> k]]
          /\ Goto(r, "store")
          /\ UNCHANGED execution
       \/ /\ answer # "ok"
          /\ breakers' = [breakers EXCEPT ![k] = AfterFailure(@, now)]
          /\ AttemptFailed(r, CodeOf(answer))
          /\ UNCHANGED reply
  /\ sends' = [sends EXCEPT ![r][Len(sends[r])].got = answer]
  /\ UNCHANGED <<asks, now, stored, canceled, route>>

-----------------------------------------------------------------------------
(***************************************************************************)
(* HandleChatCompletion after the engine, and the environment              *)
(***************************************************************************)

Store(r) ==
  /\ pc[r] = "store"
  /\ stored' = stored \cup {[by |-> reply[r].body, for |-> asks[r]]}
  /\ Goto(r, "done")
  /\ UNCHANGED <<asks, breakers, now, canceled, route, execution, reply, sends>>

\* The client goes away.
Cancel(r) ==
  /\ pc[r] # "done"
  /\ canceled' = canceled \cup {r}
  /\ UNCHANGED <<asks, breakers, now, stored, pc, route, execution, reply, sends>>

Tick ==
  /\ now < MaxTime
  /\ now' = now + 1
  /\ UNCHANGED <<asks, breakers, stored, pc, canceled, route, execution, reply, sends>>

Handler(r) ==
  \/ LookupHit(r) \/ LookupMiss(r)
  \/ RouteError(r) \/ Route(r)
  \/ Exhausted(r) \/ ContextDone(r) \/ NextAttempt(r) \/ BackoffOver(r)
  \/ ProviderNotFound(r) \/ Call(r)
  \/ \E a \in Answers : Answer(r, a)
  \/ Store(r)

\* Every request has been answered.
Terminated == /\ \A r \in Requests : pc[r] = "done"
              /\ UNCHANGED vars

Next == \/ Tick
        \/ \E r \in Requests : Handler(r) \/ Cancel(r)
        \/ Terminated

Spec == Init /\ [][Next]_vars

\* The Go scheduler runs every handler, timers fire, and http.Client's Timeout
\* bounds the wait for a provider.  Nothing obliges a client to stay or the
\* clock of the breakers to move.
FairSpec == Spec /\ \A r \in Requests : WF_vars(Handler(r))

-----------------------------------------------------------------------------
(***************************************************************************)
(* Properties                                                              *)
(***************************************************************************)

Failed(send) == send.got \notin {"ok", "pending"}

\* A client is told what happened to its request: an answer comes from the
\* provider that was called last and from no earlier call; the canned response
\* means that every call failed; the breaker's rejection, a missing route and a
\* cached answer mean that no provider was called at all; a cancellation is
\* reported only to a client that went away and that no provider answered.
AnswersMatchCalls ==
  \A r \in Requests :
    LET s == sends[r] IN
      CASE reply[r].kind = "answer" ->
             /\ s # <<>> /\ s[Len(s)].got = "ok" /\ s[Len(s)].to = reply[r].body
             /\ \A i \in 1..Len(s) - 1 : Failed(s[i])
        [] reply[r].kind = "canned" -> \A i \in DOMAIN s : Failed(s[i])
        [] reply[r].kind \in {"circuit_open", "no_route", "cached"} -> s = <<>>
        [] reply[r].kind = "canceled" ->
             r \in canceled /\ \A i \in DOMAIN s : Failed(s[i])
        [] OTHER -> pc[r] # "done"

\* One request costs its provider at most one call and RetryMax retries, and no
\* retry follows a primary call whose error cannot be retried.
RetryBudget ==
  \A r \in Requests :
    LET s == sends[r] IN
      /\ Cardinality({i \in DOMAIN s : s[i].level # "fallback"}) <= 1 + RetryMax
      /\ \A i, j \in DOMAIN s :
           /\ s[i].level = "primary" /\ Failed(s[i]) /\ ~IsRetryable(CodeOf(s[i].got))
           => s[j].level # "retry"

\* A client that goes away costs the providers at most one more call, so at most
\* one failure is held against a breaker for a call begun on a dead context.
CancelCostsOneCall ==
  \A r \in Requests : Cardinality({i \in DOMAIN sends[r] : sends[r][i].late}) <= 1

\* The cache holds only what a provider answered to a request of that model:
\* never the canned response.
StoredWereAnswered ==
  \A e \in stored : \E r \in Requests :
    /\ reply[r] = [kind |-> "answer", body |-> e.by]
    /\ asks[r] = e.for
    /\ sends[r][Len(sends[r])].got = "ok"

\* The failed calls to k in a history of calls: whose, and which of them.
Blamed(calls, k) ==
  {c \in Requests \X (1..1 + RetryMax) :
     LET s == calls[c[1]] IN
       c[2] \in DOMAIN s /\ s[c[2]].to = k /\ Failed(s[c[2]])}

\* Every failure held against a breaker is a call to that provider and model
\* that failed, each held once, whichever requests share the breaker; it stops
\* admitting only after Threshold such calls.  An attempt at an unregistered
\* provider, or one the breaker rejects, is held against nobody.
BreakersBlameCalls ==
  \A k \in Key :
    /\ breakers[k].failures <= Cardinality(Blamed(sends, k))
    /\ breakers[k].state # "Closed" => Cardinality(Blamed(sends, k)) >= Threshold

\* Every request is answered, whatever the providers, the breakers and the
\* other requests do.
EveryRequestAnswered == \A r \in Requests : <>(pc[r] = "done")

-----------------------------------------------------------------------------
(***************************************************************************)
(* What a document says of this path and the code does not do              *)
(***************************************************************************)

\* README, fallback: the models of chains.<model> are tried in order.
ChainTried ==
  \A r \in Requests : reply[r].kind = "canned" =>
    \A i \in DOMAIN Chain[route[r][2]] :
      \E j \in DOMAIN sends[r] : sends[r][j].to[2] = Chain[route[r][2]][i]
=============================================================================
