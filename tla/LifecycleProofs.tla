--------------------------- MODULE LifecycleProofs ---------------------------
(***************************************************************************)
(* Shutdown, for every number of requests and edits: main closes Redis,    *)
(* the embedding engine and the store under a running request only when    *)
(* the deadline of Shutdown is over.  The argument: resources are closed   *)
(* after Shutdown has returned only; it returns with no request in flight  *)
(* or late; and from then on none arrives.                                 *)
(***************************************************************************)
EXTENDS Lifecycle, TLAPS

Closing == {"close_redis", "close_embed", "close_store", "stopped"}

Quiet == deadline \/ \A r \in Requests : ~InFlight(r)

\* What is closed was closed by main on its way out.
ClosedByMain ==
  (\E x \in Resource : res[x] = "closed") => main \in Closing \cup {"exited"}

\* Once Shutdown has returned, requests are over or it did not wait any longer.
ShutdownWaited == main \in Closing => Quiet

\* What the steps need of the types.
Shape == /\ res \in [Resource -> {"none", "open", "closed"}]
         /\ DOMAIN req = Requests

IInv == Shape /\ ClosedByMain /\ ShutdownWaited /\ ResourcesOutliveRequests

\* A request that takes a step has arrived, or arrives while main serves.
LEMMA StepsInFlight ==
  ASSUME NEW r \in Requests, RequestStep(r), main \in Closing
  PROVE  InFlight(r)
  BY DEF RequestStep, Arrive, Auth, Limit, Validate, Parse, Lookup, Embedded, Route, Provider,
         Store, Save, Health, InFlight, Closing

LEMMA IInvInit == Init => IInv
  BY DEF Init, IInv, Shape, ClosedByMain, ShutdownWaited, ResourcesOutliveRequests, Closing,
         Resource

\* main's steps do not touch requests, and only the last of them close anything.
LEMMA MainKeeps == IInv /\ MainStep => IInv'
<1> SUFFICES ASSUME IInv, MainStep PROVE IInv'
    OBVIOUS
<1> USE DEF IInv, Shape, ClosedByMain, ShutdownWaited, ResourcesOutliveRequests, Quiet,
            InFlight, Closing
<1>1. CASE LoadConfig
    BY <1>1 DEF LoadConfig, From
<1>2. CASE WatchConfig
    BY <1>2 DEF WatchConfig, From
<1>3. CASE OpenAll
  <2>1. ASSUME NEW x \in Resource, NEW here, NEW there, Open(x, here, there),
               here \in {"embed", "redis", "cache"}, there \in {"redis", "cache", "serve"}
        PROVE  IInv'
      BY <2>1 DEF Open, From
  <2>2. CASE From("cache", "serve") /\ UNCHANGED <<bounds, config, res, cacheOn, signaled,
                                                   deadline, req>>
      BY <2>2 DEF From
  <2> QED
      BY <1>3, <2>1, <2>2 DEF OpenAll, Resource
<1>4. CASE Serve \/ Notify \/ StartShutdown
    BY <1>4 DEF Serve, Notify, StartShutdown, From
<1>5. CASE ShutdownReturns
    BY <1>5 DEF ShutdownReturns, ShutdownOver, From
<1>6. CASE CloseAll
  <2>1. ASSUME NEW x \in Resource, NEW here \in Closing, NEW there \in Closing,
               Close(x, here, there)
        PROVE  IInv'
      BY <2>1 DEF Close, From
  <2> QED
      BY <1>6, <2>1 DEF CloseAll, Resource
<1> QED
    BY <1>1, <1>2, <1>3, <1>4, <1>5, <1>6 DEF MainStep

\* After Shutdown requests only end.
LEMMA RequestsKeep ==
  ASSUME IInv, NEW r \in Requests, RequestStep(r) PROVE IInv'
<1>1. UNCHANGED <<main, res, deadline>> /\ DOMAIN req' = Requests
    BY DEF IInv, Shape, RequestStep, proc, Arrive, Auth, Limit, Validate, Parse, Lookup,
           Embedded, Route, Provider, Store, Save, Health, Go, Reply, Embed
<1>2. main \in Closing => deadline
    BY StepsInFlight DEF IInv, ShutdownWaited, Quiet
<1>3. CASE main = "exited"
    BY <1>3 DEF RequestStep, Running
<1> QED
    BY <1>1, <1>2, <1>3 DEF IInv, Shape, ClosedByMain, ShutdownWaited, Quiet,
                            ResourcesOutliveRequests

LEMMA IInvStep == IInv /\ [Next]_vars => IInv'
<1> SUFFICES ASSUME IInv, [Next]_vars PROVE IInv'
    OBVIOUS
<1> USE DEF IInv, Shape, ClosedByMain, ShutdownWaited, ResourcesOutliveRequests, Quiet,
            InFlight, Closing
<1>1. CASE MainStep
    BY <1>1, MainKeeps
<1>2. CASE ServeFails \/ Signal \/ Crash
    BY <1>2 DEF ServeFails, Signal, Crash
<1>3. CASE DeadlinePasses
    BY <1>3 DEF DeadlinePasses
<1>4. CASE Watcher \/ ConfigEdit
    BY <1>4 DEF Watcher, ConfigEdit, proc
<1>5. ASSUME NEW r \in Requests, RequestStep(r) PROVE IInv'
    BY <1>5, RequestsKeep
<1>6. CASE Terminated \/ UNCHANGED vars
    BY <1>6 DEF Terminated, vars, proc
<1> QED
    BY <1>1, <1>2, <1>3, <1>4, <1>5, <1>6 DEF Next

\* main closes what requests use only when none is left or Shutdown's deadline is
\* over, however many requests there are and wherever signals and edits fall.
THEOREM NothingClosedUnderRequests == Spec => []ResourcesOutliveRequests
<1>1. IInv => ResourcesOutliveRequests
    BY DEF IInv
<1> QED
    BY IInvInit, IInvStep, <1>1, PTL DEF Spec

-----------------------------------------------------------------------------
(***************************************************************************)
(* Types: what has been validated and parsed, and when the engine runs     *)
(***************************************************************************)

Request == [at : {"new", "auth", "limit", "validate", "parse", "lookup", "embedding",
                  "route", "provider", "store", "save", "health", "answered"},
            body : Body \cup {"none"},
            next : {"none", "route", "provider", "save"},
            answer : Answer \cup {"none"}]

\* A request has a body in every middleware, and one of the bodies that are valid when
\* the handler parses it.
InMiddlewares ==
  \A r \in Requests :
    /\ req[r].at \in {"auth", "limit", "validate"} => req[r].body \in Body
    /\ req[r].at = "parse" => req[r].body \in Prompt \cup {"malformed"}

Starting == {"load", "publish", "watch", "callback", "embed", "redis", "cache", "serve"}

\* Until the listener runs no request has arrived: none meets an engine that is not
\* there yet.
NoneBeforeServe == main \in Starting => \A r \in Requests : req[r].at = "new"

TInv == TypeOK /\ req \in [Requests -> Request] /\ InMiddlewares /\ NoneBeforeServe

\* What TypeOK says of the process alone.
Process == /\ ConfigTypeOK /\ bounds \in Bounds /\ main \in Steps
           /\ res \in [Resource -> {"none", "open", "closed"}]
           /\ cacheOn \in BOOLEAN /\ signaled \in BOOLEAN /\ deadline \in BOOLEAN
           /\ snapshot = None => main \in {"load", "publish", "exited"}

\* A step of the process under the requests: an engine that is there does not go away,
\* once requests can run on it.
ProcessStep ==
  /\ Process' /\ req' = req /\ cacheOn' = cacheOn
  /\ main' \in Starting => main \in Starting
  /\ res'["embed"] = "none" => res["embed"] = "none" \/ main \in Starting

LEMMA TInvInit == Init => TInv
<1> SUFFICES ASSUME Init PROVE TInv
    OBVIOUS
<1>1. ConfigTypeOK
  <2>1. 0 \in 0..MaxEdits
      BY ConfigAssumption
  <2>2. file \in File
    <3>1. PICK c \in Content : file = [edit |-> 0, content |-> c]
        BY DEF Init, ConfigInit
    <3> QED
        BY <2>1, <3>1 DEF File
  <2> QED
      BY <2>2 DEF Init, ConfigInit, ConfigTypeOK, Watch
<1>2. New \in Request
    BY DEF New, Request
<1>3. req \in [Requests -> Request] /\ \A r \in Requests : req[r] = New
    BY <1>2 DEF Init
<1> QED
    BY <1>1, <1>3 DEF Init, ConfigInit, TInv, TypeOK, InMiddlewares, NoneBeforeServe, New,
                      Steps

\* A good file published is a snapshot, a bad one leaves it alone.
LEMMA PublishTypes ==
  ASSUME ConfigTypeOK, NEW l \in {"main", "watcher"}, Publish(l)
  PROVE  /\ snapshot' \in {None} \cup 0..MaxEdits
         /\ snapshot' = None => snapshot = None /\ buffer[l].content # "good"
         /\ buffer' \in [{"main", "watcher"} -> File \cup {Nothing}]
<1>1. CASE buffer[l].content = "good"
  <2>1. buffer[l] \in File
      BY <1>1 DEF ConfigTypeOK, Nothing
  <2> QED
      BY <1>1, <2>1, ConfigAssumption DEF Publish, ConfigTypeOK, File, None
<1>2. CASE buffer[l].content # "good"
    BY <1>2 DEF Publish, ConfigTypeOK
<1> QED
    BY <1>1, <1>2

LEMMA MainTypes == TInv /\ MainStep => ProcessStep
<1> SUFFICES ASSUME TInv, MainStep PROVE ProcessStep
    OBVIOUS
<1> USE DEF TInv, TypeOK, Process, ProcessStep, Steps, Starting
<1>1. CASE LoadConfig
  <2>1. CASE main = "load"
      BY <1>1, <2>1 DEF LoadConfig, From, Read, ConfigTypeOK
  <2>2. CASE main = "publish"
      BY <1>1, <2>2, PublishTypes DEF LoadConfig, From, ConfigTypeOK
  <2> QED
      BY <1>1, <2>1, <2>2 DEF LoadConfig, From
<1>2. CASE WatchConfig
    BY <1>2 DEF WatchConfig, From, StartWatch, SetCallback, ConfigTypeOK, Watch
<1>3. CASE OpenAll
  <2>1. ASSUME NEW x \in Resource, NEW here, NEW there, Open(x, here, there),
               here \in {"embed", "redis", "cache"}, there \in {"redis", "cache", "serve"}
        PROVE  ProcessStep
      BY <2>1 DEF Open, From, config, ConfigTypeOK, Resource
  <2>2. CASE From("cache", "serve") /\ UNCHANGED <<bounds, config, res, cacheOn, signaled,
                                                   deadline, req>>
      BY <2>2 DEF From, config, ConfigTypeOK
  <2> QED
      BY <1>3, <2>1, <2>2 DEF OpenAll, Resource
<1>4. CASE Serve \/ Notify \/ StartShutdown \/ ShutdownReturns
    BY <1>4 DEF Serve, Notify, StartShutdown, ShutdownReturns, From, config, ConfigTypeOK
<1>5. CASE CloseAll
  <2>1. ASSUME NEW x \in Resource, NEW here \in Closing \ {"stopped"}, NEW there \in Closing,
               Close(x, here, there)
        PROVE  ProcessStep
      BY <2>1 DEF Close, From, Closing, config, ConfigTypeOK, Resource
  <2> QED
      BY <1>5, <2>1 DEF CloseAll, Resource, Closing
<1> QED
    BY <1>1, <1>2, <1>3, <1>4, <1>5 DEF MainStep

LEMMA WatcherTypes == TInv /\ (Watcher \/ ConfigEdit) => ProcessStep
<1> SUFFICES ASSUME TInv, Watcher \/ ConfigEdit PROVE ProcessStep
    OBVIOUS
<1> USE DEF TInv, TypeOK, Process, ProcessStep, proc
<1>1. CASE Watcher /\ ReloadPublish
    BY <1>1, PublishTypes DEF Watcher, ReloadPublish, ConfigTypeOK
<1>2. CASE Watcher /\ (EventLost \/ ReloadRead)
    BY <1>2 DEF Watcher, EventLost, ReloadRead, Read, ConfigTypeOK
<1>3. CASE ConfigEdit
    BY <1>3, ConfigAssumption DEF ConfigEdit, Edit, ConfigTypeOK, File
<1> QED
    BY <1>1, <1>2, <1>3 DEF Watcher, WatcherStep

LEMMA RequestTypes ==
  ASSUME TInv, NEW r \in Requests, RequestStep(r)
  PROVE  TInv'
<1>1. UNCHANGED <<config, proc>>
    BY DEF RequestStep
<1> DEFINE Good(q) ==
      /\ q \in Request /\ req' = [req EXCEPT ![r] = q]
      /\ q.at \in {"lookup", "route", "provider"} => q.body \in Prompt
      /\ q.at \in {"store", "save"} => cacheOn /\ q.body = "plain"
      /\ q.at = "embedding" =>
           /\ res["embed"] # "none"
           /\ \/ q.next = "provider" /\ q.body \in Prompt
              \/ q.next \in {"route", "save"} /\ cacheOn /\ q.body = "plain"
      /\ q.at \in {"auth", "limit", "validate"} => q.body \in Body
      /\ q.at = "parse" => q.body \in Prompt \cup {"malformed"}
<1>2. \E q : Good(q)
  <2> USE DEF TInv, TypeOK, Request, InMiddlewares, UsesCache, Prompt, Body
  <2>a. ASSUME NEW a \in Answer, Reply(r, a) PROVE \E q : Good(q)
    <3>1. Good([New EXCEPT !.at = "answered", !.answer = a])
        BY <2>a DEF Reply, New
    <3> QED
        BY <3>1
  <2>g. ASSUME NEW at \in {"limit", "validate", "parse", "lookup", "route", "provider",
                          "store", "save", "health"},
               Go(r, at),
               at \in {"lookup", "route", "provider"} => req[r].body \in Prompt,
               at \in {"store", "save"} => cacheOn /\ req[r].body = "plain",
               at \in {"limit", "validate"} => req[r].body \in Body,
               at = "parse" => req[r].body \in Prompt \cup {"malformed"}
        PROVE  \E q : Good(q)
    <3>1. Good([req[r] EXCEPT !.at = at])
        BY <2>g DEF Go
    <3> QED
        BY <3>1
  <2>e. ASSUME NEW next \in {"route", "provider", "save"}, Embed(r, next),
               req[r].body \in Prompt,
               next \in {"route", "save"} => cacheOn /\ req[r].body = "plain"
        PROVE  \E q : Good(q)
    <3>1. CASE Reply(r, "panicked")
        BY <2>a, <3>1 DEF Answer
    <3>2. CASE /\ res["embed"] # "none"
               /\ req' = [req EXCEPT ![r].at = "embedding", ![r].next = next]
      <4>1. Good([req[r] EXCEPT !.at = "embedding", !.next = next])
          BY <2>e, <3>2
      <4> QED
          BY <4>1
    <3> QED
        BY <2>e, <3>1, <3>2 DEF Embed
  <2>1. CASE Arrive(r)
    <3>1. CASE Go(r, "health")
        BY <3>1, <2>g
    <3>2. ASSUME NEW b \in Body, req' = [req EXCEPT ![r].at = "auth", ![r].body = b]
          PROVE  \E q : Good(q)
      <4>1. Good([req[r] EXCEPT !.at = "auth", !.body = b])
          BY <3>2
      <4> QED
          BY <4>1
    <3> QED
        BY <2>1, <3>1, <3>2 DEF Arrive
  <2>2. CASE Auth(r)
      BY <2>2, <2>a, <2>g DEF Auth, Answer
  <2>3. CASE Limit(r)
      BY <2>3, <2>a, <2>g DEF Limit, Answer
  <2>4. CASE Validate(r)
      BY <2>4, <2>a, <2>g DEF Validate, Answer
  <2>5. CASE Parse(r)
      BY <2>5, <2>a, <2>g DEF Parse, Answer
  <2>6. CASE Lookup(r)
      BY <2>6, <2>g, <2>e DEF Lookup
  <2>7. CASE Embedded(r)
      BY <2>7, <2>a, <2>g DEF Embedded, Answer
  <2>8. CASE Route(r)
      BY <2>8, <2>g, <2>e DEF Route
  <2>9. CASE Provider(r)
      BY <2>9, <2>a, <2>g DEF Provider, Answer
  <2>10. CASE Store(r)
      BY <2>10, <2>e DEF Store
  <2>11. CASE Save(r) \/ Health(r)
      BY <2>11, <2>a DEF Save, Health, Answer
  <2> QED
      BY <2>1, <2>2, <2>3, <2>4, <2>5, <2>6, <2>7, <2>8, <2>9, <2>10, <2>11 DEF RequestStep
<1>3. PICK q : Good(q)
    BY <1>2
<1>4. req' \in [Requests -> Request]
    BY <1>3 DEF TInv
<1>5. InMiddlewares'
    BY <1>3, <1>4 DEF TInv, InMiddlewares
<1>6. main \notin Starting
    BY DEF TInv, NoneBeforeServe, Starting, RequestStep, Arrive, Auth, Limit, Validate, Parse,
           Lookup, Embedded, Route, Provider, Store, Save, Health
<1>7. NoneBeforeServe'
    BY <1>1, <1>6 DEF NoneBeforeServe, proc
<1>8. TypeOK'
    BY <1>1, <1>3, <1>4 DEF TInv, TypeOK, ConfigTypeOK, UsesCache, config, proc, Request
<1> QED
    BY <1>4, <1>5, <1>7, <1>8 DEF TInv

LEMMA TInvStep == TInv /\ [Next]_vars => TInv'
<1> SUFFICES ASSUME TInv, [Next]_vars PROVE TInv'
    OBVIOUS
<1>p. ProcessStep => TInv'
  <2> SUFFICES ASSUME ProcessStep PROVE TInv'
      OBVIOUS
  <2>1. ASSUME NEW r \in Requests, req[r].at = "embedding"
        PROVE  res'["embed"] # "none"
      BY <2>1 DEF ProcessStep, TInv, TypeOK, NoneBeforeServe
  <2>2. TypeOK'
      BY <2>1 DEF ProcessStep, Process, TInv, TypeOK, UsesCache
  <2> QED
      BY <2>2 DEF ProcessStep, TInv, InMiddlewares, NoneBeforeServe
<1>1. CASE MainStep
    BY <1>1, <1>p, MainTypes
<1>2. CASE ServeFails \/ Signal \/ Crash \/ DeadlinePasses
  <2>1. /\ req' = req /\ cacheOn' = cacheOn /\ UNCHANGED <<config, bounds, res>>
        /\ main' \in {main, "exited"}
        /\ signaled' \in {signaled, TRUE} /\ deadline' \in {deadline, TRUE}
      BY <1>2 DEF ServeFails, Signal, Crash, DeadlinePasses
  <2>2. ConfigTypeOK' /\ snapshot' = snapshot
      BY <2>1 DEF TInv, TypeOK, ConfigTypeOK, config
  <2>3. ProcessStep
      BY <2>1, <2>2 DEF TInv, TypeOK, Process, ProcessStep, Steps, Starting
  <2> QED
      BY <1>p, <2>3
<1>3. CASE Watcher \/ ConfigEdit
    BY <1>3, <1>p, WatcherTypes
<1>4. ASSUME NEW r \in Requests, RequestStep(r) PROVE TInv'
    BY <1>4, RequestTypes
<1>5. CASE Terminated \/ UNCHANGED vars
  <2>1. UNCHANGED vars
      BY <1>5 DEF Terminated
  <2>2. ProcessStep
      BY <2>1 DEF vars, proc, config, Process, ProcessStep, TInv, TypeOK, ConfigTypeOK
  <2> QED
      BY <1>p, <2>2
<1> QED
    BY <1>1, <1>2, <1>3, <1>4, <1>5 DEF Next

\* Every state has its type: what reaches the cache, routing or a provider has been
\* validated and parsed; the engine runs only where it has started, for the cache only
\* when that is on and the prompt is no stream, for routing with any prompt; and from
\* the load on there is a snapshot.
THEOREM TypeCorrect == Spec => []TypeOK
<1>1. TInv => TypeOK
    BY DEF TInv
<1> QED
    BY TInvInit, TInvStep, <1>1, PTL DEF Spec
=============================================================================
