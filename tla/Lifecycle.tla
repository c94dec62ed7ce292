----------------------------- MODULE Lifecycle -----------------------------
(***************************************************************************)
(* The process: main of cmd/gateway/main.go from loading the configuration *)
(* to closing what it opened, the configuration's watcher, signals, and    *)
(* requests on their way through the middlewares, the handler, the cache,  *)
(* routing, the providers and the health check.  The cache and semantic    *)
(* routing share the embedding engine, which runs under a lock.            *)
(*                                                                         *)
(* Redis, the embedding engine and the store of the cache may each be      *)
(* missing from the start, and are closed while requests may still run:    *)
(* Shutdown waits for them, but not for longer than its deadline.  What    *)
(* the service does behind routing is one step here and Gateway.tla and    *)
(* Stream.tla there; the rate limit's count is RateLimit.tla, and which    *)
(* model routing picks is Router.tla.                                      *)
(***************************************************************************)
EXTENDS ConfigWatch

CONSTANTS Requests,   \* the requests
          Bounds      \* bounds of a behavior: how many edits, and which requests

ASSUME BoundsAssumption ==
  \A b \in Bounds : b.edits \in 0..MaxEdits /\ b.requests \subseteq Requests

VARIABLES bounds,    \* the member of Bounds this behavior has, fixed by Init
          main,      \* the next step of main
          res,       \* redisClient, embedding.Instance() and cacheStore
          cacheOn,   \* semantic_cache.enabled, as read at the start
          signaled,  \* a signal waits in quit
          deadline,  \* the ten seconds of Shutdown are over
          req        \* the requests

proc == <<bounds, main, res, cacheOn, signaled, deadline>>
vars == <<config, proc, req>>

Steps == {"load", "publish", "watch", "callback", "embed", "redis", "cache", "serve",
          "notify", "wait", "shutdown", "close_redis", "close_embed", "close_store",
          "stopped", "exited"}
Resource == {"redis", "embed", "store"}

\* What the middlewares, the handler and the cache look at.  A body that is no JSON
\* names no model.  A malformed one is valid to the middlewares, which look at some
\* fields only, but is no request to the handler.  An uncached request is a stream or
\* has no prompt that the cache may embed.
Body == {"no_model", "invalid", "malformed", "plain", "uncached"}

\* The bodies that are requests to the handler.
Prompt == {"plain", "uncached"}

\* How a request ends: it was refused, the service failed or served it, or Embed
\* panicked.  A panic over the type of an error counts as a failure.
Answer == {"refused", "failed", "served", "panicked"}

\* The cache is asked about prompts that are no stream and not too long.
UsesCache(r) == cacheOn /\ req[r].body = "plain"

New == [at |-> "new", body |-> "none", next |-> "none", answer |-> "none"]

TypeOK ==
  /\ ConfigTypeOK
  /\ bounds \in Bounds
  /\ main \in Steps
  /\ res \in [Resource -> {"none", "open", "closed"}]
  /\ cacheOn \in BOOLEAN /\ signaled \in BOOLEAN /\ deadline \in BOOLEAN
  /\ \A r \in Requests :
       /\ req[r].at \in {"new", "auth", "limit", "validate", "parse", "lookup", "embedding",
                         "route", "provider", "store", "save", "health", "answered"}
       /\ req[r].body \in Body \cup {"none"}
       /\ req[r].answer \in Answer \cup {"none"}
       /\ req[r].at \in {"lookup", "route", "provider"} => req[r].body \in Prompt
       /\ req[r].at \in {"store", "save"} => UsesCache(r)
       /\ req[r].at = "embedding" =>
            /\ res["embed"] # "none"
            /\ \/ req[r].next = "provider" /\ req[r].body \in Prompt
               \/ req[r].next \in {"route", "save"} /\ UsesCache(r)
  /\ snapshot = None => main \in {"load", "publish", "exited"}

Init ==
  /\ ConfigInit
  /\ bounds \in Bounds
  /\ main = "load"
  /\ res = [x \in Resource |-> "none"]
  /\ cacheOn \in BOOLEAN
  /\ signaled = FALSE /\ deadline = FALSE
  /\ req = [r \in Requests |-> New]

Running == main \notin {"stopped", "exited"}

-----------------------------------------------------------------------------
(***************************************************************************)
(* main                                                                    *)
(***************************************************************************)

From(here, there) == main = here /\ main' = there

LoadConfig ==
  \/ /\ From("load", "publish")
     /\ Read("main")
     /\ UNCHANGED <<bounds, file, heard, snapshot, watch, event, res, cacheOn, signaled,
                    deadline, req>>
  \/ /\ From("publish", IF buffer["main"].content = "good" THEN "watch" ELSE "exited")
     /\ Publish("main")
     /\ UNCHANGED <<bounds, file, heard, watch, event, res, cacheOn, signaled, deadline, req>>

WatchConfig ==
  /\ \/ From("watch", "callback") /\ StartWatch
     \/ From("callback", "embed") /\ SetCallback
  /\ UNCHANGED <<bounds, res, cacheOn, signaled, deadline, req>>

\* Each of the three may fail, with a warning.  The store belongs to the cache.
Open(x, here, there) ==
  /\ From(here, there)
  /\ \E how \in {"none", "open"} : res' = [res EXCEPT ![x] = how]
  /\ UNCHANGED <<bounds, config, cacheOn, signaled, deadline, req>>

OpenAll ==
  \/ Open("embed", "embed", "redis")
  \/ Open("redis", "redis", "cache")
  \/ cacheOn /\ Open("store", "cache", "serve")
  \/ ~cacheOn /\ From("cache", "serve")
     /\ UNCHANGED <<bounds, config, res, cacheOn, signaled, deadline, req>>

\* ListenAndServe runs in a goroutine of its own.
Serve ==
  /\ From("serve", "notify")
  /\ UNCHANGED <<bounds, config, res, cacheOn, signaled, deadline, req>>

\* It exits the process when it fails, without closing anything.
ServeFails ==
  /\ main \in {"notify", "wait"}
  /\ main' = "exited"
  /\ UNCHANGED <<bounds, config, res, cacheOn, signaled, deadline, req>>

\* From here on a signal is caught.
Notify ==
  /\ From("notify", "wait")
  /\ UNCHANGED <<bounds, config, res, cacheOn, signaled, deadline, req>>

Signal ==
  /\ Running
  /\ IF main = "wait" THEN signaled' = TRUE /\ UNCHANGED main
     ELSE /\ main \notin {"shutdown", "close_redis", "close_embed", "close_store"}
          /\ main' = "exited" /\ UNCHANGED signaled
  /\ UNCHANGED <<bounds, config, res, cacheOn, deadline, req>>

StartShutdown ==
  /\ signaled
  /\ From("wait", "shutdown")
  /\ UNCHANGED <<bounds, config, res, cacheOn, signaled, deadline, req>>

InFlight(r) == req[r].at \notin {"new", "answered"}

DeadlinePasses ==
  /\ main = "shutdown" /\ ~deadline
  /\ deadline' = TRUE
  /\ UNCHANGED <<bounds, config, main, res, cacheOn, signaled, req>>

\* mutant: Shutdown returns at once.
AtOnce == TRUE

\* mutant: Shutdown has no deadline.
NoneInFlight == \A r \in Requests : ~InFlight(r)

\* srv.Shutdown returns when no connection is busy, or at its deadline.
ShutdownOver == deadline \/ \A r \in Requests : ~InFlight(r)

ShutdownReturns ==
  /\ ShutdownOver
  /\ From("shutdown", "close_redis")
  /\ UNCHANGED <<bounds, config, res, cacheOn, signaled, deadline, req>>

\* Close of the engine does not take its lock.
Close(x, here, there) ==
  /\ From(here, there)
  /\ res' = [res EXCEPT ![x] = IF @ = "open" THEN "closed" ELSE @]
  /\ UNCHANGED <<bounds, config, cacheOn, signaled, deadline, req>>

CloseAll == \/ Close("redis", "close_redis", "close_embed")
            \/ Close("embed", "close_embed", "close_store")
            \/ Close("store", "close_store", "stopped")

MainStep == \/ LoadConfig \/ WatchConfig \/ OpenAll \/ Serve \/ Notify
            \/ StartShutdown \/ ShutdownReturns \/ CloseAll

-----------------------------------------------------------------------------
(***************************************************************************)
(* Requests                                                                *)
(***************************************************************************)

Go(r, at) == req' = [req EXCEPT ![r].at = at]
Reply(r, answer) == req' = [req EXCEPT ![r] = [New EXCEPT !.at = "answered",
                                                          !.answer = answer]]

\* A connection that was idle can bring one until Shutdown has closed it.
Arrive(r) ==
  /\ main \in {"notify", "wait", "shutdown"}
  /\ r \in bounds.requests /\ req[r].at = "new"
  /\ \/ \E b \in Body : req' = [req EXCEPT ![r].at = "auth", ![r].body = b]
     \/ Go(r, "health")

\* Unknown keys are refused, and known ones for a model they are not allowed: that
\* is looked at only when the body names one.
Auth(r) ==
  /\ req[r].at = "auth"
  /\ \E key \in {"unknown", "restricted", "allowed"} :
       IF key = "unknown" \/ (key = "restricted" /\ req[r].body # "no_model")
       THEN Reply(r, "refused") ELSE Go(r, "limit")

\* Without a client, with a closed one, and for a key without a limit: let through.
Limit(r) ==
  /\ req[r].at = "limit"
  /\ \/ Go(r, "validate")
     \/ res["redis"] = "open" /\ Reply(r, "refused")

\* mutant: a body is valid when it parses.
ValidateParses(r) ==
  /\ req[r].at = "validate"
  /\ IF req[r].body = "no_model" THEN Reply(r, "refused") ELSE Go(r, "parse")

Validate(r) ==
  /\ req[r].at = "validate"
  /\ IF req[r].body \in {"no_model", "invalid"} THEN Reply(r, "refused") ELSE Go(r, "parse")

\* The handler parses the body as a request of its own: it checks no more than types.
Parse(r) ==
  /\ req[r].at = "parse"
  /\ IF req[r].body = "malformed" THEN Reply(r, "refused") ELSE Go(r, "lookup")

\* main hands the cache the engine as an interface, which is not nil even when the
\* engine is: Embed then locks through a nil pointer, and gin.Recovery answers.
Embed(r, next) ==
  IF res["embed"] = "none" THEN Reply(r, "panicked")
  ELSE /\ \A q \in Requests : req[q].at # "embedding"
       /\ req' = [req EXCEPT ![r].at = "embedding", ![r].next = next]

Lookup(r) ==
  /\ req[r].at = "lookup"
  /\ IF UsesCache(r) THEN Embed(r, "route") ELSE Go(r, "route")

\* Cached or not, a stream or not: routing embeds the prompt when the model names no
\* provider, no strategy before the semantic one has an answer, and the prompt is not
\* too long for it.  main builds a semantic router only when there is an engine.
Route(r) ==
  /\ req[r].at = "route"
  /\ \/ Go(r, "provider")
     \/ res["embed"] # "none" /\ Embed(r, "provider")

\* The engine has run, under its lock: a hit of the cache, or on the way after a miss,
\* an error, or a proposal of routing.
Embedded(r) ==
  /\ req[r].at = "embedding"
  /\ \/ Go(r, req[r].next)
     \/ req[r].next = "route" /\ Reply(r, "served")

\* The service behind routing.  No route, a breaker that is open and a provider's
\* error are failures; the canned answer of an exhausted plan is not stored.
Provider(r) ==
  /\ req[r].at = "provider"
  /\ \/ Reply(r, "failed")
     \/ \E canned \in BOOLEAN :
          IF UsesCache(r) /\ ~canned THEN Go(r, "store") ELSE Reply(r, "served")

Store(r) == req[r].at = "store" /\ Embed(r, "save")

\* The error of a store that is closed, or of an embedding, is ignored.
Save(r) == req[r].at = "save" /\ Reply(r, "served")

Health(r) == req[r].at = "health" /\ Reply(r, "served")

RequestStep(r) ==
  /\ Running
  /\ \/ Arrive(r) \/ Auth(r) \/ Limit(r) \/ Validate(r) \/ Parse(r) \/ Lookup(r)
     \/ Embedded(r) \/ Route(r) \/ Provider(r) \/ Store(r) \/ Save(r) \/ Health(r)
  /\ UNCHANGED <<config, proc>>

\* A session that is destroyed while it runs may take the process with it.
Crash ==
  /\ Running
  /\ res["embed"] = "closed" /\ \E r \in Requests : req[r].at = "embedding"
  /\ main' = "exited"
  /\ UNCHANGED <<bounds, config, res, cacheOn, signaled, deadline, req>>

-----------------------------------------------------------------------------
Watcher == Running /\ WatcherStep /\ UNCHANGED <<proc, req>>

Terminated == ~Running /\ UNCHANGED vars

ConfigEdit == Running /\ file.edit < bounds.edits /\ Edit /\ UNCHANGED <<proc, req>>

Next == \/ MainStep \/ ServeFails \/ Signal \/ DeadlinePasses \/ Crash
        \/ Watcher \/ ConfigEdit
        \/ \E r \in Requests : RequestStep(r)
        \/ Terminated

\* main, the watcher and the timer of Shutdown are run by the Go scheduler.  Nothing
\* is assumed of requests: providers and clients may take as long as they like.
Spec == /\ Init /\ [][Next]_vars
        /\ WF_vars(MainStep) /\ WF_vars(Watcher) /\ WF_vars(DeadlinePasses)

-----------------------------------------------------------------------------
(***************************************************************************)
(* Properties                                                              *)
(***************************************************************************)

\* Redis, the engine and the store are closed under a running request only when
\* Shutdown has waited for its whole deadline.
ResourcesOutliveRequests ==
  (\E x \in Resource : res[x] = "closed") =>
    deadline \/ \A r \in Requests : ~InFlight(r)

\* A signal that main was waiting for stops the process, whatever requests do.
SignalStops == (main = "wait" /\ signaled) ~> ~Running

\* An edit after the callback is set ends up as the snapshot, if the file is good
\* and is not edited again, whatever edits the reload before it overlapped.
EditsAreLoaded ==
  <>[](Running /\ file.content = "good" /\ heard => snapshot = file.edit)

\* README: a gateway without its embedding engine serves chat completions, only the
\* semantic features are disabled.
EmbedderFailureHarmless ==
  \A r \in Requests : res["embed"] = "none" => req[r].answer # "panicked"
=============================================================================
