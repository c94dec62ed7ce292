# Verification of momu-llmgateway

TLA+ specifications of the LLM gateway in this repository, TLC configurations
that model-check them, and TLAPS proofs. Source paths are relative to the
repository's root; Chinese documentation is quoted where a run contradicts it.

Run a model with `tlc -config X.cfg M` and the proofs of a module with
`tlapm M.tla` (the modules named `*Proofs`). `PROJECT.json` lists every run, the source
lines of every definition, the mutants, the findings, the hazards and the
theorems.

## 1. The system

A request passes the gin middlewares (request id, logging, authentication, rate
limit, validation), then `handler.go`, then `ChatService` (`ingress/service.go`):

    non-streaming  cache lookup -> route -> breaker -> fallback engine
                     (per attempt: lookup provider -> breaker -> call -> record)
                   -> count -> cache store -> answer
    streaming      route -> breaker -> open -> reader goroutine -> service goroutine
                   -> handler -> client

| Component | State | Operations | Interacts with |
|---|---|---|---|
| Circuit breaker `decision/circuitbreaker.go` | state, failures, openedAt under a mutex | Allow, RecordSuccess, RecordFailure | the clock; all requests of one provider and model |
| Breaker manager `ingress/service.go:202` | map from provider/model to breaker | getOrCreate, Allow, Record* | both chat paths |
| Fallback engine `fallback/engine.go` | none (chains, retry_max) | Attempts, IsRetryable, Execute | calls sendFn of the service |
| Chat service `ingress/service.go` | none of its own; metrics | HandleChatCompletion, HandleChatCompletionStream, sendFn | everything below |
| Adapters `egress/*.go` | an HTTP client | Send, SendStream, HealthCheck | providers |
| Semantic cache `cache/semantic.go` | slice of entries per model, RWMutex | Lookup, Store, LoadFromStore | embedder, Redis store, both via the service |
| Redis store `cache/redis_store.go` | hashes and an index in Redis | Save, LoadAll | semantic cache |
| Rate limit `ingress/middleware_ratelimit.go` | one sorted set per key in Redis | the middleware | Redis, all gateway instances |
| Balancer `decision/balancer.go` | current weight per provider, mutex | Register, Select | router |
| Router `decision/router.go`, `strategy_*.go` | read-only after start | Route | registry, balancer, embedder |
| Registry `egress/adapter.go` | providers by name and model | Register, lookups | router, service |
| Auth, validation | configured keys and models | the middlewares | handler |
| Health `ingress/health.go` | none | Check | Redis, providers |
| Config `config/config.go` | current snapshot, watcher | Load, GetConfig, WatchAndReload | read at start |
| Start and shutdown `cmd/gateway/main.go` | wiring | main | everything |
| Embedding `embedding/*.go` | singleton ONNX session | Embed, Close | cache, semantic router |

What is hard, and what makes each part correct:

* **Shared breakers.** Answers arrive in any order, late, or from clients that
  left. A breaker must hold exactly the failed calls to its provider and model
  against it, and must not admit anybody before its cooldown is over.
* **The attempt loop.** Breakers change between two attempts, contexts are
  canceled between a check and a call. A client must be told what happened, and
  calls must stay within the retry budget. Every request must be answered.
* **Streams.** Three goroutines and two unbuffered channels. Events keep their
  order, the breaker's outcome agrees with the end the client saw, no goroutine is
  left behind.
* **The cache.** A lookup scans a copied slice header without a lock while the
  cells move. Hits must be similar and fresh, removal must not take fresh entries,
  the capacity must hold.
* **The rate limit.** Check and add are separate Redis commands; Redis may fail
  between them.
* **The balancer.** One slot per provider is shared by the models it serves; the
  share must be fair.
* **Persistence, reload, shutdown.** Pipelines without a transaction, a snapshot
  that is replaced, resources closed under running requests.

## 2. Modules

| Module | Models |
|---|---|
| `Breaker` | a breaker's value and its three methods, as operators |
| `CircuitBreaker` | one breaker with its callers and the clock |
| `BreakerManager` | the manager over `CircuitBreaker`: first look, double-checked creation, the breaker's method on a pointer; implements the one breaker of `CircuitBreaker` |
| `BreakerContract` | the abstract gate: a run of failures and the time of the last |
| `BreakerManagerProofs` | theorems about one breaker; the manager implements it, and inherits them |
| `Fallback` | the engine's plan and its retry decision, as operators |
| `Gateway` | the non-streaming path: composes `Breaker` and `Fallback` with concurrent requests, an abstract cache and the providers |
| `Stream` | the streaming path: composes `Breaker` with the three goroutines |
| `SemanticCache` | the cache in memory, on a heap of backing arrays |
| `RateLimit` | the middleware against Redis, command by command |
| `Balancer` | smooth weighted round-robin over shared slots, as state and actions |
| `Router` | the strategies and `Route`: extends `Balancer` with the requests that make it select |
| `RedisStore` | Save's pipeline and the recovery, command by command, against one Redis, with cut connections, expiry and crashes |
| `ConfigWatch` | the configuration file, its snapshot, its watcher |
| `Lifecycle` | the process: extends `ConfigWatch` with main, signals, the resources main opens and closes, and requests through the middlewares |
| `LifecycleProofs` | shutdown and the types of `Lifecycle` |
| `RedisStoreProofs` | recovery from Redis |
| `GatewayProofs` | replies, calls, cache and breakers of the non-streaming path |
| `StreamProofs` | events, ends and outcomes of the streaming path |
| `SemanticCacheProofs` | the slice on its heap under any overlap; hits and removals of calls that do not overlap |
| `RateLimitProofs` | the limit and the rejections, with the laws of counting they need |
| `RouterProofs` | the balancer's shares and the bound on its slots, what the strategies propose, which model is routed to, and the router's types, with the laws of sums and folds they need |
| `MC*` | model values and definitions for TLC |

How state and actions correspond to the code:

* `Breaker.tla`: the record `[state, failures, openedAt]` is the struct;
  `Allows`/`AfterAllow` are the result and the effect of `Allow`. Each method
  holds `cb.mu` throughout, so each is one step.
* `CircuitBreaker.tla`: a caller asks, then records a success, a failure (several
  times: the service records one per error chunk of a stream), or leaves without
  recording, as `HandleChatCompletion` does after the `Allow` it asks before the
  engine runs. `streak` and `failedAt` are history: the properties and the abstract
  gate speak of what was recorded, not of the breaker's own counter.
* `BreakerManager.tla`: `heap` is the breakers that were allocated, `entry` the
  pointer in the map, `doing[c]` the method a caller is in with the pointer it found.
  Each locked section (`Find`, `Create`, `Apply*`) is one step. `cb` of
  `CircuitBreaker` is the breaker a method called next would find, so the properties
  of the single breaker are checked of the manager.
* `Gateway.tla`: `pc` follows a request through `HandleChatCompletion`, `Execute`
  and the sendFn. Steps end where another request can act between: after the
  lookup, after Allow, at the loop's top, while the backoff timer runs, while the
  provider works. `Call` is the sendFn up to the call, `Answer` the rest and what
  `Execute` does with the result. `sends` is history. A panic of the handler on
  an error that is not a `*model.Error` (`handler.go:70`) still answers the client,
  through gin.Recovery, and is reply `canceled`.
* `Stream.tla`: `reader`, `service`, `handler` are the goroutines. A rendezvous on
  an unbuffered channel is one step (`Forward`, `Deliver`). The client that goes
  away is one of the read errors the reader may meet; write errors are ignored by
  the code.
* `SemanticCache.tla`: `mem` holds the backing arrays, `hdr` the slice in
  `c.entries`, `rd[r]` the locals of a `Lookup`. Locked sections are one step, the
  unlocked scan reads one field of one cell per step, and `best` is a pointer. `setup`
  says whether calls overlap, which prompts there are and what recovery loads.
* `RateLimit.tla`: one action per Redis command. The pipeline's two commands are
  not a transaction. Members are random, so the set is a count per score. `peak` (how
  many requests overlapped at most) and `failed` are history.
* `Balancer.tla`: `slots` is `b.slots` by name. `Select` computes its weights before
  the lock from constants, so it is one step. Weights are the configured integers,
  on which float64 is exact.
* `Router.tla`: everything `Route` reads is fixed at start (`routing` is the
  configuration), except for the slots, which change in `Select`'s locked section
  once per request: `Route` is one step, `RouteExplicit`, `RouteBalanced` or
  `RouteNotFound` by how it returns. `Lists` are the proposals in the order in which
  they are tried, and `Routed` is the loop over them, with the loop over the models of
  one (`FirstServed`) inside. A request carries what the strategies look at: its model (split,
  if the name holds a slash), task type, length, and a similarity for each category.
* `RedisStore.tla`: `kv`, `idx` and `idxUntil` are Redis, `sv[s]` is how far a
  pipeline of `Save` has got, `ld` the two round trips of `LoadAll`. A pipeline that is
  cut is sent again from its start or given up. A value carries its key and when it was
  made, so a response under another's key and its true age are visible; a recovered
  entry's `storedAt` is what the code makes it. `promise` is history: until when a
  completed Save is owed to a recovery.
* `ConfigWatch.tla`: `file` is a number of an edit and good or bad, `snapshot` the edit
  `currentConfig` was read from. `Read` and `Publish` are the halves of `Load`. `heard`
  is history: whether the callback was set when the file was last edited.
* `Lifecycle.tla`: `main` is main's next step, `res` the three resources that may be
  missing, open or closed. `req[r].at` is the middleware or the stage a request is in.
  The handler's own parsing (`Parse`) refuses bodies the validation let through. The
  engine is used by the cache (`Lookup`, `Store`) and by semantic routing (`Route`),
  which embeds uncached and streamed prompts as well; whether it does for a prompt
  depends on the configuration and is left open. `next` says what the request goes on
  to when it has been `embedding`; the lock is that at most one request is. What the
  service does behind routing is the one step `Provider`, as `Gateway` and `Stream`
  have it in detail.

## 3. Runs

Properties that hold:

| Run | Bounds | Shows |
|---|---|---|
| `breaker` | 3 callers, symmetric; threshold 2, cooldown 2, clock 0..5, 4 failures in a row | the manager implements one breaker; threshold, cooldown, half-open, and the refinement of `BreakerContract` |
| `gateway` | 2 requests for a model with two providers, or one of them for the explicit name of an unregistered provider, or without a route; threshold 2, one retry, a fallback chain, clock 0..2 | replies match calls; retry budget; at most one call on a dead context; only answers are cached; breakers hold exactly failed calls; every request is answered |
| `stream` | 4 streams: two share a provider, one names an unregistered one, one has no route; bodies of 2 chunks; threshold 2 | one outcome, a matching end, order, failures held against the right provider, all goroutines end |
| `cache` | 3 prompts, capacity 2, 2 lookups, 2 stores, clock 0..1 past the TTL; four recovered entries, or none | calls that do not overlap: hits are similar, fresh and best, removal is exact; all calls: a full cache does not grow, no header covers an unwritten cell |
| `ratelimit` | 2 requests at a time, 5 in all; limit 2, window 2, delay up to 1, clock 0..6; any command may fail | the exact limit in every window while requests do not overlap and Redis works; one more per further concurrent request otherwise; no rejection without cause, whatever fails |
| `router` | two routing configurations, 4 rules, 2 categories, 11 requests; weights 3, 1, -1 for one model, 1, 3 and 2, 1 for two that share a provider; 8 selections per model | the first served model wins, the provider serves it, the most similar category is proposed; no provider a turn ahead, its exact share after a cycle; every slot within 5 turns of the heaviest model, 20, of zero |
| `persistence` | 2 pipelines of Save at a time, 2 in all, 2 prompts; TTL 2, a round trip up to 1, clock 0..6; any pipeline may be cut | a recovery loads what completed saves left, under its own key, whatever is cut, overlaps or runs out; a response is served for less than two TTLs and two round trips |
| `lifecycle` | 2 requests and no edit, or 1 request and 2 edits; every combination of missing resources, cache on or off | what reaches the cache, routing or a provider was validated and parsed, and the engine runs only where it started; nothing is closed under a request before the deadline; a signal stops the process; an edit after the watcher is set up ends up in the snapshot |

The bounds are enough for the cases that matter: two callers are the fewest that
interleave, a threshold of two can be reached by one request or by two together,
one retry distinguishes primary, retry and fallback, a capacity of two is filled,
evicted from and compacted, the clock passes the cooldown, the TTL and the window
and reaches the expiry of the rate limit's key, and the balancer completes several
cycles. Two requests are enough for `gateway`: what one does to another goes through
the breaker they share. Three callers race for the creation of a breaker while
another already holds a pointer. In `persistence` two saves overlap a recovery and each
other, for one key or two, and the clock reaches the end of a second life that starts
late in the first. In `lifecycle` two requests compete for the engine's lock, for the
cache or for routing, and two edits are the fewest of which one overlaps the reload of
the other; requests and edits meet in the process only (`bounds`). Deadlock is checked,
with a `Terminated` step where all is done; the runs of the rate limit and the router
disable it, because there a bound stops the clock and the counters.

Runs that contradict a document (findings, each with the quoted line in
`PROJECT.json`):

| Run | The code |
|---|---|
| `gateway_chain` | models of a fallback chain are never called: their attempts name no provider |
| `stream_upstream_error` | an error event in a stream is skipped; the stream ends as a success |
| `cache_wrong_answer` | overlapping calls: a hit returns another prompt's response |
| `embedder_missing` | after a failed start of the embedding engine, a cached chat completion panics and is a 500 |

Other differences met while modelling, for which no run is kept:

* `decision/circuitbreaker.go:39` lets a late success close an Open breaker before its
  cooldown is over; the design document (`:192`) and `README.md:325` close it from
  HalfOpen. `ClosedBelowThreshold` says what holds instead.
* `decision/circuitbreaker.go:46` counts failures since the last success, in no
  window; `README.md:323` says `窗口内失败次数达到此值 → Open`.
* `ingress/middleware_ratelimit.go:56` counts and adds in separate commands: requests
  that overlap pass the limit of `README.md:151`. `WindowLimit` says by how much.
* `fallback/engine.go:71` never tries another provider of the model;
  `README.md:294` promises `L2（跨 Provider）`.
* `egress/openai.go:78` turns every status of 400 or more into an error that is
  retried; the design document (`:381`) retries `仅 5xx/超时`.
* `ingress/service.go:74` counts a cache hit that `cache/semantic.go:130` has
  counted already; requests that end with an error are never counted
  (`service.go:86`; `README.md:376` has a status `error`).
* `ingress/service.go:143` opens a stream with the model the request came with, while
  the breaker and the provider are those of the routed one.
* Two overlapping lookups remove a fresh entry (`cache/semantic.go:191`), a lookup
  that removes expired entries may write `LastAccess` to a vacated cell (`:127`), and
  recovery exceeds `max_entries` (`:247`).
* `cmd/gateway/main.go` never calls `LoadFromStore`, only `SetModels` (`:138`): the
  recovery of the design document (`:281`, `启动恢复`) exists in the cache and its tests.
  `RedisStore` and `SemanticCache` model it as the cache has it.
* A Save whose index runs out between ZADD and EXPIRE (`cache/redis_store.go:36`)
  succeeds and its entry is never recovered; a recovery whose connection breaks after a
  missing value is partial and reports no error (`:56`). With a TTL of zero, SET keeps
  its values for ever and EXPIRE deletes the index (`RedisStore` assumes a positive one).
* Nothing reads the configuration's snapshot: components keep the values of the start,
  where the design document (`:93`) says `新请求使用新配置快照`. Edits before the
  callback is set are never loaded, and a file that is broken at that moment leaves the
  gateway without a watcher; `main.go:44` drops the error.
* A signal before `signal.Notify` (`main.go:248`) kills the process under requests the
  listener has already accepted. `EmbeddingEngine.Close` (`embedding/engine.go:31`) does
  not take the lock of `Embed`: past the deadline a session is destroyed while it runs
  (`Crash`).
* Models that share providers share their slots (`decision/balancer.go:75`): a
  provider's frequency for one of them need not converge to its share.
* A request is explicit whenever its model holds a slash (`decision/router.go:56`).
  The validation before it (`middleware_validation.go:48`) lets configured model
  names through only: `provider/model`, as `README.md:210` has it, is rejected unless
  a provider lists that very name, and then a model whose own name has a slash is
  sent to a provider that may not exist.
* For the same reason, the wiring of `main.go` never lets a request without a route
  reach the router; `Gateway`, `Stream` and `Router` keep that path, as the
  components do.

## 4. Fairness

`Gateway!FairSpec` is weak fairness of each request's handler: the Go scheduler runs
every goroutine, timers fire, and `http.Client.Timeout` (set from
`providers.<name>.timeout`) bounds every call. `Stream!FairSpec` is weak fairness of
each stream; the same timeout covers the body. Both assume a positive timeout; a
configuration with `timeout: 0` has none. Nothing is assumed of clients, of the
breakers' clock, or of what providers answer.

`Lifecycle!Spec` is weak fairness of main, of the watcher's goroutine and of the timer
of Shutdown's context: the Go scheduler and its timers run. Nothing is assumed of
requests, so `SignalStops` holds although providers and clients may take for ever, and
nothing of edits: `EditsAreLoaded` is about a file that is left alone in the end. It
also assumes that viper's watcher, once started, keeps watching; viper ends it when the
file is removed, which the model has no step for.

`RateLimit` assumes that a request does not wait for a whole window between reading
the clock and its last command (`MaxDelay < Window`): the client's dial, read and
write timeouts are seconds, the window is a minute. `RedisStore` bounds a pipeline by
`MaxDelay` for the same reason; the bound appears in `AgeBound`.

## 5. Proofs

`BreakerManagerProofs.tla` proves, in its first part, for every number of callers, threshold, cooldown
and bound, from `BreakerAssumption` and the module's other assumptions:

* `TypeCorrect`, `ClosedExactlyBelowThreshold`, `HalfOpenIsLate`: the three
  invariants of the run `breaker`;
* `NobodyAdmittedDuringCooldown`, `OneProbeFailureReopens`: its action properties;
* `ImplementsContract`: the refinement of `BreakerContract`.

The inductive invariant `IInv` adds to the type invariant what ties the three fields
to the history: the counter is the run of failures since the last success, the
breaker is Closed exactly while that run is below the threshold, once it is not
Closed `openedAt` is the time of the last failure, and HalfOpen implies that the
cooldown since then is over. None of the properties is
inductive alone: that a HalfOpen breaker reopens on one failure needs that its
failures are still at the threshold, and that nobody is admitted early needs that
`openedAt` is the last failure and not the first. The lemmas
(`MethodTypes`, `AllowEffect`, ...) state what the methods do.

The gate is mapped to the history `streak` and `failedAt`, not to the breaker's
fields, so that a success that fails to reset the counter is not taken for a caller
that left. `Gateway` and `Stream` use the breaker as one step per call; the
manager implements it so (`SharesOneBreaker`), as the second part proves.

That part says that the manager, with its map, pointers and two
locks, implements the one breaker that has been there from the start
(`ManagerIsOneBreaker`), for every number of callers. Its invariant `MInv` says that
the map's entry is the last breaker allocated and is never replaced, so that everybody
who holds a pointer holds the entry; that what a caller asked for is still its next
step as a caller of one breaker when the method runs; and that the failures on their
way fit under the bound `MaxFailures` (which needs the cardinality of a set that
changes by one, hence `FiniteSetTheorems`). Creating the breaker is the stuttering
step: the breaker found by nobody yet is the new one. From that lemma the theorems about
the single breaker hold of the manager too (`ManagerKeepsThreshold`,
`ManagerRespectsCooldown`, `ManagerImplementsContract`).

`LifecycleProofs.tla` proves `ResourcesOutliveRequests`
(`NothingClosedUnderRequests`) for every number of requests, edits and configurations:
a resource is closed only by main on its way out, main gets there only when Shutdown
has returned, Shutdown returns only when no request is in flight or its deadline is
over, and no request arrives after. It also proves the type invariant (`TypeCorrect`),
which is not a matter of sets alone here: a request that reaches the cache, routing or
a provider passed the validation and the handler's parsing; whoever runs on the engine
found it started, for the cache's sake only with the cache on and a prompt that is no
stream, for routing's with any prompt; and there is a snapshot from the first load on.
The engine's part needs that no request arrives before main has opened what it opens
(`NoneBeforeServe`), so that nobody waits for an engine main has yet to try.

`RedisStoreProofs.tla` proves both properties of the recovery and the type invariant
(`RecoveryLoadsWhatIsOwed`, `SecondLifeIsTheLast`, `TypeCorrect`) for every number of
overlapping pipelines, keys, TTL and `MaxDelay`. Its invariant is one of times: a
pipeline in progress is younger than `MaxDelay` (`SaversInTime`), so a value runs out at
most `MaxDelay + TTL` after it was made (`ValuesLive`); what a pipeline has set lasts
until TTL after its vector, since whatever replaces it lives longer (`SetLasts`); hence
member, index and both values last as long as a recovery is owed them (`PromiseKept`),
a recovery has a reply for all that is owed (`LoaderInTime`), and what it loads is
younger than `TTL + 2 * MaxDelay` (`RecoveredInTime`). It needs no bound on how many
gateways share the Redis. That ZRANGE returns every member rests on
the library's theorems about injections between finite sets.

`GatewayProofs.tla` proves the five safety invariants of the run `gateway`
(`AnswersMatch`, `RetriesBounded`, `CancelIsCheap`, `StoredAreAnswers`,
`BlameIsDeserved`) and its types, for every set of requests, models, providers, routes
and chains, every threshold and number of retries. A handler is sequential, so most of
the invariant (`RequestsSound`) speaks of one request: where its handler is decides
which of its calls are over (`CallsOver`), what its client has been told (`Told`), that
the calls are fewer than the attempts (`Counted`), that `skipRetries` remembers an error
that cannot be retried (`SkipKept`), and that a call begun on a dead context is the
last (`LateLast`). `RetryBudget` needs all of the plan: by its number an attempt is the
primary one, a retry, or a fallback, and fallbacks never reach a provider
(`PlanShape`). Three things are shared. Of the clients that went away it is enough that
they stay away. A breaker is set against the failed calls of all requests together
(`BreakersHold`), because its failures are those of any request since any other's last
success; the set grows by exactly the call that fails, whose index in its own request's
history is new.

`StreamProofs.tla` proves the four safety invariants of the run `stream`
(`OutcomeOnce`, `EndIsRecorded`, `OrderKept`, `FailuresCounted`) and its types, for
every set of streams and every length of a body. What was read is what was written,
then what the service holds, then what the reader holds (`Flow`), which gives the order
and the two events of slack; only the last value read can end the stream, and the reader
is gone when the service has it (`LastEnds`); who of the service and the handler
leaves first depends on whether that value is an error (`WhoLeaves`). `EndAsRecorded` is
not inductive because it speaks of the end only: that an error written is the last
thing written needs that the handler is gone when the service has met it.

`SemanticCacheProofs.tla` proves the five properties of the run `cache`, for every set of
callers, prompts and setups, every score, threshold, TTL, capacity and clock. Two of them
and the types hold however calls overlap: append, the swaps and the compaction put
entries only where entries were, or where an array has room, and never shorten an array
(`Grows`), so a header that a lookup copied long ago still covers written cells
(`NoWindowHoldsAnUnwrittenCell`), and a Store evicts what it appends
(`FullCacheKeepsItsSize`). The other two are about calls that do not overlap. Until it
removes what expired, a lookup alone has the current slice (`Follows`); it has listed the
expired places it passed, all of them and in order (`Listed`); no fresh entry it passed
is better than its best (`Ranked`). That is inductive, except for the removal: it is a
fold over the list, each step of which moves the last cell. What is kept is that the
highest expired place left is at or above any expired cell left, so the moved cell is
fresh or the removed one itself, no cell outside the list moves, and each fresh entry
occurs as often as before (`Exact`, by induction over the set of places that were
applied). Hence a removal is exact (`SerialRemovalsAreExact`), and the pointer to the best
still points to it afterwards (`SerialHitsAreBest`). Folds are shown to be the value of a
function that satisfies their recursion (`RemoveIsFold`, `AppendIsFold`), as in
`RouterProofs`.

`RateLimitProofs.tla` proves the limit (`LimitKept`), the rejections
(`RejectedForLimit`, an action property) and the types, for every limit, window and
number of requests and for any `MaxDelay` below the window. The model counts members of
a sorted set in windows of scores, so the proof needs the laws of a finite sum: adding
one, leaving scores out, comparing two counts score by score. `Members` is the
cardinality of a union of products, one for each score, so the laws follow from the
library's theorems about those. The argument has two directions. Redis holds no more than what was admitted,
or is noted and about to be, whatever fails (`MembersTrue`), and after the purge nothing
outside the request's window (`MembersPast`): a rejection is justified. While nothing has
failed it holds no less in the window of now (`MembersKept`), and for a lone request in
its own (`LoneKept`), since a purge removes only what is a window old. The key itself
must not go too early (`KeyKept`): Redis drops it at `expireAt`, and either a request
that has added a member is about to set a new expiry, within `MaxDelay`, or every member
is two windows younger than the expiry and every request past its purge is in time. That
case distinction is what makes the invariant inductive: the request that saves the key
may be overtaken by the purge or the expiry of another. Then what is admitted or past its
check in a window (`WindowsHold`) is below the limit when one more passes, up to the
requests that passed before they were counted, which are fewer than `peak`. The set of
requests is assumed to be finite.

`RouterProofs.tla` proves every invariant of the router's run, for any number of models
and providers, any weights, and any configuration. The first is `FairShare`
(`EveryProviderItsShare`). A first version of the property said
that no provider is a whole turn ahead of its share or behind it. It holds of up to three
candidates, and of the instance of the run; the attempt to prove it showed that it fails
in general: with weights 60, 1, 4 and 60 a provider gets exactly one turn behind, with 1,
12, 60, 1 and 60 more than one. What holds is that none is ever a whole turn ahead, that
`k` candidates are behind by at most `(2k - 1) / 6` turns, and that after a whole cycle
each had exactly its share. The invariant (`Balanced`, `Owed`) is about groups: a slot is
what its provider is owed, the slots of a model's own providers add up to zero, none is
a whole turn below it, and `j >= 2` of `k` hold at most `j * (k - j) / 3` turns together.
The last is what a bound for one provider needs to be inductive: a group that does not
contain the heaviest has at most `j` times what the heaviest has, and together with it
is a group of `j + 1` (`Share`, `Turn`). `Total`, a fold over a set, is shown to be the
value of a function that satisfies its own recursion (`TotalIsSum`); its laws follow by
induction over the subsets of a finite set. The provers cannot use the library's theorems
of induction, which have an operator as a parameter, so the module states it of a set of
sets (`SubsetInductive`), from the order of the naturals (`WFMin`).

Models that share providers share their slots, which are then owed to nobody, and
`FairShare` says nothing of them. A first version of `SlotsStayBounded` had a bound that
was merely checked for the weights of the run; the one that is proved
(`NoSlotRunsAway`) is the heaviest turn `T` of any model times the number of other
providers. Again the invariant (`Level`) is about groups, now of all `n` providers: the
slots add up to zero over all of them, and any `k` hold at most `k * (n - k) * T`. A
selection can only raise a group without the heaviest candidate, and the group is then
compared with the two that differ from it by the heaviest, added, and by one of its own
candidates, removed: what it holds is at most one turn more than halfway between what
they held before, and the bound is exactly that much above halfway between theirs
(`Concave`, `LevelTurn`). The bound on a slot from above is that on a group of one, from
below that on all the others.

The rest of the module is about loops. `FoldLeft` is shown to be the value of a function
that satisfies its recursion (`FoldExists`, `FoldStep`), so what a loop has found after
some of its elements follows by induction over sets of their numbers: the best of the
categories passed, or none that reaches the threshold (`PassFindsBest`), hence
`MostSimilarCategory` (`MostSimilarProposed`); the first name that is not empty
(`FirstIsFound`), once for the models of a list (`FirstServedIs`) and once for the lists
(`RoutedIs`). `FirstServedWins` (`TheFirstServedWins`) is inductive as it stands: it
relates what was decided to the configuration, which no step changes, and to the request
that was decided.

Assumed are a finite set of providers and some request; and that strategies, cascades,
rules and categories are sequences, of strings where they name models.

Every invariant, action property and refinement that a passing run checks is proved.
Only model-checked are the liveness properties, `EveryRequestAnswered`,
`EveryStreamEnds`, `SignalStops` and `EditsAreLoaded`: no prover here reasons about the
fairness of actions.

## 6. Not modelled, and the plan

Abstracted on purpose: JSON, embeddings and similarity (a constant score), log
lines, durations and token counts, HTTP headers, the length of a backoff. A torn copy of
a cache cell (a data race inside one struct assignment) is not modelled: a cell is copied
in one step, its fields are read one by one. Observability and the model types have no
control. The translation of requests and responses in the adapters, the tokenizer and
the ONNX runtime, the averaging of a category's prototypes, and environment variables in
the configuration are data: nothing the properties tell apart depends on them.

Left for later: the health check's probes (one step of `Lifecycle` now), the status
codes of `errorToHTTPStatus`, the request id and logging middlewares, and `Router` in
place of the constant `Routes` of `Gateway`.
