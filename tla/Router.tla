------------------------------- MODULE Router -------------------------------
(***************************************************************************)
(* internal/decision/router.go with the capability, semantic and cost      *)
(* strategies, over the registry and the balancer.  The strategies are     *)
(* tried in the configured order; each proposes a list of models, and the  *)
(* balancer chooses among the providers of the first model that has any.   *)
(*                                                                         *)
(* All that Route reads is fixed once the gateway runs, but the balancer's *)
(* slots, which it changes in one locked step: so is Route one step.  The  *)
(* similarity of a prompt and a category is a number of the request; it is *)
(* 0 where the code computes none (no embedder, no text, one too long).    *)
(***************************************************************************)
EXTENDS Balancer, SequencesExt

CONSTANTS Configs,     \* the routing sections to check: strategies and cascade
          Rules,       \* routing.rules
          Categories,  \* semantic_routing: the target models of each category
          Similar,     \* similarity_threshold, on the scale of the requests' scores
          Requests     \* the requests that may arrive

NoName == ""
Names == (UNION {ToSet(r.targets) : r \in ToSet(Rules)})
           \cup (UNION {ToSet(c) : c \in ToSet(Categories)}) \cup {r.model : r \in Requests}

ASSUME RouterAssumption ==
  /\ Similar \in Nat
  /\ \A c \in Configs : /\ c.strategies \in Seq(STRING)
                        /\ \A m \in DOMAIN c.cascade : c.cascade[m] \in Seq(STRING)
  /\ Len(Rules) \in Nat /\ DOMAIN Rules = 1..Len(Rules)
  /\ \A i \in DOMAIN Rules : Rules[i].targets \in Seq(STRING)
  /\ Categories \in Seq(Seq(STRING))
  /\ NoName \notin Model \cup Provider
  /\ Requests # {}
  /\ \A r \in Requests : /\ r.model \in STRING /\ r.chars \in Nat
                         /\ r.score \in [DOMAIN Categories -> Nat]

VARIABLES routing,   \* the configuration, fixed at the start
          request,   \* history: the request routed last
          decision   \* history: what Route returned for it

routerVars == <<slots, picks, routing, request, decision>>

Decision(kind, p, m) == [kind |-> kind, provider |-> p, model |-> m]
NotFound == Decision("not_found", NoName, NoName)

RouterTypeOK ==
  /\ TypeOK
  /\ routing \in Configs
  /\ request \in Requests
  /\ decision.kind \in {"none", "explicit", "balanced", "not_found"}
  /\ decision.model \in Names \cup Model \cup {NoName}

RouterInit ==
  /\ Init
  /\ routing \in Configs
  /\ request = CHOOSE r \in Requests : TRUE
  /\ decision = Decision("none", NoName, NoName)

-----------------------------------------------------------------------------
(***************************************************************************)
(* The strategies: the list of models each proposes                        *)
(***************************************************************************)

\* Four bytes to a token, rounded down.
EstimatedTokens(req) == req.chars \div 4

\* A condition that does not parse holds of nothing.
Satisfies(condition, tokens) ==
  CASE condition.op = ">"  -> tokens > condition.bound
    [] condition.op = "<"  -> tokens < condition.bound
    [] condition.op = ">=" -> tokens >= condition.bound
    [] condition.op = "<=" -> tokens <= condition.bound
    [] condition.op = "none" -> TRUE
    [] OTHER -> FALSE

MatchesRule(rule, req) ==
  /\ rule.task = NoName \/ rule.task = req.task
  /\ Satisfies(rule.condition, EstimatedTokens(req))

\* The first rule that matches decides.
CapabilityTargets(req) ==
  LET matching == {i \in DOMAIN Rules : MatchesRule(Rules[i], req)}
  IN  IF matching = {} THEN <<>> ELSE Rules[Min(matching)].targets

\* mutant: the last category that reaches the threshold wins.
ReachesThreshold(score, confidence) == score >= Similar

MoreConfident(score, confidence) == score >= Similar /\ score > confidence

\* One pass over the categories, which keeps the most confident one so far.
SemanticTargets(req) ==
  FoldLeft(LAMBDA best, c :
             IF MoreConfident(req.score[c], best.confidence)
             THEN [targets |-> Categories[c], confidence |-> req.score[c]]
             ELSE best,
           [targets |-> <<>>, confidence |-> 0],
           [c \in DOMAIN Categories |-> c]).targets

Chain(name) == IF name \in DOMAIN routing.cascade THEN routing.cascade[name] ELSE <<>>

CascadeFor(model) == IF Chain(model) # <<>> THEN Chain(model) ELSE Chain("default")

Targets(strategy, req) ==
  CASE strategy = "capability"   -> CapabilityTargets(req)
    [] strategy = "semantic"     -> SemanticTargets(req)
    [] strategy = "cost_cascade" -> CascadeFor(req.model)
    [] OTHER                     -> <<>>

-----------------------------------------------------------------------------
(***************************************************************************)
(* Route                                                                   *)
(***************************************************************************)

\* The lists in the order in which Route tries them: the strategies, the default
\* cascade, and the model that was asked for.
Lists(req) ==
  [i \in DOMAIN routing.strategies |-> Targets(routing.strategies[i], req)]
    \o <<Chain("default"), <<req.model>>>>

\* A loop over names that returns at the first one it gets.
FirstFound(names) ==
  FoldLeft(LAMBDA found, name : IF found # NoName THEN found ELSE name, NoName, names)

\* mutant: only the first model of a list is tried.
HeadServed(list) == IF list # <<>> /\ Head(list) \in Model THEN Head(list) ELSE NoName

\* The first model of a list that any provider serves.
FirstServed(list) ==
  FirstFound([j \in DOMAIN list |-> IF list[j] \in Model THEN list[j] ELSE NoName])

\* The model that is routed to, of the first list that has one.
Routed(req) == FirstFound([i \in DOMAIN Lists(req) |-> FirstServed(Lists(req)[i])])

Return(req, d) ==
  /\ request' = req
  /\ decision' = d
  /\ UNCHANGED routing

\* A name with a slash is split at the first one, whether or not there is such a
\* provider, before any strategy is asked.
RouteExplicit(req) ==
  /\ req.provider # NoName
  /\ Return(req, Decision("explicit", req.provider, req.model))
  /\ UNCHANGED <<slots, picks>>

RouteBalanced(req) ==
  /\ req.provider = NoName
  /\ \E m \in Model :
       /\ m = Routed(req)
       /\ Select(m)
       /\ Return(req, Decision("balanced", Heaviest(Raised(m), Group[m]), m))

RouteNotFound(req) ==
  /\ req.provider = NoName
  /\ Routed(req) = NoName
  /\ Return(req, NotFound)
  /\ UNCHANGED <<slots, picks>>

RouterNext ==
  \/ \E p \in Provider : Register(p) /\ UNCHANGED <<routing, request, decision>>
  \/ \E req \in Requests : \/ RouteExplicit(req)
                           \/ RouteBalanced(req)
                           \/ RouteNotFound(req)

RouterSpec == RouterInit /\ [][RouterNext]_routerVars

-----------------------------------------------------------------------------
(***************************************************************************)
(* Properties                                                              *)
(***************************************************************************)

\* A request is routed to the first served model of the first list that has one, and
\* routing fails only when no list has any: models nobody serves, at the head of a
\* list or in all of an earlier one, keep no request from the rest.  The balancer
\* chose among the providers of that model, not of the one that was asked for.
FirstServedWins ==
  LET has(i) == \E j \in DOMAIN Lists(request)[i] : Lists(request)[i][j] \in Model
  IN  CASE decision.kind = "not_found" -> \A i \in DOMAIN Lists(request) : ~has(i)
        [] decision.kind = "balanced" ->
             \E i \in DOMAIN Lists(request) : \E j \in DOMAIN Lists(request)[i] :
               /\ decision.model = Lists(request)[i][j]
               /\ decision.provider \in Candidates(decision.model)
               /\ \A k \in 1..j - 1 : Lists(request)[i][k] \notin Model
               /\ \A k \in 1..i - 1 : ~has(k)
        [] OTHER -> TRUE

\* README, semantic routing: the category most similar to the prompt is proposed,
\* and none below the threshold, whatever the order of the categories.
MostSimilarCategory ==
  LET score   == request.score
      reached == {c \in DOMAIN Categories : score[c] >= Similar /\ score[c] > 0}
      best    == {c \in reached : \A d \in reached : score[d] <= score[c]}
  IN  SemanticTargets(request) \in
        IF reached = {} THEN {<<>>} ELSE {Categories[c] : c \in best}
=============================================================================
