----------------------------- MODULE MCGateway -----------------------------
(***************************************************************************)
(* Two requests for a model m1 that p1 and p2 serve and that falls back to *)
(* m2; or the second one for the name mx = "px/m1" of a provider nobody    *)
(* registered, or for a model m3 without a route.  Two failures open a     *)
(* breaker: one request and its retry can open it alone, or both requests  *)
(* can contribute one each.                                                *)
(***************************************************************************)
EXTENDS Gateway

CONSTANTS r1, r2, m1, m2, m3, mx, p1, p2, px

MCModel == {m1, m2, m3, mx}
MCChain == [m \in MCModel |-> IF m = m1 THEN <<m2>> ELSE <<>>]
MCReqModels == {[r \in Requests |-> IF r = r2 THEN m ELSE m1] : m \in {m1, mx, m3}}
MCRoutes == [m \in MCModel |-> CASE m = m1 -> {p1, p2} \X {m1}
                                 [] m = mx -> {<<px, m1>>}
                                 [] OTHER -> {}]
=============================================================================
