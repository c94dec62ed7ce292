------------------------------ MODULE MCStream ------------------------------
(***************************************************************************)
(* Two streams for a model m1 that p1 serves, one (s3) for the name        *)
(* mx = "px/m1" of a provider nobody registered, one (s4) without a route. *)
(***************************************************************************)
EXTENDS Stream

CONSTANTS s1, s2, s3, s4, m1, m2, m3, mx, p1, px

MCModel == {m1, m2, m3, mx}
MCReqModel == [s \in Streams |-> CASE s = s3 -> mx [] s = s4 -> m3 [] OTHER -> m1]
MCRoutes == [m \in MCModel |-> CASE m = m1 -> {<<p1, m1>>}
                                 [] m = mx -> {<<px, m1>>}
                                 [] OTHER -> {}]
=============================================================================
