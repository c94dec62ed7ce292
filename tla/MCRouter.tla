------------------------------ MODULE MCRouter ------------------------------
(***************************************************************************)
(* Model m1 has three providers of its own, one of a negative weight.      *)
(* Models m2 and m3 share p4; nobody serves m4.  Every strategy proposes   *)
(* lists that are served, not served, and served from the second model on. *)
(***************************************************************************)
EXTENDS Router

CONSTANTS p1, p2, p3, p4, p5, p6

MCWeight == [p \in Provider |-> CASE p \in {p1, p5} -> 3 [] p \in {p2, p4} -> 1
                                  [] p = p3 -> -1 [] OTHER -> 2]

MCGroup == [m \in {"m1", "m2", "m3"} |->
  CASE m = "m1" -> <<p1, p2, p3>> [] m = "m2" -> <<p4, p5>> [] OTHER -> <<p6, p4>>]

\* With a default cascade, and without one or a cost strategy.
MCConfigs ==
  {[strategies |-> <<"explicit", "capability", "semantic", "cost_cascade">>,
    cascade    |-> [m \in {"default", "m1"} |->
                      IF m = "m1" THEN <<"m4">> ELSE <<"m4", "m3">>]],
   [strategies |-> <<"semantic", "capability">>,
    cascade    |-> [m \in {"m1"} |-> <<"m2">>]]}

Condition(op, bound) == [op |-> op, bound |-> bound]

MCRules ==
  <<[task |-> "long", condition |-> Condition(">", 2), targets |-> <<"m4", "m1">>],
    [task |-> "long", condition |-> Condition("none", 0), targets |-> <<"m4">>],
    [task |-> "odd", condition |-> Condition("unknown", 0), targets |-> <<"m2">>],
    [task |-> "short", condition |-> Condition("<=", 1), targets |-> <<"m2">>]>>

MCCategories == <<<<"m1">>, <<"m4", "m2">>>>

Request(provider, model, task, chars, score) ==
  [provider |-> provider, model |-> model, task |-> task, chars |-> chars, score |-> score]

MCRequests ==
  {Request(NoName, m, NoName, 0, <<0, 0>>) : m \in {"m1", "m2", "m4"}}
    \cup {Request(NoName, "m1", "long", n, <<0, 0>>) : n \in {11, 12}}
    \cup {Request(NoName, "m2", NoName, 8, s) : s \in {<<1, 0>>, <<2, 3>>, <<3, 2>>}}
    \cup {Request(NoName, "m4", "odd", 4, <<0, 0>>),
          Request(NoName, "m1", "short", 4, <<0, 0>>),
          Request("px", "m1", NoName, 0, <<0, 0>>)}
=============================================================================
