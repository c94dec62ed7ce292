------------------------------ MODULE Balancer ------------------------------
(***************************************************************************)
(* The smooth weighted round-robin of internal/decision/balancer.go.  A    *)
(* provider has one slot, by name, whichever model it is a candidate for.  *)
(*                                                                         *)
(* The running gateway gives every candidate its configured weight, health *)
(* 1.0, warm-up 1.0, and no load: the effective weights are integers, and  *)
(* the float64 arithmetic on them is exact.  Select computes them before   *)
(* it takes the lock and does the rest under it: it is one step.  The      *)
(* requests that make it select are those of Router.tla.                   *)
(***************************************************************************)
EXTENDS Integers, Sequences, FiniteSets, FiniteSetsExt

CONSTANTS Provider,   \* provider names
          Weight,     \* providers.<name>.weight, any integer
          Group,      \* model |-> its candidates, in the registry's order
          MaxPicks    \* bound: selections for each model

Model == DOMAIN Group

ASSUME BalancerAssumption ==
  /\ IsFiniteSet(Provider)
  /\ Weight \in [Provider -> Int]
  /\ \A m \in Model : /\ Group[m] \in Seq(Provider) /\ Group[m] # <<>>
                      /\ \A i, j \in DOMAIN Group[m] : Group[m][i] = Group[m][j] => i = j
  /\ MaxPicks \in Nat

VARIABLES slots,   \* current weight of each provider that has a slot
          picks    \* history: how often each model's requests got each provider

vars == <<slots, picks>>

Candidates(m) == {Group[m][i] : i \in DOMAIN Group[m]}

EffectiveWeight(p) == IF Weight[p] > 0 THEN Weight[p] ELSE 0

Total(f, S) == FoldSet(LAMBDA p, n : n + f[p], 0, S)

TotalEff(m) == Total([p \in Provider |-> EffectiveWeight(p)], Candidates(m))
Picks(m) == Total(picks[m], Provider)

TypeOK ==
  /\ DOMAIN slots \subseteq Provider
  /\ \A p \in DOMAIN slots : slots[p] \in Int
  /\ \A m \in Model : Picks(m) > 0 => Candidates(m) \subseteq DOMAIN slots
  /\ picks \in [Model -> [Provider -> Nat]]

Init ==
  /\ slots = [p \in {} |-> 0]
  /\ picks = [m \in Model |-> [p \in Provider |-> 0]]

\* mutant: the other slots are forgotten.
OnlyTheirSlots(S) == [p \in S |-> IF p \in DOMAIN slots THEN slots[p] ELSE 0]

\* The slots once every provider of S has one: a new slot starts from zero.
WithSlots(S) ==
  [p \in DOMAIN slots \cup S |-> IF p \in DOMAIN slots THEN slots[p] ELSE 0]

\* mutant: the configured weight decides, not the current one.
HeaviestConfigured(weights, candidates) ==
  candidates[CHOOSE i \in DOMAIN candidates :
    \A j \in DOMAIN candidates : Weight[candidates[i]] >= Weight[candidates[j]]]

\* mutant: the comparison is turned around.
Lightest(weights, candidates) ==
  candidates[CHOOSE i \in DOMAIN candidates :
    \A j \in DOMAIN candidates : weights[candidates[i]] <= weights[candidates[j]]]

\* The first of the heaviest candidates.
Heaviest(weights, candidates) ==
  candidates[CHOOSE i \in DOMAIN candidates :
    \A j \in DOMAIN candidates :
      \/ weights[candidates[i]] > weights[candidates[j]]
      \/ weights[candidates[i]] = weights[candidates[j]] /\ i <= j]

Register(p) ==
  /\ slots' = WithSlots({p})
  /\ UNCHANGED picks

\* Every candidate's current weight gains its effective weight.
Raised(m) ==
  LET s == WithSlots(Candidates(m))
  IN  [p \in DOMAIN s |-> IF p \in Candidates(m) THEN s[p] + EffectiveWeight(p) ELSE s[p]]

Select(m) ==
  /\ Picks(m) < MaxPicks
  /\ LET best == Heaviest(Raised(m), Group[m])
     IN  /\ slots' = [Raised(m) EXCEPT ![best] = @ - TotalEff(m)]
         /\ picks' = [picks EXCEPT ![m][best] = @ + 1]

-----------------------------------------------------------------------------
(***************************************************************************)
(* Properties                                                              *)
(***************************************************************************)

\* No candidate of m is a candidate for another model.
Apart(m) == \A n \in Model \ {m} : Candidates(m) \cap Candidates(n) = {}

\* Design document: the frequency of a provider converges to its share of the
\* weights.  That is so of a model whose providers serve no other: after n
\* selections no candidate is a whole turn ahead of n times its share, which leaves
\* one without weight no request at all; each is behind by at most a number of turns
\* that only depends on how many candidates there are, less than one for up to three;
\* and after a whole cycle each had exactly its share.
FairShare ==
  \A m \in Model : Apart(m) /\ TotalEff(m) > 0 =>
    \A p \in Candidates(m) :
      LET ahead == picks[m][p] * TotalEff(m) - Picks(m) * EffectiveWeight(p)
      IN  /\ ahead < TotalEff(m)
          /\ 6 * ahead >= -((2 * Cardinality(Candidates(m)) - 1) * TotalEff(m))
          /\ Picks(m) % TotalEff(m) = 0 => ahead = 0

\* The heaviest turn of any model: what the provider that is selected pays for.
LargestTurn == Max({0} \cup {TotalEff(m) : m \in Model})

\* Models that share providers share their slots: whatever their selections, and for
\* however long, no slot runs away.  It stays within one turn of the heaviest model for
\* every provider there is besides its own, so a provider that was passed over for long
\* has no more than that to catch up, and the weights never leave their type.
SlotsStayBounded ==
  \A p \in DOMAIN slots :
    LET bound == (Cardinality(Provider) - 1) * LargestTurn
    IN  -bound <= slots[p] /\ slots[p] <= bound
=============================================================================
