-------------------------- MODULE MCSemanticCache --------------------------
(***************************************************************************)
(* The cache with two dissimilar prompts, one of which has a paraphrase,   *)
(* and two entries at most.  The clock passes the TTL, so that entries     *)
(* expire under a running lookup.  Recovery brings more entries than fit:  *)
(* four also pass the threshold of compaction.                             *)
(***************************************************************************)
EXTENDS SemanticCache, TLC

\* A prompt is most similar to itself; "a2" is a paraphrase of "a".
MCScore ==
  [pair \in Prompt \X Prompt |->
     CASE pair[1] = pair[2]          -> 2
       [] {"a", "a2"} = {pair[1], pair[2]} -> 1
       [] OTHER                      -> 0]

MCSetups ==
  { [serial |-> TRUE,  prompts |-> {"a", "a2", "b"}, persisted |-> <<"a", "b", "a", "b">>],
    [serial |-> FALSE, prompts |-> {"a"},            persisted |-> <<>>] }

MCOverlapping ==
  { [serial |-> FALSE, prompts |-> {"a", "b"}, persisted |-> <<>>] }

Callers == Permutations(Readers) \cup Permutations(Writers)
=============================================================================
