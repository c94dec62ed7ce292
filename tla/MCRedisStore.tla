---------------------------- MODULE MCRedisStore ----------------------------
(***************************************************************************)
(* Two prompts, two overlapping calls of Save.  The clock runs past the    *)
(* longest life a response can have, with a recovery late in the first.    *)
(***************************************************************************)
EXTENDS RedisStore, TLC

Interchangeable == Permutations(Savers) \cup Permutations(Key)
=============================================================================
