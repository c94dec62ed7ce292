---------------------------- MODULE MCLifecycle ----------------------------
(***************************************************************************)
(* Requests and edits meet in the process only: two requests that share    *)
(* the engine and the resources without edits, one request while the file  *)
(* is edited twice, so that an edit can overlap the reload of another.     *)
(***************************************************************************)
EXTENDS Lifecycle

CONSTANTS r1, r2

MCBounds == { [edits |-> 0, requests |-> {r1, r2}], [edits |-> 2, requests |-> {r1}] }
=============================================================================
