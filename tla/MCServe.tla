------------------------------- MODULE MCServe -------------------------------
(***************************************************************************)
(* Serve on small instances.  The safety runs identify states that differ  *)
(* in the names of clients and sessions only; the liveness run does not.   *)
(***************************************************************************)
EXTENDS Serve, TLC

Symmetry == Permutations(Conns) \cup Permutations(Sessions)
===============================================================================
