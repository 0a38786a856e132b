--------------------------- MODULE MCHashConsTree ---------------------------
(***************************************************************************)
(* HashConsTree with three addresses, for one thread that collects and for *)
(* two that only build.                                                    *)
(***************************************************************************)
EXTENDS HashConsTree, TLC

CONSTANTS p, q, r, a

Symmetry == Permutations(Addresses) \cup Permutations({q, r})

\* leaves, chains and a node with one child twice
MCShapes(n) == n.r \in {Null, n.l}

Orderly == { [threads |-> {p}, collectors |-> {p}],
             [threads |-> {q, r}, collectors |-> {}] }

\* q and r are not alike here
AddressSymmetry == Permutations(Addresses)
Racing  == { [threads |-> {q, r}, collectors |-> {q}] }
=============================================================================
