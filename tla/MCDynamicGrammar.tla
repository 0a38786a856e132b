--------------------------- MODULE MCDynamicGrammar ---------------------------
(***************************************************************************)
(* DynamicGrammar with one @dynamic nonterminal that is also the child of a*)
(* registered pair, another child, and two contexts.                       *)
(***************************************************************************)
EXTENDS DynamicGrammar, TLC

CONSTANTS type, name, def, use

MCPairs == {<<def, name>>, <<use, type>>}

Symmetry == Permutations(Texts) \cup Permutations(Contexts)
===============================================================================
