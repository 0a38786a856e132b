--------------------------- MODULE MCCharClasses ---------------------------
(***************************************************************************)
(* Grammars of two characters: a class that excludes what a guarded rule   *)
(* names, a rule a guard turns into a sequence, a rule that grows, and     *)
(* rules that are no class: on a cycle, nullable, too large or a terminal  *)
(* that is no character.                                                   *)
(***************************************************************************)
EXTENDS CharClasses, TLC

CONSTANTS a, b, zero, any, S, A, B, D, g

P(head, lits)      == [head |-> head, conjs |-> {[neg |-> FALSE, lits |-> lits]},
                       guard |-> None, origin |-> "source", copy |-> 0]
But(head, yes, no) == [P(head, <<yes>>) EXCEPT !.conjs = @ \cup {[neg |-> TRUE, lits |-> <<no>>]}]
If(guard, p)       == [p EXCEPT !.guard = guard]
Gr(source)         == [source |-> source, start |-> S, entries |-> {}, parsers |-> {}]

Excludes == Gr({ P(S, <<A>>), P(S, <<A, D>>), But(A, any, B),
                 P(B, <<a>>), If(g, P(B, <<b>>)), P(D, <<any>>) })
Sequence == Gr({ P(S, <<A, B>>), P(A, <<a>>), If(g, P(A, <<b, b>>)),
                 P(B, <<A>>), If(g, P(B, <<a>>)) })
Grown    == Gr({ P(S, <<A>>), P(S, <<D, A>>), P(A, <<a>>), P(D, <<B>>), P(B, <<b>>) })
Grows    == [Grown EXCEPT !.entries = {<<A, <<a, b>> >>}, !.parsers = {{A}}]
NoClass  == Gr({ P(S, <<A>>), P(S, <<B, D>>), P(A, <<B>>), P(B, <<A>>), P(B, <<a>>),
                 P(D, <<b>>), If(g, P(D, <<>>)) })
Large    == Gr({ P(S, <<A>>), P(S, <<D>>), P(A, <<B>>), P(B, <<a>>), P(B, <<b>>),
                 If(g, But(A, any, b)), P(D, <<zero>>), P(D, <<a>>) })

MCGrammars == {Excludes, Sequence, Grows, NoClass, Large}

\* the name of a class and, renamed, another class of that name
MCClassLists == { any :> {a, b}, any :> {a} }

\* two parsers with a child each
Shared     == [Grows EXCEPT !.parsers = {{A}, {D}}]
MCTwoParsers == {Shared}
=============================================================================
