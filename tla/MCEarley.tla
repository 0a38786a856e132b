------------------------------- MODULE MCEarley -------------------------------
(***************************************************************************)
(* Instances of EarleyCollected: grammars with every shape of recursion,   *)
(* ambiguity, nullable and empty-span rule, every word up to a length, and *)
(* the collector off or with a lag.                                        *)
(***************************************************************************)
EXTENDS EarleyInstances

\* ambiguous, nullable and left-recursive at once
Ambiguous == G({"S"}, {P("S", <<"S", "S">>), P("S", <<"a">>), P("S", <<"null">>)})

\* a chain of nullable symbols in front of a terminal, and an empty body
Chain == G({"S", "A", "B"},
  {P("S", <<"A", "B", "b">>), P("A", <<"a">>), P("A", <<"null">>),
   P("B", <<"A", "A">>), P("B", << >>)})

\* unit cycles and centre recursion
Cycle == G({"S", "T"},
  {P("S", <<"T">>), P("T", <<"S">>), P("T", <<"a", "S", "b">>), P("S", <<"a", "b">>)})

\* a character class, right recursion, and productions lookahead drops
Class == [G({"S", "L", "d"},
  {P("S", <<"L">>), P("L", <<"d", "L">>), P("L", <<"d">>), P("S", <<"b", "S">>)})
  EXCEPT !.classes = [k \in {"d"} |-> {"a"}]]

\* an empty span that is not nullable: eof, asked for twice at one position;
\* F keeps the rounds going until B is revisited
AtEnd == [G({"S", "B", "C", "D", "F", "e"},
  {P("S", <<"a", "B", "C">>), P("S", <<"b", "S">>), P("B", <<"e">>), P("C", <<"D">>),
   P("D", <<"B">>), P("D", <<"F">>), P("F", <<"a">>), P("F", <<"D", "b">>)})
  EXCEPT !.eofs = {"e"}]

\* guards switch off a production that predicts and one that starts a word
Guarded == [G({"S", "A"},
  {P("S", <<"A", "a">>), P("A", <<"b">>), P("A", <<"S">>), P("S", <<"b", "b">>)})
  EXCEPT !.enabled = {P("S", <<"A", "a">>), P("A", <<"b">>), P("A", <<"S">>)}]

\* X is predicted twice and one of its productions fails before the other
\* is read
Failing == G({"S", "X", "Y"},
  {P("S", <<"a", "X">>), P("S", <<"a", "Y">>), P("Y", <<"X">>), P("X", <<"b", "a">>),
   P("X", <<"b", "b">>)})

\* eof once, behind a recursion
Ended == [G({"S", "B", "e"}, {P("S", <<"a", "S">>), P("S", <<"b", "B">>), P("B", <<"e">>)})
  EXCEPT !.eofs = {"e"}]

MCGrammars == {Ambiguous, Chain, Cycle, Class, AtEnd, Guarded, Failing, Ended}

\* the collector multiplies the orders that differ, so it runs on small charts
MCLags(g) == IF g \in {Cycle, Class, Guarded, Failing, Ended} THEN {NoLag, 1, 2} ELSE {NoLag}

\* what the soundness theorem assumes of the grammars
ASSUME SoundGrammars == EofIsNoCharacter /\ GuardsKeepNullables

\* what the completeness theorems assume: all grammars but the two in which a
\* nonterminal stands for the end of the input; that the spans are the least
\* ones is checked where their supersets can be enumerated
ASSUME CompleteGrammars ==
  \A g \in Grammars : g \in {AtEnd, Ended} <=> \E w \in Words : ~NullablesTell(g, w)

ASSUME SpansAreLeastOnShortWords ==
  \A g \in {Ambiguous, Cycle}, w \in Words : Len(w) <= 1 => LeastSpans(g, w)

===============================================================================
