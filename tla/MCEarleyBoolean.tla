---------------------------- MODULE MCEarleyBoolean ---------------------------
(***************************************************************************)
(* Instances of EarleyBoolean: conjunction, negation of a symbol, of a     *)
(* terminal and of a sequence, under repetition, in recursion and beside   *)
(* other productions of the same symbol, and every word up to a length;    *)
(* at the end two on which the recogniser departs from the documentation.  *)
(***************************************************************************)
EXTENDS EarleyBoolean

CONSTANT MaxLen   \* the longest input

MCChars == {"a", "b"}
MCWords == UNION {[1..k -> MCChars] : k \in 0..MaxLen}

Con(body) == [neg |-> FALSE, body |-> body]
Not(X) == [neg |-> TRUE, body |-> <<X>>]
Rule(head, conjs) == [head |-> head, conjs |-> conjs]
P(head, body) == Rule(head, <<Con(body)>>)

G(prods) == [start |-> "S", prods |-> prods,
             nts |-> {prods[p].head : p \in DOMAIN prods}]

(***************************************************************************)
(* The reference language is the well-founded one: the least spans when    *)
(* the negated conjuncts are read in Q, from a lower and an upper estimate *)
(* of Q in turn, until the lower one does not change.                      *)
(***************************************************************************)
RECURSIVE Least(_, _, _, _)
Least(R, Q, g, w) ==
  LET N == {s \in g.nts \X (0..Len(w)) \X (0..Len(w)) :
              /\ s[2] <= s[3]
              /\ \E p \in DOMAIN g.prods :
                   g.prods[p].head = s[1] /\ ProdSpan(w, R, Q, g.prods[p], s[2], s[3])}
  IN  IF N = R THEN R ELSE Least(N, Q, g, w)

RECURSIVE WellFounded(_, _, _)
WellFounded(Low, g, w) ==
  LET N == Least({}, Least({}, Low, g, w), g, w)
  IN  IF N = Low THEN Low ELSE WellFounded(N, g, w)

MCSpans == [g \in Grammars |-> [w \in Words |-> WellFounded({}, g, w)]]

-------------------------------------------------------------------------------
\* identifier => chars & ~keyword, repeated
Keyword == G(<<P("S", <<"S", "I">>), P("S", <<"I">>),
  Rule("I", <<Con(<<"C">>), Not("K")>>), P("C", <<"a">>), P("C", <<"b", "a">>),
  P("K", <<"b", "a">>), P("K", <<"a", "b">>)>>)

\* a symbol that a conjunction and a plain production derive, and recursion
\* through its conjuncts
Both == G(<<Rule("S", <<Con(<<"A">>), Con(<<"B">>)>>), P("S", <<"b">>),
  P("A", <<"a", "A">>), P("A", <<"a">>), P("A", <<"b", "S">>),
  P("B", <<"a", "a">>), P("B", <<"b", "S">>)>>)

\* expression => sum | mul & ~sum | digit
Priority == G(<<P("S", <<"P">>), Rule("S", <<Con(<<"S", "S">>), Not("P")>>), P("S", <<"a">>),
  P("P", <<"S", "b", "S">>)>>)

\* x => any & ~(cntrl & ascii), repeated: x is decided before the conjunction
\* it negates, and is taken back with what was derived from it
Late == G(<<P("S", <<"X", "S">>), P("S", <<"null">>),
  Rule("X", <<Con(<<"A">>), Not("N")>>), P("N", <<"M">>),
  Rule("M", <<Con(<<"C">>), Con(<<"D">>)>>),
  P("A", <<"a">>), P("A", <<"b">>), P("C", <<"a">>), P("D", <<"a">>), P("D", <<"b">>)>>)

\* of two routes to H one is taken back late, and the other supports it
Routes == G(<<P("S", <<"H", "b">>), P("S", <<"b">>), P("H", <<"Y">>), P("H", <<"V">>),
  Rule("Y", <<Con(<<"a">>), Not("K")>>), Rule("V", <<Con(<<"a">>), Not("O")>>),
  Rule("K", <<Con(<<"a">>), Not("O")>>), P("O", <<"b">>)>>)

\* the conjuncts that failed with their group are derived once more, later
Again == G(<<P("S", <<"X">>), P("S", <<"S", "b">>),
  Rule("X", <<Con(<<"C">>), Not("K")>>), P("K", <<"a">>),
  P("K", <<"Q">>), P("C", <<"a">>), P("C", <<"Q">>), Rule("Q", <<Con(<<"R">>), Con(<<"W">>)>>),
  P("R", <<"a">>), P("W", <<"a">>), P("W", <<"b">>), P("R", <<"b">>)>>)

\* a conjunction all of whose conjuncts are nullable
Optional == G(<<P("S", <<"X", "b">>), P("S", <<"a", "X", "X">>),
  Rule("X", <<Con(<<"O">>), Con(<<"Q">>)>>), P("O", <<"a">>), P("O", <<"null">>),
  P("Q", <<"a", "a">>), P("Q", <<"a">>), P("Q", <<"null">>)>>)

\* the conjunct B of S fails with its group, and the production of B that is a
\* conjunction itself completes it again
Returns == G(<<Rule("S", <<Con(<<"B">>), Con(<<"E">>)>>), P("S", <<"S", "b">>), P("B", <<"a">>),
  Rule("B", <<Con(<<"a">>), Con(<<"D">>)>>), P("D", <<"a">>), P("E", <<"b">>), P("S", <<"a">>)>>)

MCGrammars == {Keyword, Both, Priority, Late, Routes, Again, Optional, Returns}
-------------------------------------------------------------------------------
\* S => X & Y.  Y => B & C.  The group of S is decided before Y completes.
Nested == {G(<<Rule("S", <<Con(<<"X">>), Con(<<"Y">>)>>),
  Rule("Y", <<Con(<<"B">>), Con(<<"C">>)>>),
  P("X", <<"a">>), P("B", <<"a">>), P("C", <<"a">>), P("C", <<"a", "C">>)>>)}

\* S => X 'b'.  X => ~'a'.  The production of X has one conjunct: no group.
Alone == {G(<<P("S", <<"X", "b">>), P("N", <<"a">>), Rule("X", <<Not("N")>>),
  Rule("S", <<Con(<<"b", "b">>), Con(<<"X">>)>>)>>)}

Departing == Nested \cup Alone
===============================================================================
