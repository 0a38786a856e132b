------------------------------- MODULE MCForest -------------------------------
(***************************************************************************)
(* Forest over five grammars: ambiguous bodies of three symbols, two       *)
(* productions that compete, cycles through an empty rest and through a    *)
(* unit, repetitions that are flattened and their ambiguity, and           *)
(* nonterminals that share a prefix.                                       *)
(***************************************************************************)
EXTENDS Forest

CONSTANT MaxLen   \* the longest input

P(head, body) == [head |-> head, body |-> body]
G(nts, ebnf, prods) == [start |-> "S", nts |-> nts, ebnf |-> ebnf, prods |-> prods]

\* S => X Y X | X Y 'b';  X => 'a' | X 'a' | null;  Y => X
Three == G({"S", "X", "Y"}, {},
           << P("S", <<"X", "Y", "X">>), P("S", <<"X", "Y", "b">>),
              P("X", <<"X", "a">>), P("X", <<"a">>), P("Y", <<"X">>), P("X", <<Null>>) >>)

\* S => S S | 'a' | null
Cyclic == G({"S"}, {}, << P("S", <<"S", "S">>), P("S", <<"a">>), P("S", <<Null>>) >>)

\* S => X | X S;  X => S | 'a' | 'b'
Units == G({"S", "X"}, {},
           << P("S", <<"X">>), P("S", <<"X", "S">>), P("X", <<"S">>), P("X", <<"a">>),
              P("X", <<"b">>) >>)

\* S => 'a'+ 'b'* 'a'+: each repetition has a helper
Repeats == G({"S", "E1", "E2"}, {"E1", "E2"},
             << P("S", <<"E1", "E2", "E1">>), P("E1", <<"a">>), P("E1", <<"a", "E1">>),
                P("E2", <<Null>>), P("E2", <<"b", "E2">>), P("E1", <<"E2", "a">>) >>)

\* the word is read by a body of four symbols or by two nested ones
Nested == G({"S", "X", "Y"}, {},
            << P("S", <<"X", "Y">>), P("S", <<"X", "X", "X", "X">>), P("S", <<"X", "X", "X">>),
               P("X", <<"a">>), P("X", <<"b">>), P("Y", <<"S">>), P("X", <<"a", "a">>) >>)

MCGrammars == {Three, Cyclic, Units, Repeats, Nested}
AcyclicGrammars == {Three, Nested}

RECURSIVE BodySpan(_, _, _, _, _, _)
BodySpan(g, w, R, body, i, j) ==
  IF body = <<>> THEN i = j
  ELSE \E v \in i..j :
         /\ \/ Last(body) = Null /\ v = j
            \/ Last(body) \notin g.nts /\ j = v + 1 /\ w[j] = Last(body)
            \/ <<Last(body), v, j>> \in R
         /\ BodySpan(g, w, R, Front(body), i, v)

\* the least set of spans that is closed under the productions
RECURSIVE Iterate(_, _, _)
Iterate(R, g, w) ==
  LET Q == {s \in g.nts \X (0..Len(w)) \X (0..Len(w)) :
              \E p \in DOMAIN g.prods :
                g.prods[p].head = s[1] /\ BodySpan(g, w, R, g.prods[p].body, s[2], s[3])}
  IN  IF Q = R THEN R ELSE Iterate(Q, g, w)

AllWords == UNION {[1..k -> {"a", "b"}] : k \in 0..MaxLen}
MCSpans  == [g \in Grammars |-> [w \in AllWords |-> Iterate({}, g, w)]]
MCWords  == [g \in Grammars |-> {w \in AllWords : <<g.start, 0, Len(w)>> \in MCSpans[g][w]}]

\* ascending and descending ids
MCOrders(g) ==
  LET ids == [p \in DOMAIN g.prods |-> p] IN {ids, Reverse(ids)}

Mode(path, d, kept, b) == [path |-> path, disambiguate |-> d, kept |-> kept, binarize |-> b]

MCModes ==
  {Mode(path, d, kept, FALSE) :
     path \in {"bintree", "forest"}, d \in BOOLEAN, kept \in {{}, {"S"}}}
  \cup {Mode("forest", d, kept, TRUE) : d \in BOOLEAN, kept \in {{}, {"S"}}}

\* the trees that binarization does not build right
TreeModes == {Mode("bintree", d, {}, TRUE) : d \in BOOLEAN}
===============================================================================
