--------------------------- MODULE MCEarleyFindings ---------------------------
(***************************************************************************)
(* Grammars on which the recogniser departs from what its comments say.    *)
(***************************************************************************)
EXTENDS EarleyInstances

\* S => 'a' B B.  B => eof.
\* the second B is predicted in the last round, after B has completed
AtEndTwice == {[G({"S", "B", "e"}, {P("S", <<"a", "B", "B">>), P("B", <<"e">>)})
  EXCEPT !.eofs = {"e"}]}

Uncollected(g) == {NoLag}

\* S => 'a' T.  T => X 'b' | Y.  Y => X.  X => 'b' E 'a'.  E => 'b' | 'b' 'b'.
\* X is predicted for Y in the last round, so Y counts its one production
\* once; that production fails behind the short E and lives behind the long
FailsAndLives == {G({"S", "T", "X", "Y", "E"},
  {P("S", <<"a", "T">>), P("T", <<"X", "b">>), P("T", <<"Y">>), P("Y", <<"X">>),
   P("X", <<"b", "E", "a">>), P("E", <<"b">>), P("E", <<"b", "b">>)})}

Collected(g) == {1}

LongWords == [1..MaxLen -> MCChars]
===============================================================================
