----------------------------- MODULE MCRewrite -----------------------------
(***************************************************************************)
(* Rewrite over the trees of up to five nodes and larger ones that repeat  *)
(* a subtree or nest two matches, with rules that are nested, repeat a     *)
(* capture, swap, rename, or undo each other.                              *)
(***************************************************************************)
EXTENDS Rewrite

CONSTANTS a, b, f, g, X, Y

L(v)    == Node(v, <<>>)
F(t)    == Node(f, <<t>>)
G(s, t) == Node(g, <<s, t>>)

RECURSIVE Trees(_)
Trees(k) ==
  (IF k = 1 THEN {L(a), L(b)} ELSE {})
  \cup (IF k > 1 THEN {F(t) : t \in Trees(k - 1)} ELSE {})
  \cup UNION {{G(s, t) : s \in Trees(i), t \in Trees(k - 1 - i)} : i \in 1..(k - 2)}

MCRoots ==
  UNION {Trees(k) : k \in 1..5}
  \cup {F(F(F(F(L(a))))), G(F(L(a)), F(F(L(a)))), G(F(F(L(b))), F(F(L(b)))),
        G(G(L(a), L(a)), G(L(a), L(a))), F(G(F(F(L(a))), F(L(a)))),
        G(G(F(L(a)), L(b)), F(G(L(b), F(L(a)))))}

MCIsCapture(p) == p.v \in {X, Y}

R(p, q) == [p |-> p, b |-> q]

Peel   == R(F(L(X)), L(X))
Same   == R(G(L(X), L(X)), L(X))
Twice  == R(F(F(L(X))), F(L(X)))
Absorb == R(G(L(X), F(L(X))), F(L(X)))
Pull   == R(G(F(L(X)), L(Y)), G(L(Y), L(X)))
Swap   == R(G(L(X), L(Y)), G(L(Y), L(X)))
Rename == R(L(a), L(b))
Back   == R(L(b), L(a))
Literal == R(G(F(L(a)), L(X)), F(L(X)))

Fixpoint(rules) == [op |-> "fixpoint", rules |-> rules, guard |-> "any"]
GuardedBy(r, guard) == [op |-> "guarded", rules |-> <<r>>, guard |-> guard]

MCPrograms ==
  {Fixpoint(rs) : rs \in {<<Peel>>, <<Same>>, <<Twice>>, <<Absorb>>, <<Pull>>, <<Swap>>,
     <<Same, Twice>>, <<Absorb, Pull>>, <<Rename, Back>>, <<Literal, Same>>,
     <<Rename, Literal>>, <<Pull, Twice, Same>>}}
  \cup {GuardedBy(r, "any") : r \in {Peel, Same, Twice, Absorb, Pull, Swap}}

\* "none" refuses, "leaf" admits captures of leaves only
MCAdmits(guard, e, n) ==
  CASE guard = "any"  -> TRUE
    [] guard = "none" -> FALSE
    [] guard = "leaf" -> \A c \in DOMAIN e : e[c].ch = <<>>

RefusingPrograms == {GuardedBy(r, guard) : r \in {Peel, Same, Swap}, guard \in {"none", "leaf"}}
=============================================================================
