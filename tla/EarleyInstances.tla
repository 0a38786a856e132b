---------------------------- MODULE EarleyInstances ---------------------------
(***************************************************************************)
(* What the instances of Earley share: the alphabet, the words up to a     *)
(* length, a constructor for grammars and the reference language.          *)
(***************************************************************************)
EXTENDS EarleyCollected

CONSTANT MaxLen   \* the longest input

MCChars == {"a", "b"}

P(head, body) == [head |-> head, body |-> body]

G(nts, prods) ==
  [start |-> "S", nts |-> nts, prods |-> prods, enabled |-> prods,
   classes |-> << >>, eofs |-> {}]

MCWords == UNION {[1..k -> MCChars] : k \in 0..MaxLen}

(***************************************************************************)
(* The reference language: the least set of spans closed under the enabled *)
(* productions, by iteration from the empty set.                           *)
(***************************************************************************)
RECURSIVE Iterate(_, _, _)
Iterate(R, g, w) ==
  LET Q == {s \in g.nts \X (0..Len(w)) \X (0..Len(w)) :
              /\ s[2] <= s[3]
              /\ \E p \in g.enabled :
                   /\ p.head = s[1]
                   /\ BodySpan(g, w, R, p.body, Len(p.body), s[2], s[3])}
  IN  IF Q = R THEN R ELSE Iterate(Q, g, w)

MCSpans == [g \in Grammars |-> [w \in Words |-> Iterate({}, g, w)]]
===============================================================================
