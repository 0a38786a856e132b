------------------------------- MODULE Rewrite -------------------------------
(***************************************************************************)
(* Rewriting of interned trees by rules (src/utility/tree_rewriter.tmpl.h, *)
(* namespace rewriter): apply_rule, fixpoint and apply_rule_guarded.       *)
(*                                                                         *)
(* A rule is a pattern and a body, trees some nodes of which are captures. *)
(* A pass of a rule walks the tree once, children before parents and each  *)
(* subtree once (post_order::search_unique, module Traversal), and writes  *)
(* down for every subtree what becomes of it; later nodes are matched      *)
(* against what was written for their children.                            *)
(***************************************************************************)
EXTENDS Integers, Sequences, SequencesExt

CONSTANTS
  Roots,         \* the trees that are rewritten
  Programs,      \* what a caller asks for: [op, rules, guard]
  IsCapture(_),  \* the caller's predicate on pattern nodes
  Admits(_, _, _)  \* a guard, by name, on the bound captures and the node

VARIABLES
  prog,     \* the call: fixpoint of a list of rules, or one guarded rule
  start,    \* the tree it was called with
  root,     \* the tree so far
  prev,     \* fixpoint: the tree before the current pass over the rules
  at,       \* the index of the rule being applied
  phase,    \* "head", "rules", "walk", "fixed", "stopped"
  todo,     \* the subtrees the walk has still to visit, in order
  base,     \* pattern_matcher2::changes
  changes   \* pattern_matcher_guarded::changes

vars == <<prog, start, root, prev, at, phase, todo, base, changes>>

-------------------------------------------------------------------------------
(***************************************************************************)
(* Trees up to their right sibling: subtree_equals is equality.            *)
(***************************************************************************)
Node(v, ch) == [v |-> v, ch |-> ch]

WithChildren(n, ch) == [n EXCEPT !.ch = ch]

RECURSIVE PostOrder(_)
PostOrder(n) == FlattenSeq([i \in DOMAIN n.ch |-> PostOrder(n.ch[i])]) \o <<n>>

\* search_unique: a subtree that was met is passed by
Walk(n) ==
  LET all == PostOrder(n)
  IN  FoldLeft(LAMBDA s, m : IF Contains(s, m) THEN s ELSE Append(s, m), <<>>, all)

Cached(n, map) == IF n \in DOMAIN map THEN map[n] ELSE n

Put(map, n, to) == [m \in DOMAIN map \cup {n} |-> IF m = n THEN to ELSE map[m]]

\* replace: what is put in is not looked into
RECURSIVE Replaced(_, _)
Replaced(n, map) ==
  LET r == Cached(n, map)
  IN  IF r # n THEN r ELSE WithChildren(n, [i \in DOMAIN n.ch |-> Replaced(n.ch[i], map)])

-------------------------------------------------------------------------------
(***************************************************************************)
(* Matching.  A capture stands for the node as it was; any other pattern   *)
(* node is compared with what the node has become.  A literal child that   *)
(* is the same subtree is not looked into.                                 *)
(***************************************************************************)
RECURSIVE Fits(_, _, _)
Fits(p, n, map) ==
  \/ IsCapture(p)
  \/ LET k == Cached(n, map)
     IN  /\ ~IsCapture(p)
         /\ p.v = k.v /\ Len(p.ch) = Len(k.ch)
         /\ \A i \in DOMAIN p.ch : p.ch[i] = k.ch[i] \/ Fits(p.ch[i], k.ch[i], map)

\* the captures of p with what each of their occurrences stands for
RECURSIVE Bindings(_, _, _)
Bindings(p, n, map) ==
  IF IsCapture(p) THEN {<<p, n>>}
  ELSE LET k == Cached(n, map)
       IN  UNION {Bindings(p.ch[i], k.ch[i], map) : i \in {j \in DOMAIN p.ch : p.ch[j] # k.ch[j]}}

\* mutant: the first occurrence of a capture decides
AnyBinding(b) == TRUE

\* a capture that occurs again must stand for an equal subtree
Functional(b) == \A x, y \in b : x[1] = y[1] => x[2] = y[2]

Matches(p, n, map) == Fits(p, n, map) /\ Functional(Bindings(p, n, map))

Env(b) == [c \in {x[1] : x \in b} |-> (CHOOSE x \in b : x[1] = c)[2]]

Rebuilt(n, map) == WithChildren(n, [i \in DOMAIN n.ch |-> Cached(n.ch[i], map)])

\* pattern_matcher2::operator() on n
Rewritten(r, n, map) ==
  IF Matches(r.p, n, map) THEN Replaced(r.b, Env(Bindings(r.p, n, map)))
  ELSE Rebuilt(n, map)

-------------------------------------------------------------------------------
Rule == prog.rules[at]

Guarded == prog.op = "guarded"

Begin == phase' = "walk" /\ todo' = Walk(root) /\ base' = << >> /\ changes' = << >>

(***************************************************************************)
(* fixpoint: the top of its loop.  The predicate done is the caller's, so  *)
(* it may say yes at any time.                                             *)
(***************************************************************************)
Done ==
  /\ phase = "head"
  /\ phase' = "stopped"
  /\ UNCHANGED <<prog, start, root, prev, at, todo, base, changes>>

BeginPass ==
  /\ phase = "head"
  /\ prev' = root /\ at' = 1 /\ phase' = "rules"
  /\ UNCHANGED <<prog, start, root, todo, base, changes>>

\* mutant: the tree is compared with that before the last rule
BeginRuleAfresh ==
  /\ phase = "rules" /\ at <= Len(prog.rules)
  /\ Begin
  /\ prev' = root
  /\ UNCHANGED <<prog, start, root, at>>

\* apply_rule, apply_rule_guarded: a matcher of its own for each rule
BeginRule ==
  /\ phase = "rules" /\ at <= Len(prog.rules)
  /\ Begin
  /\ UNCHANGED <<prog, start, root, prev, at>>

(***************************************************************************)
(* The matcher is called with the next subtree.                            *)
(***************************************************************************)
Visit ==
  /\ phase = "walk" /\ ~Guarded /\ todo # <<>>
  /\ base' = Put(base, Head(todo), Rewritten(Rule, Head(todo), base))
  /\ todo' = Tail(todo)
  /\ UNCHANGED <<prog, start, root, prev, at, phase, changes>>

\* With a guard the base matcher goes first, and what a guard turned down is
\* taken back in the copy.
VisitGuarded ==
  /\ phase = "walk" /\ Guarded /\ todo # <<>>
  /\ LET n == Head(todo)
         matched == Put(base, n, Rewritten(Rule, n, base))
         plain == Rebuilt(n, base)
         refused == /\ matched[n] # plain
                    /\ ~Admits(prog.guard, Env(Bindings(Rule.p, n, base)), n)
     IN  /\ base' = matched
         /\ changes' = IF refused THEN Put(matched, n, plain) ELSE matched
  /\ todo' = Tail(todo)
  /\ UNCHANGED <<prog, start, root, prev, at, phase>>

\* replace_root
EndRule ==
  /\ phase = "walk" /\ todo = <<>>
  /\ root' = Cached(root, IF Guarded THEN changes ELSE base)
  /\ IF Guarded THEN phase' = "stopped" /\ UNCHANGED at
     ELSE phase' = "rules" /\ at' = at + 1
  /\ UNCHANGED <<prog, start, prev, todo, base, changes>>

\* mutant: the tree is compared with the one fixpoint was called with
EndPassFromStart ==
  /\ phase = "rules" /\ at > Len(prog.rules)
  /\ phase' = IF root = start THEN "fixed" ELSE "head"
  /\ UNCHANGED <<prog, start, root, prev, at, todo, base, changes>>

EndPass ==
  /\ phase = "rules" /\ at > Len(prog.rules)
  /\ phase' = IF root = prev THEN "fixed" ELSE "head"
  /\ UNCHANGED <<prog, start, root, prev, at, todo, base, changes>>

-------------------------------------------------------------------------------
Init ==
  /\ prog \in Programs
  /\ start \in Roots /\ root = start /\ prev = start
  /\ at = 1
  /\ phase = IF Guarded THEN "rules" ELSE "head"
  /\ todo = <<>> /\ base = << >> /\ changes = << >>

Next ==
  \/ Done \/ BeginPass \/ BeginRule \/ Visit \/ VisitGuarded \/ EndRule \/ EndPass

Spec == Init /\ [][Next]_vars

-------------------------------------------------------------------------------
(***************************************************************************)
(* Rewriting as it is defined: a rule takes one instance of its pattern,   *)
(* anywhere in a tree, to the same instance of its body.                   *)
(***************************************************************************)
Nodes(t) == Range(PostOrder(t))

Captures(p) == {c \in Nodes(p) : IsCapture(c)}

RECURSIVE Instance(_, _)
Instance(p, e) ==
  IF p \in DOMAIN e THEN e[p] ELSE WithChildren(p, [i \in DOMAIN p.ch |-> Instance(p.ch[i], e)])

Instances(r, n) == {e \in [Captures(r.p) -> Nodes(n)] : Instance(r.p, e) = n}

RECURSIVE Steps(_, _)
Steps(r, n) ==
  {Instance(r.b, e) : e \in {f \in Instances(r, n) : Admits(prog.guard, f, n)}}
  \cup UNION {{[n EXCEPT !.ch[i] = c] : c \in Steps(r, n.ch[i])} : i \in DOMAIN n.ch}

RECURSIVE Reached(_, _)
Reached(r, trees) ==
  LET more == trees \cup UNION {Steps(r, n) : n \in trees}
  IN  IF more = trees THEN trees ELSE Reached(r, more)

\* every instance of the body is smaller than that of the pattern
Occurrences(c, t) == Len(SelectSeq(PostOrder(t), LAMBDA m : m = c))

Shrinking ==
  \A r \in Range(prog.rules) :
    /\ Len(PostOrder(r.b)) < Len(PostOrder(r.p))
    /\ \A c \in Captures(r.b) : Occurrences(c, r.b) <= Occurrences(c, r.p)

(***************************************************************************)
(* What a pass writes down for a subtree follows from it by the rule, with *)
(* instances the guard admits, and a capture that occurs twice stands for  *)
(* one subtree: although a match mixes nodes as they were with what their  *)
(* children have become (pattern_matcher2::match, operator()).             *)
(***************************************************************************)
Derivable ==
  phase = "walk" /\ todo = <<>> =>
    LET made == IF Guarded THEN changes ELSE base
    IN  \A n \in DOMAIN made : made[n] \in Reached(Rule, {n})

(***************************************************************************)
(* A fixed point is a normal form: a pass of rules that shrink the tree    *)
(* leaves it alone only if no rule applies anywhere in it, although a pass *)
(* may lose what it rewrote below a capture (fixpoint).                    *)
(***************************************************************************)
NormalForm ==
  phase = "fixed" /\ Shrinking =>
    \A r \in Range(prog.rules) : \A n \in Nodes(root) : Instances(r, n) = {}

(***************************************************************************)
(* fixpoint goes on only while its tree gets smaller, so that with rules   *)
(* that shrink the tree its loop, which has no other bound, ends.          *)
(***************************************************************************)
Descends ==
  [][phase = "rules" /\ phase' = "head" /\ Shrinking =>
       Len(PostOrder(root)) < Len(PostOrder(prev))]_vars
===============================================================================
