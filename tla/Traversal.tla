------------------------------ MODULE Traversal ------------------------------
(***************************************************************************)
(* The traversals of interned trees with an explicit stack                 *)
(* (src/utility/tree_traversals_pre_order.tmpl.h, ..._post_order.tmpl.h):  *)
(* traverse rebuilds a tree, const_traverse only visits it.                *)
(*                                                                         *)
(* A node is a value with its left child and its right sibling.  Interned  *)
(* nodes are equal when their addresses are, so a node stands for its tref.*)
(* A traversal remembers by subtree, that is by value and children whatever*)
(* the right sibling.  One iteration of the loop is one action.            *)
(***************************************************************************)
EXTENDS Integers, Sequences, SequencesExt

CONSTANTS
  Null,         \* nullptr, which is no node
  Roots,        \* the trees that are traversed
  Callbacks, Ups, Predicates,  \* names of functions of the caller
  Apply(_, _),  \* what a callback makes of a node; "id" is identity
  Holds(_, _),  \* what a predicate or a visitor says of a node; "all" is TRUE
  MaxRuns       \* bound: traversals with one memory slot

VARIABLES
  mode,    \* the traversal and its callbacks
  root,
  phase,   \* "idle", "running", or "ended"
  runs,    \* the traversals of this memory slot so far
  stack, nxt, upos,
  memo,    \* m or cache: the results that are remembered, by subtree
  seen,    \* the subtrees that a unique visit has met
  log,     \* the callbacks of a visit, in order
  result

vars == <<mode, root, phase, runs, stack, nxt, upos, memo, seen, log, result>>

-------------------------------------------------------------------------------
(***************************************************************************)
(* The members of pre_order and post_order: what the caller gives and the  *)
(* template arguments that a member sets.                                  *)
(***************************************************************************)
Rebuild(order, f, sub, up, keep, unique, slot, until) ==
  [order |-> order, rebuild |-> TRUE, f |-> f, sub |-> sub, up |-> up, keep |-> keep,
   unique |-> unique, slot |-> slot, until |-> until, search |-> FALSE]

Visit(order, f, sub, unique, search) ==
  [order |-> order, rebuild |-> FALSE, f |-> f, sub |-> sub, up |-> "id", keep |-> "all",
   unique |-> unique, slot |-> FALSE, until |-> FALSE, search |-> search]

PreRebuilds ==
  {Rebuild("pre", f, sub, up, keep, unique, slot, until) :
     f \in Callbacks, sub \in Predicates, up \in Ups, keep \in Predicates,
     unique \in BOOLEAN, slot \in BOOLEAN, until \in BOOLEAN}

\* cache_ok is for the unique traversals that go on below a change
PreModes ==
  {m \in PreRebuilds : (m.until \/ ~m.unique) => m.keep = "all"}

PreVisits ==
  {Visit("pre", f, sub, unique, search) :
     f \in Predicates, sub \in Predicates, unique \in BOOLEAN, search \in BOOLEAN}

PostModes ==
  {Rebuild("post", f, sub, "id", "all", TRUE, slot, FALSE) :
     f \in Callbacks, sub \in Predicates, slot \in BOOLEAN}
  \cup {Visit("post", f, sub, unique, TRUE) :
          f \in Predicates, sub \in Predicates, unique \in BOOLEAN}

Modes == PreModes \cup PreVisits \cup PostModes

-------------------------------------------------------------------------------
(***************************************************************************)
(* Interned trees (lcrs_tree).                                             *)
(***************************************************************************)
Node(v, l, r) == [v |-> v, l |-> l, r |-> r]

\* lcrs_tree::get(n, r): the node m with the right sibling r
WithSibling(m, r) == Node(m.v, m.l, r)

\* subtree_equality, hash_lcrs_tref: the right sibling does not count
Key(m)            == <<m.v, m.l>>
SameSubtree(a, b) == IF Null \in {a, b} THEN a = b ELSE Key(a) = Key(b)

RECURSIVE Siblings(_)
Siblings(c) == IF c = Null THEN <<>> ELSE <<c>> \o Siblings(c.r)
Children(m) == Siblings(m.l)

\* lcrs_tree::get_raw: the nodes of ch, linked to each other
Linked(ch)    == FoldRight(LAMBDA c, r : WithSibling(c, r), ch, Null)
Rebuilt(m, ch) == Node(m.v, Linked(ch), m.r)

\* a callback may return a node with any right sibling
Called(cb, m) ==
  LET made == Apply(cb, m)
  IN  IF made \in {m, Null} THEN made ELSE WithSibling(made, m.r)

-------------------------------------------------------------------------------
Pos     == Last(upos)
Current == stack[Pos]
Kids    == SubSeq(stack, Pos + 1, Len(stack))

\* mutant: the right sibling is that of the last node on the stack
NextOfTop == IF Kids = <<>> THEN Current.l ELSE Last(stack).r

\* the next child of Current: nxt holds the siblings it had
NextChild == IF Kids = <<>> THEN Current.l ELSE Last(nxt)

Event(what, m) == <<[what |-> what, node |-> m]>>

\* a unique visit passes by what it has met
Met(c) == mode.unique /\ ~mode.rebuild /\ Key(c) \in seen

(***************************************************************************)
(* What c becomes when it is put on the stack, whether it is opened there, *)
(* and whether the traversal ends.                                         *)
(***************************************************************************)
Kept(c) == [node |-> c, open |-> FALSE, stop |-> FALSE, log |-> <<>>]

OpenRebuilt(c) ==
  LET r    == Called(mode.f, c)
      open == IF mode.until THEN r = c ELSE Holds(mode.sub, r)
      u    == Called(mode.up, r)
  IN  IF r = Null \/ (~open /\ u = Null) THEN [Kept(c) EXCEPT !.stop = TRUE]
      ELSE [Kept(IF open THEN r ELSE u) EXCEPT !.open = open]

OpenVisited(c) ==
  LET yes == Holds(mode.f, c)
  IN  [Kept(c) EXCEPT !.open = yes, !.stop = mode.search /\ ~yes, !.log = Event("visit", c)]

Enter(c) ==
  IF Met(c) \/ ~Holds(mode.sub, c) THEN Kept(c)
  ELSE IF mode.order = "post" THEN [Kept(c) EXCEPT !.open = TRUE]
  ELSE IF mode.rebuild THEN OpenRebuilt(c) ELSE OpenVisited(c)

(***************************************************************************)
(* What the last callback of a node makes of m, or Null.                   *)
(***************************************************************************)
Close(m) == Called(IF mode.order = "pre" THEN mode.up ELSE mode.f, m)

\* the callbacks at the end of the visit of m
CloseLog(m) ==
  IF mode.order = "post" THEN Event("visit", m)
  ELSE Event("up", m) \o (IF m.r = Null \/ mode.unique THEN <<>> ELSE Event("between", m))

\* a visitor in post order ends the traversal
CloseStops(m) == mode.order = "post" /\ ~Holds(mode.f, m)

-------------------------------------------------------------------------------
Stop(r) == phase' = "ended" /\ result' = r

\* the memo of a slot stays; that of a traversal begins empty
Memory == IF mode.slot THEN memo ELSE << >>

Start(c) ==
  /\ phase = "idle" \/ (phase = "ended" /\ mode.slot /\ runs < MaxRuns)
  /\ LET e == Enter(c)
         hit == mode.rebuild /\ mode.order = "post" /\ mode.slot /\ Key(c) \in DOMAIN memo
     IN  /\ root' = c /\ runs' = runs + 1
         /\ memo' = Memory
         /\ seen' = {Key(c)}
         /\ log' = e.log
         /\ stack' = <<e.node>> /\ nxt' = <<Null>>
         /\ upos' = IF e.open THEN <<1>> ELSE <<>>
         /\ IF e.stop THEN Stop(Null)
            ELSE IF e.open /\ hit THEN Stop(memo[Key(c)])
            ELSE phase' = "running" /\ result' = Null
  /\ UNCHANGED mode

(***************************************************************************)
(* No node is open any more.                                               *)
(***************************************************************************)
Return ==
  /\ phase = "running" /\ upos = <<>>
  /\ Stop(stack[1])
  /\ UNCHANGED <<mode, root, runs, stack, nxt, upos, memo, seen, log>>

\* mutant: a rebuilt node is remembered under its rebuilt subtree
RememberRebuilt(m, r) == [k \in DOMAIN memo \cup {Key(r)} |->
                            IF k \in DOMAIN memo THEN memo[k] ELSE r]

\* emplace: an entry that is there stays
Remember(m, r) ==
  IF Key(m) \in DOMAIN memo THEN memo
  ELSE [k \in DOMAIN memo \cup {Key(m)} |-> IF k = Key(m) THEN r ELSE memo[k]]

Remembered == mode.rebuild /\ mode.unique /\ Key(Current) \in DOMAIN memo

Recall ==
  /\ phase = "running" /\ upos # <<>> /\ Remembered
  /\ stack' = [stack EXCEPT ![Pos] = memo[Key(Current)]]
  /\ upos' = Front(upos)
  /\ UNCHANGED <<mode, root, phase, runs, nxt, memo, seen, log, result>>

(***************************************************************************)
(* The next child of Current goes on the stack.                            *)
(***************************************************************************)
OpenChild ==
  /\ phase = "running" /\ upos # <<>> /\ ~Remembered
  /\ NextChild # Null
  /\ LET c == NextChild
         e == Enter(c)
     IN  /\ log' = log \o e.log
         /\ IF e.stop
            THEN Stop(Null) /\ UNCHANGED <<stack, nxt, upos, seen>>
            ELSE /\ stack' = Append(stack, e.node)
                 /\ nxt' = Append(nxt, c.r)
                 /\ upos' = IF e.open THEN Append(upos, Len(stack) + 1) ELSE upos
                 /\ seen' = seen \cup {Key(c)}
                 /\ UNCHANGED <<phase, result>>
  /\ UNCHANGED <<mode, root, runs, memo>>

(***************************************************************************)
(* All children of Current are done: they leave the stack, and Current is  *)
(* rebuilt when one of them changed.  A leaf is not remembered.            *)
(***************************************************************************)
CloseNode ==
  /\ phase = "running" /\ upos # <<>> /\ ~Remembered
  /\ NextChild = Null
  /\ LET m == IF Kids = Children(Current) THEN Current ELSE Rebuilt(Current, Kids)
         r == IF mode.rebuild THEN Close(m) ELSE m
     IN  IF r = Null
         THEN Stop(Null) /\ UNCHANGED <<stack, nxt, upos, memo, log>>
         ELSE /\ stack' = Append(SubSeq(stack, 1, Pos - 1), r)
              /\ nxt' = SubSeq(nxt, 1, Pos)
              /\ upos' = Front(upos)
              /\ memo' = IF mode.rebuild /\ mode.unique /\ Current.l # Null
                              /\ Holds(mode.keep, Current)
                         THEN Remember(Current, r) ELSE memo
              /\ log' = IF mode.rebuild THEN log ELSE log \o CloseLog(m)
              /\ IF ~mode.rebuild /\ CloseStops(m)
                 THEN Stop(Null) ELSE UNCHANGED <<phase, result>>
  /\ UNCHANGED <<mode, root, runs, seen>>

-------------------------------------------------------------------------------
Init ==
  /\ mode \in Modes
  /\ root = Null /\ phase = "idle" /\ runs = 0
  /\ stack = <<>> /\ nxt = <<>> /\ upos = <<>>
  /\ memo = << >> /\ seen = {} /\ log = <<>> /\ result = Null

Next ==
  \/ \E c \in Roots : Start(c)
  \/ Return
  \/ Recall
  \/ OpenChild
  \/ CloseNode

Spec == Init /\ [][Next]_vars

-------------------------------------------------------------------------------
(***************************************************************************)
(* The same by recursion, without stack and memo.                          *)
(***************************************************************************)
RECURSIVE Transformed(_)

\* m with what its children become, closed
Body(m) ==
  LET ch == [i \in DOMAIN Children(m) |-> Transformed(Children(m)[i])]
  IN  IF Null \in Range(ch) THEN Null ELSE Close(Rebuilt(m, ch))

Transformed(c) ==
  LET e == Enter(c)
  IN  IF e.stop THEN Null ELSE IF e.open THEN Body(e.node) ELSE e.node

RECURSIVE Visited(_)
Visited(c) ==
  LET below == FlattenSeq([i \in DOMAIN Children(c) |-> Visited(Children(c)[i])])
  IN  IF ~Holds(mode.sub, c) THEN <<>>
      ELSE IF mode.order = "post" THEN below \o Event("visit", c)
      ELSE Event("visit", c) \o (IF Holds(mode.f, c) THEN below \o CloseLog(c) ELSE <<>>)

\* an event counts when no earlier one of its kind was about the same subtree
Fresh(s) ==
  LET Same(i, j) == s[i].what = s[j].what /\ Key(s[i].node) = Key(s[j].node)
      new == {i \in DOMAIN s : \A j \in 1..(i - 1) : ~Same(i, j)}
  IN  FoldLeftDomain(LAMBDA t, i : IF i \in new THEN Append(t, s[i]) ELSE t, <<>>, s)

\* up to the first visit that ends the traversal
Cut(s) ==
  LET ends == {i \in DOMAIN s : s[i].what = "visit" /\ ~Holds(mode.f, s[i].node)}
  IN  IF mode.search /\ ends # {}
      THEN SubSeq(s, 1, CHOOSE i \in ends : \A j \in ends : i <= j)
      ELSE s

(***************************************************************************)
(* A traversal returns what the recursion returns, and a visit makes the   *)
(* callbacks that the recursion makes in the same order, each subtree once *)
(* when it is unique and none after the one that ends it; also with the    *)
(* memory that other traversals of the slot left (pre_order, post_order).  *)
(***************************************************************************)
AsRecursion ==
  phase = "ended" =>
    IF mode.rebuild THEN SameSubtree(result, Transformed(root))
    ELSE log = Cut(IF mode.unique THEN Fresh(Visited(root)) ELSE Visited(root))

(***************************************************************************)
(* Whatever is remembered is what a traversal of that subtree alone makes  *)
(* of it: also in the middle of a traversal, and with a subtree that was   *)
(* remembered beside another right sibling (subtree_pair_equal).           *)
(***************************************************************************)
MemoExact ==
  \A k \in DOMAIN memo : SameSubtree(memo[k], Body(Node(k[1], k[2], Null)))
===============================================================================
