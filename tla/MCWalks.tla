------------------------------ MODULE MCWalks ------------------------------
(***************************************************************************)
(* The walks of interned trees: either one with a stack (Traversal), over  *)
(* every tree of at most three nodes and four larger ones that repeat a    *)
(* subtree, with callbacks that rename, shrink, grow or give up; or the    *)
(* one without a stack (Morris), over every table of five addresses whose  *)
(* links lead to larger addresses.                                         *)
(***************************************************************************)
EXTENDS Morris

CONSTANTS a, b,
          Roots, Callbacks, Ups, Predicates, MaxRuns, Apply(_, _), Holds(_, _)  \* of Traversal

VARIABLES
  walk,    \* which one walks: "stack" or "threads"
  mode, root, phase, runs, stack, nxt, upos, memo, seen, log, result  \* of Traversal

-------------------------------------------------------------------------------
Size == 5
Addresses == 1..Size

\* One link of every node, to a larger address or to none.
Downwards == {f \in [Addresses -> Addresses \cup {Null}] :
                \A n \in Addresses : f[n] = Null \/ f[n] > n}

Shapes == {[n \in Addresses |-> [l |-> p[n], r |-> q[n]]] : p, q \in Downwards}

UnsharedShapes == {t \in Shapes : Unshared(t)}

\* Nodes are interned: some node stands in several places of the tree.
SharedShapes == Shapes \ UnsharedShapes

-------------------------------------------------------------------------------
MCApply(cb, m) ==
  CASE cb = "id"     -> m
    [] cb = "rename" -> IF m.v = a THEN [m EXCEPT !.v = b] ELSE m
    [] cb = "first"  -> IF m.v = a /\ m.l # Null THEN m.l ELSE m
    [] cb = "grow"   -> IF m.v = a /\ m.l = Null /\ m.r = Null
                        THEN [m EXCEPT !.v = b, !.l = [m EXCEPT !.v = b]] ELSE m
    [] cb = "fail"   -> IF m.v = b /\ m.l = [v |-> a, l |-> Null, r |-> Null] THEN Null ELSE m

MCHolds(p, m) ==
  CASE p = "all" -> TRUE
    [] p = "b"   -> m.v = b
    [] p = "top" -> m.l # Null

T == INSTANCE Traversal
stackVars == <<mode, root, phase, runs, stack, nxt, upos, memo, seen, log, result>>

Made(v, l, r)  == [v |-> v, l |-> l, r |-> r]
Beside(m, r)   == [m EXCEPT !.r = r]
Leaf(v)        == Made(v, Null, Null)
Above(v, l)    == Made(v, l, Null)

RECURSIVE Trees(_)
\* the nodes with k nodes below and beside them, themselves included
Trees(k) ==
  IF k = 0 THEN {Null}
  ELSE UNION {{Made(v, l, r) : v \in {a, b}, l \in Trees(i), r \in Trees(k - 1 - i)} :
                i \in 0..(k - 1)}

AB == Above(a, Leaf(b))
BA == Above(b, Leaf(a))

MCRoots ==
  {t \in Trees(1) \cup Trees(2) \cup Trees(3) : t.r = Null}
  \cup { Above(b, Beside(AB, AB)),
         Above(b, Beside(AB, Beside(Leaf(a), Beside(AB, BA)))),
         Above(a, Beside(BA, Above(a, Beside(BA, AB)))),
         Beside(BA, AB) }

-------------------------------------------------------------------------------
\* The other walk stays at its beginning.
MCInit ==
  \/ walk = "stack" /\ T!Init
     /\ built = [n \in Nodes \cup {Dummy} |-> [l |-> Null, r |-> Null]] /\ links = built
     /\ loop = "off" /\ curr = Null /\ pred = Null /\ at = Null /\ prev = Null
     /\ visited = <<>>
  \/ walk = "threads" /\ Init
     /\ mode = T!Visit("post", "all", "all", FALSE, TRUE)
     /\ root = Null /\ phase = "idle" /\ runs = 0
     /\ stack = <<>> /\ nxt = <<>> /\ upos = <<>>
     /\ memo = << >> /\ seen = {} /\ log = <<>> /\ result = Null

MCNext ==
  \/ walk = "stack" /\ T!Next /\ UNCHANGED <<walk, vars>>
  \/ walk = "threads" /\ Next /\ UNCHANGED <<walk, stackVars>>

MCSpec ==
  MCInit /\ [][MCNext]_<<walk, vars, stackVars>> /\ WF_vars(Next)

-------------------------------------------------------------------------------
\* A traversal with a stack returns and calls what the recursion does
\* (pre_order, post_order).
AsRecursion == T!AsRecursion

\* What a traversal remembers is what a traversal of that subtree alone makes of
\* it (subtree_pair_equal).
MemoExact == T!MemoExact

\* The walk without a stack ends: its threads never make it run in circles
\* (morris_post_order::traverse).
ThreadsEnd == walk = "threads" => Ends
=============================================================================
