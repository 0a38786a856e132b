------------------------------- MODULE Morris -------------------------------
(***************************************************************************)
(* The post-order walk without a stack of                                  *)
(* utility/tree_traversals_morris.tmpl.h.  It walks a binary tree by       *)
(* writing a thread into the right link of each predecessor, takes the     *)
(* thread out on the way back, and reverses a chain of right links, and    *)
(* turns it back, to visit it from the bottom up.  The links it writes are *)
(* those of the interned nodes of bintree::M().                            *)
(***************************************************************************)
EXTENDS Integers, Sequences, FiniteSets

CONSTANTS Nodes,    \* the addresses of the nodes, without Dummy and Null
          Tables,   \* the tables of links to walk: functions to [l, r]
          Root,     \* morris_post_order::root
          Dummy,    \* the node that holds the root as its left child
          Null      \* a null tref

ASSUME NodesAssumption ==
  IsFiniteSet(Nodes) /\ Root \in Nodes /\ Dummy \notin Nodes /\ Null \notin Nodes \cup {Dummy}

ASSUME TablesAssumption ==
  Tables \subseteq [Nodes -> [l : Nodes \cup {Null}, r : Nodes \cup {Null}]]

\* the node that holds the root, above the table t (bintree::get)
WithDummy(t) ==
  [n \in Nodes \cup {Dummy} |-> IF n = Dummy THEN [l |-> Root, r |-> Null] ELSE t[n]]

\* A node is interned after its children.
ChildrenFirst(b) ==
  \E age \in [Nodes -> 1..Cardinality(Nodes)] :
    \A n, m \in Nodes : m \in {b[n].l, b[n].r} => age[m] < age[n]

\* No two links lead to one node.
Unshared(b) ==
  \A m, n \in DOMAIN b, x, y \in {"l", "r"} : b[m][x] = b[n][y] /\ b[m][x] # Null => m = n /\ x = y

VARIABLES
  links,   \* the links as the walk reads and writes them
  built,   \* the links as the tree was built
  loop,    \* "walk", "seek", "reverse", "visit", "done"
  curr,    \* the node of the outer loop
  pred,    \* the predecessor being looked for
  at,      \* traverse_right_list: the node its loops stand on
  prev,    \* traverse_right_list: the node before it
  visited  \* the nodes the visitor was called with, in order

vars == <<links, built, loop, curr, pred, at, prev, visited>>

Init ==
  /\ built \in {WithDummy(t) : t \in Tables}
  /\ links = built
  /\ loop = "walk" /\ curr = Dummy
  /\ pred = Null /\ at = Null /\ prev = Null
  /\ visited = <<>>

SetRight(n, to) == links' = [links EXCEPT ![n].r = to]

\* `while (curr)`: without a left child the walk goes right.
GoRight ==
  /\ loop = "walk" /\ curr # Null /\ links[curr].l = Null
  /\ curr' = links[curr].r
  /\ UNCHANGED <<links, built, loop, pred, at, prev, visited>>

\* With a left child the predecessor is looked for, from that child on.
LookForPredecessor ==
  /\ loop = "walk" /\ curr # Null /\ links[curr].l # Null
  /\ loop' = "seek" /\ pred' = links[curr].l
  /\ UNCHANGED <<links, built, curr, at, prev, visited>>

\* A defect the checks look for: the thread back to the node is not recognised.
SeekPast ==
  /\ loop = "seek" /\ links[pred].r # Null
  /\ pred' = links[pred].r
  /\ UNCHANGED <<links, built, loop, curr, at, prev, visited>>

\* The inner loop follows right links until there is none or one leads here.
Seek ==
  /\ loop = "seek" /\ links[pred].r \notin {Null, curr}
  /\ pred' = links[pred].r
  /\ UNCHANGED <<links, built, loop, curr, at, prev, visited>>

\* No right link: the thread is written and the walk goes left.
WriteThread ==
  /\ loop = "seek" /\ links[pred].r = Null
  /\ SetRight(pred, curr)
  /\ curr' = links[curr].l /\ loop' = "walk"
  /\ UNCHANGED <<built, pred, at, prev, visited>>

\* The thread leads here: it is cut, and the left subtree's right edge is visited.
CutThread ==
  /\ loop = "seek" /\ links[pred].r = curr
  /\ SetRight(pred, Null)
  /\ loop' = "reverse" /\ at' = links[curr].l /\ prev' = Null
  /\ UNCHANGED <<built, curr, pred, visited>>

\* traverse_right_list, first loop: each right link is turned to the node before.
Reverse ==
  /\ loop = "reverse" /\ at # Null
  /\ SetRight(at, prev)
  /\ prev' = at /\ at' = links[at].r
  /\ UNCHANGED <<built, loop, curr, pred, visited>>

Reversed ==
  /\ loop = "reverse" /\ at = Null
  /\ loop' = "visit" /\ at' = prev /\ prev' = Null
  /\ UNCHANGED <<links, built, curr, pred, visited>>

\* A defect the checks look for: the chain is visited and not turned back.
VisitBackwards ==
  /\ loop = "visit" /\ at # Null
  /\ visited' = Append(visited, at)
  /\ prev' = at /\ at' = links[at].r
  /\ UNCHANGED <<links, built, loop, curr, pred>>

\* Second loop: each link is turned back and its node is visited.
Visit ==
  /\ loop = "visit" /\ at # Null
  /\ SetRight(at, prev)
  /\ visited' = Append(visited, at)
  /\ prev' = at /\ at' = links[at].r
  /\ UNCHANGED <<built, loop, curr, pred>>

\* Back in traverse: the walk goes to the right of the node it came back to.
Visited ==
  /\ loop = "visit" /\ at = Null
  /\ loop' = "walk" /\ curr' = links[curr].r
  /\ UNCHANGED <<links, built, pred, at, prev, visited>>

End ==
  /\ loop = "walk" /\ curr = Null
  /\ loop' = "done"
  /\ UNCHANGED <<links, built, curr, pred, at, prev, visited>>

Next == \/ GoRight \/ LookForPredecessor \/ Seek \/ WriteThread \/ CutThread
        \/ Reverse \/ Reversed \/ Visit \/ Visited \/ End

Spec == Init /\ [][Next]_vars /\ WF_vars(Next)

(***************************************************************************)
(* Properties                                                              *)
(***************************************************************************)
\* The nodes of b from n down in the order of the recursive walk: left, right, node.  They
\* are interned after their children, so h links lead to the end of every path.
PostOrder(b, n) ==
  LET go[h \in 0..Cardinality(Nodes)] ==
        [m \in Nodes \cup {Null} |->
           IF m = Null \/ h = 0 THEN <<>> ELSE go[h - 1][b[m].l] \o go[h - 1][b[m].r] \o <<m>>]
  IN  go[Cardinality(Nodes)][n]

\* A finished walk has called the visitor with the nodes in the order of the
\* recursive walk, and left every link of the table that other trees share as it
\* was built (traverse and traverse_right_list).
AsPostOrder == loop = "done" => visited = PostOrder(built, Root) /\ links = built

\* The walk ends: the threads it writes never make it run in circles.
Ends == <>(loop = "done")

=============================================================================
