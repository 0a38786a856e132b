---------------------------- MODULE MorrisProofs ----------------------------
(***************************************************************************)
(* The walk without a stack visits any unshared tree in the order of the   *)
(* recursion and leaves its links as they were.                            *)
(*                                                                         *)
(* The argument goes by places: the numbers of the nodes in the order of   *)
(* the recursion, the node above the root being the last.  A subtree is an *)
(* interval of places that ends with its top, and a chain of right links   *)
(* is an interval too, with its top at the end.  The walk visits the places*)
(* one interval after the other; a thread is written at the bottom of each *)
(* chain it is inside, and at a node that has been left for good there is  *)
(* none.                                                                   *)
(***************************************************************************)
EXTENDS Morris, TLAPS, FiniteSetTheorems, WellFoundedInduction

Held == Nodes \cup {Dummy}

\* An unshared tree whose nodes were interned from the leaves up, with Dummy on top.
Tree(b) == (\E t \in Tables : b = WithDummy(t)) /\ ChildrenFirst(b) /\ Unshared(b)

-----------------------------------------------------------------------------
Below == {r \in Nat \X Nat : r[1] < r[2]}

\* Induction, from the least element that is left out.
LEMMA NatSetInduction ==
  ASSUME NEW N, 0 \in N, \A k \in Nat : k \in N => k + 1 \in N
  PROVE  Nat \subseteq N
<1>1. IsWellFoundedOn(Below, Nat)
  BY NatLessThanWellFounded, Zenon DEF OpToRel, Below
<1>2. SUFFICES ASSUME Nat \ N # {} PROVE FALSE
  OBVIOUS
<1>3. Nat \ N \subseteq Nat
  OBVIOUS
<1>4. PICK m \in Nat \ N : \A k \in Nat \ N : ~(<<k, m>> \in Below)
  BY <1>1, <1>2, <1>3, WFMin, Zenon
<1>5. m \in Nat /\ m # 0 /\ m - 1 \in Nat /\ m - 1 < m /\ (m - 1) + 1 = m
  BY <1>4
<1>6. <<m - 1, m>> \in Below
  BY <1>5 DEF Below
<1> QED
  BY <1>4, <1>5, <1>6

LEMMA ConcatenatedType ==
  ASSUME NEW S, NEW s \in Seq(S), NEW t \in Seq(S), NEW n \in S
  PROVE  s \o t \o <<n>> \in Seq(S)
OBVIOUS

\* Three sequences in a row, the last of one element.
LEMMA Concatenated ==
  ASSUME NEW S, NEW s \in Seq(S), NEW t \in Seq(S), NEW n \in S, NEW u, u = s \o t \o <<n>>
  PROVE  /\ u \in Seq(S) /\ Len(s) \in Nat /\ Len(t) \in Nat
         /\ Len(u) = Len(s) + Len(t) + 1
         /\ \A i \in 1..Len(s) : u[i] = s[i]
         /\ \A i \in 1..Len(t) : u[Len(s) + i] = t[i]
         /\ u[Len(u)] = n
<1>1. s \o t \in Seq(S) /\ Len(s \o t) = Len(s) + Len(t) /\ Len(s) \in Nat /\ Len(t) \in Nat
  OBVIOUS
<1>2. <<n>> \in Seq(S) /\ Len(<<n>>) = 1 /\ <<n>>[1] = n
  OBVIOUS
<1>3. u \in Seq(S) /\ Len(u) = Len(s) + Len(t) + 1
  BY <1>1, <1>2
<1>4. ASSUME NEW i \in 1..Len(s \o t) PROVE u[i] = (s \o t)[i]
  BY <1>1, <1>2
<1>5. u[Len(u)] = n
  BY <1>1, <1>2, <1>3
<1>6. ASSUME NEW i \in 1..Len(s) PROVE u[i] = s[i]
  <2>1. (s \o t)[i] = s[i] /\ i \in 1..Len(s \o t)
    BY <1>1
  <2> QED BY <2>1, <1>4
<1>7. ASSUME NEW i \in 1..Len(t) PROVE u[Len(s) + i] = t[i]
  <2>1. (s \o t)[Len(s) + i] = t[i] /\ Len(s) + i \in 1..Len(s \o t)
    BY <1>1
  <2> QED BY <2>1, <1>4
<1> QED BY <1>1, <1>3, <1>5, <1>6, <1>7

-----------------------------------------------------------------------------
\* What PostOrder makes of the orders that reach h links down.
Longer(b, x, h) ==
  [m \in Nodes \cup {Null} |->
     IF m = Null \/ h = 0 THEN <<>> ELSE x[h - 1][b[m].l] \o x[h - 1][b[m].r] \o <<m>>]

UpTo(b, x, k) == x = [h \in 0..k |-> Longer(b, x, h)]

\* The recursion of PostOrder has a solution.
LEMMA PostOrderSolved ==
  ASSUME NEW b
  PROVE  \A k \in Nat : \E x : UpTo(b, x, k)
<1> DEFINE N == {k \in Nat : \E x : UpTo(b, x, k)}
<1>1. 0 \in N
  <2> DEFINE x == [h \in 0..0 |-> [m \in Nodes \cup {Null} |-> <<>>]]
  <2>1. \A h \in 0..0 : Longer(b, x, h) = [m \in Nodes \cup {Null} |-> <<>>]
    BY DEF Longer
  <2>2. UpTo(b, x, 0)
    BY <2>1 DEF UpTo
  <2> QED BY <2>2
<1>2. ASSUME NEW k \in Nat, k \in N PROVE k + 1 \in N
  <2>1. PICK x : UpTo(b, x, k)
    BY <1>2
  <2> DEFINE y == [h \in 0..(k + 1) |-> IF h = k + 1 THEN Longer(b, x, k + 1) ELSE x[h]]
             Y == [h \in 0..(k + 1) |-> Longer(b, y, h)]
  <2>2. \A h \in 0..k : h \in 0..(k + 1) /\ h # k + 1 /\ y[h] = x[h]
    OBVIOUS
  <2>3. \A h \in 0..(k + 1) : h # 0 => h - 1 \in 0..k
    OBVIOUS
  <2>4. ASSUME NEW h \in 0..(k + 1) PROVE Longer(b, y, h) = Longer(b, x, h)
    <3>1. CASE h = 0
      BY <3>1 DEF Longer
    <3>2. CASE h # 0
      <4>1. y[h - 1] = x[h - 1]
        BY <2>2, <2>3, <3>2
      <4> HIDE DEF y
      <4> QED BY <4>1 DEF Longer
    <3> QED BY <3>1, <3>2
  <2>5. ASSUME NEW h \in 0..(k + 1) PROVE y[h] = Longer(b, x, h)
    <3>1. CASE h = k + 1
      BY <3>1
    <3>2. CASE h # k + 1
      <4>1. h \in 0..k
        BY <3>2
      <4>2. x[h] = Longer(b, x, h)
        <5> HIDE DEF Y, y
        <5> QED BY <2>1, <4>1, Zenon DEF UpTo
      <4> QED BY <2>2, <4>1, <4>2
    <3> QED BY <3>1, <3>2
  <2>6. \A h \in 0..(k + 1) : y[h] = Y[h]
    BY <2>4, <2>5
  <2>7. y = [h \in 0..(k + 1) |-> y[h]] /\ Y = [h \in 0..(k + 1) |-> Y[h]]
    OBVIOUS
  <2>8. y = Y
    <3> HIDE DEF y, Y
    <3> QED BY <2>6, <2>7
  <2>9. UpTo(b, y, k + 1)
    BY <2>8 DEF UpTo
  <2> QED BY <2>9
<1>3. Nat \subseteq N
  <2> HIDE DEF N
  <2> QED BY <1>1, <1>2, NatSetInduction
<1> QED BY <1>3

LEMMA PostOrderIs ==
  ASSUME NEW b, Cardinality(Nodes) \in Nat
  PROVE  \E x : /\ \A h \in 0..Cardinality(Nodes) : x[h] = Longer(b, x, h)
                /\ \A n : PostOrder(b, n) = x[Cardinality(Nodes)][n]
<1> DEFINE C == Cardinality(Nodes)
           IsF(x) == x = [h \in 0..C |->
                            [m \in Nodes \cup {Null} |->
                               IF m = Null \/ h = 0 THEN <<>>
                               ELSE x[h - 1][b[m].l] \o x[h - 1][b[m].r] \o <<m>>]]
           f == CHOOSE x : IsF(x)
<1>1. \A n : PostOrder(b, n) = f[C][n]
  BY DEF PostOrder
<1>2. \A x : IsF(x) <=> UpTo(b, x, C)
  BY DEF UpTo, Longer
<1>3. UpTo(b, f, C)
  <2>1. PICK x : UpTo(b, x, C)
    BY PostOrderSolved
  <2> HIDE DEF IsF
  <2> QED BY <2>1, <1>2
<1>4. \A h \in 0..C : f[h] = Longer(b, f, h)
  <2> HIDE DEF f
  <2> QED BY <1>3, Zenon DEF UpTo
<1> HIDE DEF f
<1> QED BY <1>1, <1>4
-----------------------------------------------------------------------------
LEMMA TreeLinks ==
  ASSUME NEW b, Tree(b)
  PROVE  /\ b \in [Held -> [l : Nodes \cup {Null}, r : Nodes \cup {Null}]]
         /\ b[Dummy].l = Root /\ b[Dummy].r = Null
<1>1. PICK t \in Tables : b = WithDummy(t)
  BY DEF Tree
<1>2. t \in [Nodes -> [l : Nodes \cup {Null}, r : Nodes \cup {Null}]]
  BY TablesAssumption
<1>3. \A n \in Nodes : n # Dummy /\ t[n] \in [l : Nodes \cup {Null}, r : Nodes \cup {Null}]
  BY <1>2, NodesAssumption
<1>4. [l |-> Root, r |-> Null] \in [l : Nodes \cup {Null}, r : Nodes \cup {Null}]
  BY NodesAssumption
<1> QED BY <1>1, <1>3, <1>4, NodesAssumption DEF WithDummy, Held

\* Where the nodes are interned from the leaves up, every path is short enough.
LEMMA PostOrderStep ==
  ASSUME NEW b, Tree(b)
  PROVE  /\ PostOrder(b, Null) = <<>>
         /\ \A n \in Nodes :
              /\ PostOrder(b, n) \in Seq(Nodes)
              /\ PostOrder(b, n) = PostOrder(b, b[n].l) \o PostOrder(b, b[n].r) \o <<n>>
<1> DEFINE C == Cardinality(Nodes)
<1>1. C \in Nat /\ Null \notin Nodes
  BY NodesAssumption, FS_CardinalityType
<1>2. PICK x : /\ \A h \in 0..C : x[h] = Longer(b, x, h)
               /\ \A n : PostOrder(b, n) = x[C][n]
  BY <1>1, PostOrderIs
<1>3. PICK age \in [Nodes -> 1..C] : \A n, m \in Nodes : m \in {b[n].l, b[n].r} => age[m] < age[n]
  BY DEF Tree, ChildrenFirst
<1>4. \A n \in Nodes : b[n].l \in Nodes \cup {Null} /\ b[n].r \in Nodes \cup {Null}
  BY TreeLinks DEF Held
<1> HIDE DEF C
<1>5. ASSUME NEW h \in 0..C, NEW n \in Nodes \cup {Null}
      PROVE  x[h][n] = IF n = Null \/ h = 0 THEN <<>>
                       ELSE x[h - 1][b[n].l] \o x[h - 1][b[n].r] \o <<n>>
  <2>1. x[h] = Longer(b, x, h)
    BY <1>2
  <2> QED BY <2>1 DEF Longer
<1>6. \A h \in 0..C : x[h][Null] = <<>>
  BY <1>5
<1> DEFINE Stable(h) == \A n \in Nodes, g \in h..C : age[n] <= h => x[g][n] = x[h][n]
           N == {h \in Nat : h <= C => /\ Stable(h)
                                       /\ \A n \in Nodes \cup {Null} : x[h][n] \in Seq(Nodes)}
<1>7. 0 \in N
  <2>1. \A n \in Nodes : ~(age[n] <= 0)
    BY <1>1, <1>3
  <2>2. 0 <= C => \A n \in Nodes \cup {Null} : x[0][n] \in Seq(Nodes)
    <3>1. 0 \in 0..C /\ <<>> \in Seq(Nodes)
      BY <1>1
    <3>2. \A n \in Nodes \cup {Null} : x[0][n] = <<>>
      BY <3>1, <1>5
    <3> QED BY <3>1, <3>2
  <2> QED BY <2>1, <2>2
<1>8. ASSUME NEW k \in Nat, k \in N PROVE k + 1 \in N
  <2>1. SUFFICES ASSUME k + 1 <= C
                 PROVE  /\ Stable(k + 1)
                        /\ \A n \in Nodes \cup {Null} : x[k + 1][n] \in Seq(Nodes)
    OBVIOUS
  <2>2. k \in 0..C /\ k + 1 \in 0..C /\ (k + 1) - 1 = k /\ k + 1 # 0
    BY <1>1, <2>1
  <2>3. Stable(k) /\ \A n \in Nodes \cup {Null} : x[k][n] \in Seq(Nodes)
    BY <1>8, <2>2
  <2>4. ASSUME NEW n \in Nodes, NEW g \in (k + 1)..C, age[n] <= k + 1
        PROVE  x[g][n] = x[k + 1][n]
    <3>1. g \in 0..C /\ g # 0 /\ g - 1 \in k..C /\ g - 1 \in 0..C
      BY <1>1, <2>2
    <3>2. ASSUME NEW m \in {b[n].l, b[n].r} PROVE x[g - 1][m] = x[k][m]
      <4>1. CASE m = Null
        BY <4>1, <3>1, <2>2, <1>6
      <4>2. CASE m \in Nodes
        <5>1. age[m] < age[n] /\ age[m] \in Nat /\ age[n] \in Nat
          BY <4>2, <1>3
        <5>2. age[m] <= k
          BY <5>1, <2>4
        <5> QED BY <5>2, <4>2, <3>1, <2>3
      <4> QED BY <4>1, <4>2, <1>4
    <3>3. n \in Nodes \cup {Null} /\ n # Null
      BY <1>1
    <3>4. x[g][n] = x[g - 1][b[n].l] \o x[g - 1][b[n].r] \o <<n>>
      BY <3>1, <3>3, <1>5
    <3>5. x[k + 1][n] = x[k][b[n].l] \o x[k][b[n].r] \o <<n>>
      BY <2>2, <3>3, <1>5
    <3>6. x[g - 1][b[n].l] = x[k][b[n].l] /\ x[g - 1][b[n].r] = x[k][b[n].r]
      BY <3>2
    <3> QED BY <3>4, <3>5, <3>6
  <2>5. ASSUME NEW n \in Nodes \cup {Null} PROVE x[k + 1][n] \in Seq(Nodes)
    <3>1. CASE n = Null
      <4>1. <<>> \in Seq(Nodes)
        OBVIOUS
      <4> QED BY <3>1, <4>1, <2>2, <1>6
    <3>2. CASE n \in Nodes
      <4>1. x[k + 1][n] = x[k][b[n].l] \o x[k][b[n].r] \o <<n>>
        BY <2>2, <3>2, <1>1, <1>5
      <4>2. x[k][b[n].l] \in Seq(Nodes) /\ x[k][b[n].r] \in Seq(Nodes)
        BY <2>3, <3>2, <1>4
      <4>3. x[k][b[n].l] \o x[k][b[n].r] \o <<n>> \in Seq(Nodes)
        BY <4>2, <3>2, ConcatenatedType
      <4> QED BY <4>1, <4>3
    <3> QED BY <3>1, <3>2
  <2> QED BY <2>4, <2>5
<1>9. Nat \subseteq N
  <2> HIDE DEF N
  <2> QED BY <1>7, <1>8, NatSetInduction
<1>10. \A h \in 0..C : Stable(h) /\ \A n \in Nodes \cup {Null} : x[h][n] \in Seq(Nodes)
  <2>1. \A h \in 0..C : h \in N /\ h <= C
    BY <1>9, <1>1
  <2> HIDE DEF Stable
  <2> QED BY <2>1
<1>11. C \in 0..C
  BY <1>1
<1>12. ASSUME NEW n \in Nodes
       PROVE  PostOrder(b, n) = PostOrder(b, b[n].l) \o PostOrder(b, b[n].r) \o <<n>>
  <2>1. age[n] \in 1..C
    BY <1>3
  <2>2. C # 0 /\ C - 1 \in 0..C /\ C \in (C - 1)..C
    BY <1>1, <2>1
  <2>3. ASSUME NEW m \in {b[n].l, b[n].r} PROVE x[C - 1][m] = x[C][m]
    <3>1. CASE m = Null
      BY <3>1, <2>2, <1>6, <1>11
    <3>2. CASE m \in Nodes
      <4>1. age[m] < age[n] /\ age[m] \in 1..C
        BY <3>2, <1>3
      <4>2. age[m] <= C - 1
        BY <4>1, <2>1, <1>1
      <4>3. Stable(C - 1)
        <5> HIDE DEF Stable
        <5> QED BY <2>2, <1>10
      <4> QED BY <4>2, <4>3, <2>2, <3>2
    <3> QED BY <3>1, <3>2, <1>4
  <2>4. n \in Nodes \cup {Null} /\ n # Null
    BY <1>1
  <2>5. x[C][n] = x[C - 1][b[n].l] \o x[C - 1][b[n].r] \o <<n>>
    BY <2>2, <2>4, <1>5, <1>11
  <2>6. x[C - 1][b[n].l] = x[C][b[n].l] /\ x[C - 1][b[n].r] = x[C][b[n].r]
    BY <2>3
  <2> QED BY <2>5, <2>6, <1>2
<1> QED BY <1>2, <1>6, <1>10, <1>11, <1>12

-----------------------------------------------------------------------------
\* The order of the nodes from n down, also for the node above the root.
Order(b, n) == IF n = Dummy THEN PostOrder(b, Root) \o <<Dummy>> ELSE PostOrder(b, n)

Size(b, n) == Len(Order(b, n))

LEMMA OrderStep ==
  ASSUME NEW b, Tree(b)
  PROVE  /\ Order(b, Null) = <<>>
         /\ \A n \in Held : /\ Order(b, n) \in Seq(Held) /\ Order(b, b[n].l) \in Seq(Held)
                            /\ Order(b, b[n].r) \in Seq(Held)
                            /\ Order(b, n) = Order(b, b[n].l) \o Order(b, b[n].r) \o <<n>>
<1>1. Order(b, Null) = <<>> /\ Null # Dummy /\ Root # Dummy
  BY PostOrderStep, NodesAssumption DEF Order
<1>2. \A n \in Nodes : Order(b, n) = PostOrder(b, n) /\ n # Dummy
  BY NodesAssumption DEF Order
<1>3. Seq(Nodes) \subseteq Seq(Held)
  BY DEF Held
<1>4. \A n \in Nodes \cup {Null} : Order(b, n) \in Seq(Held)
  <2>1. <<>> \in Seq(Held)
    OBVIOUS
  <2> QED BY <1>1, <1>2, <1>3, <2>1, PostOrderStep
<1>5. ASSUME NEW n \in Held PROVE b[n].l \in Nodes \cup {Null} /\ b[n].r \in Nodes \cup {Null}
  BY TreeLinks
<1>6. ASSUME NEW n \in Held PROVE Order(b, n) = Order(b, b[n].l) \o Order(b, b[n].r) \o <<n>>
  <2>1. CASE n \in Nodes
    <3>1. \A m \in Nodes \cup {Null} : Order(b, m) = PostOrder(b, m)
      BY <1>1, <1>2 DEF Order
    <3>2. Order(b, n) = PostOrder(b, n) /\ Order(b, b[n].l) = PostOrder(b, b[n].l)
          /\ Order(b, b[n].r) = PostOrder(b, b[n].r)
      BY <1>5, <2>1, <3>1
    <3> QED BY <3>2, <2>1, PostOrderStep
  <2>2. CASE n = Dummy
    <3>1. Order(b, Root) = PostOrder(b, Root) /\ Order(b, Root) \in Seq(Held)
      BY <1>2, <1>4, NodesAssumption
    <3>2. b[n].l = Root /\ b[n].r = Null
      BY <2>2, TreeLinks
    <3>3. Order(b, Root) \o <<>> = Order(b, Root)
      BY <3>1
    <3>4. Order(b, n) = PostOrder(b, Root) \o <<n>>
      BY <2>2 DEF Order
    <3> QED BY <1>1, <3>1, <3>2, <3>3, <3>4
  <2> QED BY <2>1, <2>2 DEF Held
<1>7. ASSUME NEW n \in Held PROVE Order(b, n) \in Seq(Held)
  <2>1. Order(b, b[n].l) \in Seq(Held) /\ Order(b, b[n].r) \in Seq(Held)
    BY <1>4, <1>5
  <2> QED BY <2>1, <1>6, ConcatenatedType, Zenon
<1> QED BY <1>1, <1>4, <1>5, <1>6, <1>7

-----------------------------------------------------------------------------
\* The parts of the order of a node.
OrderParts(b, n) ==
  /\ Size(b, n) \in Nat /\ Size(b, b[n].l) \in Nat /\ Size(b, b[n].r) \in Nat
  /\ Size(b, n) = Size(b, b[n].l) + Size(b, b[n].r) + 1
  /\ \A i \in 1..Size(b, n) : Order(b, n)[i] \in Held
  /\ \A i \in 1..Size(b, b[n].l) : Order(b, n)[i] = Order(b, b[n].l)[i]
  /\ \A i \in 1..Size(b, b[n].r) :
        Order(b, n)[Size(b, b[n].l) + i] = Order(b, b[n].r)[i]
  /\ Order(b, n)[Size(b, n)] = n

LEMMA PartsOfOrder ==
  ASSUME NEW b, Tree(b), NEW n \in Held
  PROVE  OrderParts(b, n)
<1> DEFINE u == Order(b, n)
           s == Order(b, b[n].l)
           t == Order(b, b[n].r)
<1>1. u \in Seq(Held) /\ s \in Seq(Held) /\ t \in Seq(Held) /\ u = s \o t \o <<n>>
  BY OrderStep
<1>2. \A i \in 1..Len(u) : u[i] \in Held
  <2> HIDE DEF u
  <2> QED BY <1>1
<1>3. /\ Len(s) \in Nat /\ Len(t) \in Nat
      /\ Len(u) = Len(s) + Len(t) + 1
      /\ \A i \in 1..Len(s) : u[i] = s[i]
      /\ \A i \in 1..Len(t) : u[Len(s) + i] = t[i]
      /\ u[Len(u)] = n
  <2> HIDE DEF u, s, t
  <2> QED BY <1>1, Concatenated
<1>4. Len(u) \in Nat
  BY <1>3
<1> QED BY <1>2, <1>3, <1>4 DEF OrderParts, Size

\* The order of each node of an order stands in it, right before the node.
Nested(b, n) ==
  \A i \in 1..Size(b, n) :
    /\ Size(b, Order(b, n)[i]) <= i
    /\ \A j \in 1..Size(b, Order(b, n)[i]) :
         Order(b, n)[i - Size(b, Order(b, n)[i]) + j] = Order(b, Order(b, n)[i])[j]

LEMMA OrdersNest ==
  ASSUME NEW b, Tree(b)
  PROVE  \A n \in Held : Nested(b, n)
<1> DEFINE N == {k \in Nat : \A n \in Held : Size(b, n) <= k => Nested(b, n)}
<1>1. \A n \in Held : OrderParts(b, n)
  BY PartsOfOrder
<1>2. \A n \in Held : /\ b[n].l \in Held \/ (b[n].l = Null /\ Size(b, b[n].l) = 0)
                      /\ b[n].r \in Held \/ (b[n].r = Null /\ Size(b, b[n].r) = 0)
  <2>1. Len(<<>>) = 0
    OBVIOUS
  <2> QED BY <2>1, TreeLinks, OrderStep DEF Held, Size
<1>3. 0 \in N
  BY <1>1 DEF Nested, OrderParts
<1>4. ASSUME NEW k \in Nat, k \in N PROVE k + 1 \in N
  <2>1. SUFFICES ASSUME NEW n \in Held, Size(b, n) <= k + 1, NEW i \in 1..Size(b, n)
                 PROVE  /\ Size(b, Order(b, n)[i]) <= i
                        /\ \A j \in 1..Size(b, Order(b, n)[i]) :
                             Order(b, n)[i - Size(b, Order(b, n)[i]) + j]
                               = Order(b, Order(b, n)[i])[j]
    BY DEF Nested
  <2> DEFINE m  == Order(b, n)[i]
             sl == Size(b, b[n].l)
             sr == Size(b, b[n].r)
  <2>2. OrderParts(b, n)
    BY <1>1
  <2>3. sl \in Nat /\ sr \in Nat /\ Size(b, n) = sl + sr + 1 /\ m \in Held
    BY <2>2 DEF OrderParts
  <2>4. Size(b, m) \in Nat
    BY <1>1, <2>3 DEF OrderParts
  <2>5. CASE i <= sl
    <3>1. b[n].l \in Held
      BY <1>2, <2>3, <2>5
    <3>2. Nested(b, b[n].l)
      BY <3>1, <1>4, <2>1, <2>3
    <3>3. i \in 1..sl /\ m = Order(b, b[n].l)[i]
      BY <2>2, <2>3, <2>5 DEF OrderParts
    <3>4. Size(b, m) <= i
      BY <3>2, <3>3 DEF Nested
    <3>5. ASSUME NEW j \in 1..Size(b, m) PROVE Order(b, n)[i - Size(b, m) + j] = Order(b, m)[j]
      <4>1. i - Size(b, m) + j \in 1..sl
        BY <2>3, <2>4, <3>3, <3>4
      <4>2. Order(b, n)[i - Size(b, m) + j] = Order(b, b[n].l)[i - Size(b, m) + j]
        <5> HIDE DEF m
        <5> QED BY <4>1, <2>2 DEF OrderParts
      <4>3. Order(b, b[n].l)[i - Size(b, m) + j] = Order(b, m)[j]
        BY <3>2, <3>3 DEF Nested
      <4> QED BY <4>2, <4>3
    <3> QED BY <3>4, <3>5
  <2>6. CASE i > sl /\ i <= sl + sr
    <3> DEFINE e == i - sl
    <3>1. b[n].r \in Held
      BY <1>2, <2>3, <2>6
    <3>2. Nested(b, b[n].r)
      BY <3>1, <1>4, <2>1, <2>3
    <3>3. e \in 1..sr /\ sl + e = i
      BY <2>3, <2>6
    <3>4. m = Order(b, b[n].r)[e]
      <4> HIDE DEF e
      <4> QED BY <2>2, <3>3 DEF OrderParts
    <3>5. Size(b, m) <= e
      <4> HIDE DEF m, e
      <4> QED BY <3>2, <3>3, <3>4 DEF Nested
    <3>6. ASSUME NEW j \in 1..Size(b, m) PROVE Order(b, n)[i - Size(b, m) + j] = Order(b, m)[j]
      <4> DEFINE g == e - Size(b, m) + j
      <4>1. g \in 1..sr /\ sl + g = i - Size(b, m) + j
        <5> HIDE DEF m
        <5> QED BY <2>3, <2>4, <3>3, <3>5
      <4>2. Order(b, n)[sl + g] = Order(b, b[n].r)[g]
        <5> HIDE DEF g
        <5> QED BY <4>1, <2>2 DEF OrderParts
      <4>3. Order(b, b[n].r)[g] = Order(b, m)[j]
        <5> HIDE DEF m, e
        <5> QED BY <3>2, <3>3, <3>4 DEF Nested
      <4> HIDE DEF g, m
      <4> QED BY <4>1, <4>2, <4>3
    <3> HIDE DEF m, e
    <3>7. Size(b, m) <= i
      BY <3>3, <3>5, <2>3, <2>4
    <3> QED BY <3>6, <3>7 DEF m
  <2>7. CASE i = Size(b, n)
    <3>1. m = n
      BY <2>2, <2>7 DEF OrderParts
    <3>2. \A j \in 1..Size(b, m) : i - Size(b, m) + j = j
      BY <2>7, <3>1, <2>4
    <3> HIDE DEF m
    <3>3. Size(b, m) <= i
      BY <2>3, <2>7, <3>1
    <3>4. \A j \in 1..Size(b, m) : Order(b, n)[i - Size(b, m) + j] = Order(b, m)[j]
      BY <3>1, <3>2
    <3> QED BY <3>3, <3>4 DEF m
  <2> HIDE DEF m, sl, sr
  <2> QED BY <2>3, <2>5, <2>6, <2>7 DEF m
<1>5. Nat \subseteq N
  <2> HIDE DEF N
  <2> QED BY <1>3, <1>4, NatSetInduction
<1>6. ASSUME NEW n \in Held PROVE Nested(b, n)
  <2>1. Size(b, n) \in Nat
    BY <1>1 DEF OrderParts
  <2>2. Size(b, n) \in N /\ Size(b, n) <= Size(b, n)
    BY <1>5, <2>1
  <2> QED BY <2>2
<1> QED BY <1>6

-----------------------------------------------------------------------------
(***************************************************************************)
(* The places of the nodes of a tree.                                      *)
(***************************************************************************)
Top(b)         == Size(b, Dummy)
Places(b)      == 1..Top(b)
At(b, p)       == Order(b, Dummy)[p]
HasRight(b, p) == b[At(b, p)].r # Null
Left(b, p)     == IF b[At(b, p)].l = Null THEN 0 ELSE p - 1 - Size(b, b[At(b, p)].r)
Start(b, p)    == p - Size(b, At(b, p))  \* the last place before the subtree of p

\* A left subtree, a right subtree and their node stand side by side.
Laid(b, p) ==
  /\ At(b, p) \in Held
  /\ Start(b, p) \in Nat /\ Start(b, p) < p
  /\ Left(b, p) \in Nat /\ Left(b, p) < p
  /\ Left(b, p) = 0 => b[At(b, p)].l = Null
  /\ Left(b, p) # 0 => /\ b[At(b, p)].l = At(b, Left(b, p)) /\ b[At(b, p)].l # Null
                       /\ Start(b, Left(b, p)) = Start(b, p)
  /\ HasRight(b, p) => p > 1 /\ b[At(b, p)].r = At(b, p - 1)
  /\ Left(b, p) # 0 /\ HasRight(b, p) => Start(b, p - 1) = Left(b, p)
  /\ Left(b, p) # 0 /\ ~HasRight(b, p) => Left(b, p) = p - 1
  /\ Left(b, p) = 0 /\ HasRight(b, p) => Start(b, p - 1) = Start(b, p)
  /\ Left(b, p) = 0 /\ ~HasRight(b, p) => Start(b, p) = p - 1

LEMMA PlacesLaid ==
  ASSUME NEW b, Tree(b), NEW p \in Places(b)
  PROVE  Laid(b, p)
<1> DEFINE n  == At(b, p)
           sl == Size(b, b[n].l)
           sr == Size(b, b[n].r)
<1>1. Dummy \in Held /\ Null \notin Held /\ OrderParts(b, Dummy) /\ Nested(b, Dummy)
  BY PartsOfOrder, OrdersNest, NodesAssumption DEF Held
<1>2. n \in Held /\ Top(b) \in Nat
  BY <1>1 DEF OrderParts, Places, Top, At
<1>3. OrderParts(b, n)
  BY <1>2, PartsOfOrder
<1>4. sl \in Nat /\ sr \in Nat /\ Size(b, n) = sl + sr + 1
  BY <1>3 DEF OrderParts
<1>5. p \in 1..Size(b, Dummy) /\ p \in Nat
  BY <1>2 DEF Places, Top
<1>6. /\ Size(b, n) <= p
      /\ \A j \in 1..Size(b, n) : At(b, p - Size(b, n) + j) = Order(b, n)[j]
  BY <1>1, <1>5 DEF Nested, At
<1>7. Start(b, p) = p - (sl + sr + 1)
  BY <1>4 DEF Start
<1>8. b[n].l \in Held \cup {Null} /\ b[n].r \in Held \cup {Null}
  BY <1>2, TreeLinks DEF Held
<1>9. Size(b, Null) = 0
  <2>1. Len(<<>>) = 0
    OBVIOUS
  <2> QED BY <2>1, OrderStep DEF Size
<1>10. ASSUME NEW m \in Held PROVE Size(b, m) \in Nat /\ Size(b, m) >= 1 /\ Order(b, m)[Size(b, m)] = m
  BY PartsOfOrder DEF OrderParts
<1> HIDE DEF n
<1>11. ASSUME b[n].r # Null
       PROVE  sr >= 1 /\ b[n].r = At(b, p - 1) /\ p > 1 /\ Start(b, p - 1) = p - 1 - sr
  <2>1. sr >= 1 /\ Order(b, b[n].r)[sr] = b[n].r
    BY <1>8, <1>10, <1>11
  <2>2. Order(b, n)[sl + sr] = b[n].r
    BY <2>1, <1>3, <1>4 DEF OrderParts
  <2>3. sl + sr \in 1..Size(b, n) /\ p - Size(b, n) + (sl + sr) = p - 1
    BY <2>1, <1>4, <1>5
  <2>4. At(b, p - 1) = b[n].r
    BY <2>2, <2>3, <1>6
  <2> QED BY <2>1, <2>4, <1>4, <1>5, <1>6 DEF Start
<1>12. ASSUME b[n].l # Null
       PROVE  /\ sl >= 1 /\ b[n].l = At(b, p - 1 - sr) /\ p - 1 - sr \in 1..(p - 1)
              /\ Start(b, p - 1 - sr) = p - (sl + sr + 1)
  <2>1. sl >= 1 /\ Order(b, b[n].l)[sl] = b[n].l
    BY <1>8, <1>10, <1>12
  <2>2. Order(b, n)[sl] = b[n].l
    BY <2>1, <1>3, <1>4 DEF OrderParts
  <2>3. sl \in 1..Size(b, n) /\ p - Size(b, n) + sl = p - 1 - sr
    BY <2>1, <1>4, <1>5
  <2>4. At(b, p - 1 - sr) = b[n].l
    BY <2>2, <2>3, <1>6
  <2>5. p - 1 - sr \in 1..(p - 1)
    BY <2>1, <1>4, <1>5, <1>6
  <2>6. Start(b, p - 1 - sr) = p - 1 - sr - sl
    BY <2>4 DEF Start
  <2> QED BY <2>1, <2>4, <2>5, <2>6, <1>4, <1>5
<1>13. b[n].r = Null => sr = 0
  BY <1>9
<1>14. b[n].l = Null => sl = 0
  BY <1>9
<1>15. /\ HasRight(b, p) <=> b[n].r # Null
       /\ Left(b, p) = IF b[n].l = Null THEN 0 ELSE p - 1 - sr
       /\ b[At(b, p)] = b[n] /\ At(b, p) = n
  BY DEF HasRight, Left, n
<1> HIDE DEF sl, sr
<1> QED BY <1>2, <1>4, <1>5, <1>6, <1>7, <1>11, <1>12, <1>13, <1>14, <1>15 DEF Laid

LEMMA TopLaid ==
  ASSUME NEW b, Tree(b)
  PROVE  /\ Top(b) \in Nat /\ Top(b) \in Places(b) /\ At(b, Top(b)) = Dummy
         /\ Left(b, Top(b)) = Top(b) - 1 /\ Left(b, Top(b)) # 0
         /\ ~HasRight(b, Top(b)) /\ Start(b, Top(b)) = 0
<1>1. OrderParts(b, Dummy) /\ Root # Null
  BY PartsOfOrder, NodesAssumption DEF Held
<1>2. Top(b) \in Nat /\ Top(b) \in Places(b) /\ At(b, Top(b)) = Dummy
  BY <1>1 DEF OrderParts, Top, Places, At
<1>3. b[At(b, Top(b))].l = Root /\ b[At(b, Top(b))].r = Null
  BY <1>2, TreeLinks
<1>4. ~HasRight(b, Top(b))
  BY <1>3 DEF HasRight
<1>5. Laid(b, Top(b))
  BY <1>2, PlacesLaid
<1>6. Left(b, Top(b)) # 0
  BY <1>1, <1>3, <1>5 DEF Laid
<1>7. Start(b, Top(b)) = 0
  BY <1>2 DEF Start, Top
<1> QED BY <1>2, <1>4, <1>5, <1>6, <1>7 DEF Laid

\* The subtrees below a place lie inside its own.
LEMMA SubtreesNest ==
  ASSUME NEW b, Tree(b)
  PROVE  \A p \in Places(b) : \A j \in (Start(b, p) + 1)..p :
           /\ j \in Places(b) /\ Start(b, p) <= Start(b, j)
           /\ j # p => \E q \in (j + 1)..p : Left(b, q) = j \/ (HasRight(b, q) /\ q - 1 = j)
<1> DEFINE Claim(p) == \A j \in (Start(b, p) + 1)..p :
             /\ j \in Places(b) /\ Start(b, p) <= Start(b, j)
             /\ j # p => \E q \in (j + 1)..p : Left(b, q) = j \/ (HasRight(b, q) /\ q - 1 = j)
           N == {k \in Nat : \A p \in Places(b) : p <= k => Claim(p)}
<1>1. Top(b) \in Nat
  BY TopLaid
<1>2. 0 \in N
  BY <1>1 DEF Places
<1>3. ASSUME NEW k \in Nat, k \in N PROVE k + 1 \in N
  <2>1. SUFFICES ASSUME NEW p \in Places(b), p <= k + 1, NEW j \in (Start(b, p) + 1)..p
                 PROVE  /\ j \in Places(b) /\ Start(b, p) <= Start(b, j)
                        /\ j # p => \E q \in (j + 1)..p :
                                     Left(b, q) = j \/ (HasRight(b, q) /\ q - 1 = j)
    OBVIOUS
  <2>2. Laid(b, p) /\ p \in Nat /\ p \in 1..Top(b)
    BY <1>1, PlacesLaid DEF Places
  <2>3. Start(b, p) \in Nat /\ Left(b, p) \in Nat /\ j \in Nat /\ j \in Places(b)
    BY <1>1, <2>2 DEF Laid, Places
  <2>4. CASE j = p
    BY <2>2, <2>3, <2>4
  <2>5. CASE j # p /\ Left(b, p) # 0 /\ j <= Left(b, p)
    <3> DEFINE c == Left(b, p)
    <3>1. c \in Places(b) /\ c <= k /\ Start(b, c) = Start(b, p) /\ c < p
      BY <1>1, <2>1, <2>2, <2>3, <2>5 DEF Laid, Places
    <3>2. Claim(c) /\ j \in (Start(b, c) + 1)..c
      BY <3>1, <1>3, <2>3, <2>5
    <3>3. CASE j = c
      <4>1. p \in (j + 1)..p /\ Left(b, p) = j
        BY <3>1, <3>3, <2>2, <2>3
      <4>2. Start(b, p) <= Start(b, j)
        BY <3>1, <3>3, <2>3
      <4> QED BY <4>1, <4>2, <2>3
    <3>4. CASE j # c
      <4>1. PICK q \in (j + 1)..c : Left(b, q) = j \/ (HasRight(b, q) /\ q - 1 = j)
        BY <3>2, <3>4
      <4>2. q \in (j + 1)..p
        BY <3>1, <2>2, <2>3
      <4>3. Start(b, p) <= Start(b, j)
        <5>1. Start(b, c) <= Start(b, j)
          BY <3>2
        <5> QED BY <3>1, <5>1
      <4> QED BY <4>1, <4>2, <4>3, <2>3
    <3> QED BY <3>3, <3>4
  <2>6. CASE j # p /\ ~(Left(b, p) # 0 /\ j <= Left(b, p))
    <3> DEFINE c == p - 1
    <3>1. HasRight(b, p)
      BY <2>2, <2>3, <2>6 DEF Laid
    <3>2. c \in Places(b) /\ c <= k /\ c \in Nat /\ p = c + 1 /\ Start(b, p) <= Start(b, c)
          /\ j \in (Start(b, c) + 1)..c
      <4>1. c \in Places(b) /\ c <= k /\ c \in Nat /\ p = c + 1 /\ j <= c
        BY <1>1, <2>1, <2>2, <2>3, <2>6, <3>1 DEF Laid, Places
      <4>2. CASE Left(b, p) = 0
        BY <4>1, <4>2, <2>2, <2>3, <3>1 DEF Laid
      <4>3. CASE Left(b, p) # 0
        <5>1. Left(b, p) \in Places(b) /\ Left(b, p) < j
          BY <4>3, <1>1, <2>2, <2>3, <2>6 DEF Laid, Places
        <5>2. Laid(b, Left(b, p))
          BY <5>1, PlacesLaid
        <5>3. Start(b, p) < Left(b, p) /\ Start(b, c) = Left(b, p)
          BY <4>3, <5>2, <2>2, <3>1 DEF Laid
        <5> QED BY <4>1, <5>1, <5>3, <2>3
      <4> QED BY <4>1, <4>2, <4>3
    <3>3. Claim(c)
      BY <3>2, <1>3
    <3>4. CASE j = c
      <4>1. p \in (j + 1)..p /\ HasRight(b, p) /\ p - 1 = j
        BY <3>1, <3>2, <3>4, <2>2
      <4>2. Start(b, p) <= Start(b, j)
        BY <3>2, <3>4
      <4> QED BY <4>1, <4>2, <2>3
    <3>5. CASE j # c
      <4>1. PICK q \in (j + 1)..c : Left(b, q) = j \/ (HasRight(b, q) /\ q - 1 = j)
        BY <3>2, <3>3, <3>5
      <4>2. q \in (j + 1)..p
        BY <3>2, <2>2, <2>3
      <4>3. Start(b, p) <= Start(b, j)
        <5>1. Start(b, c) <= Start(b, j)
          BY <3>2, <3>3
        <5>2. Start(b, c) \in Nat /\ Start(b, j) \in Nat
          BY <3>2, <2>3, PlacesLaid DEF Laid
        <5> HIDE DEF c, Claim, N
        <5> QED BY <3>2, <5>1, <5>2, <2>3
      <4> QED BY <4>1, <4>2, <4>3, <2>3
    <3> QED BY <3>4, <3>5
  <2> QED BY <2>4, <2>5, <2>6
<1>4. Nat \subseteq N
  <2> HIDE DEF N
  <2> QED BY <1>2, <1>3, NatSetInduction
<1>5. ASSUME NEW p \in Places(b) PROVE Claim(p)
  <2>1. p \in Nat
    BY <1>1 DEF Places
  <2>2. p \in N /\ p <= p
    BY <1>4, <2>1
  <2> HIDE DEF Claim
  <2> QED BY <2>2
<1> QED BY <1>5

LEMMA Parents ==
  ASSUME NEW b, Tree(b), NEW j \in Places(b), j # Top(b)
  PROVE  \E q \in Places(b) : j < q /\ (Left(b, q) = j \/ (HasRight(b, q) /\ q - 1 = j))
<1>1. Top(b) \in Nat /\ Top(b) \in Places(b) /\ Start(b, Top(b)) = 0
  BY TopLaid
<1>2. j \in (Start(b, Top(b)) + 1)..Top(b)
  BY <1>1 DEF Places
<1>3. PICK q \in (j + 1)..Top(b) : Left(b, q) = j \/ (HasRight(b, q) /\ q - 1 = j)
  BY <1>1, <1>2, SubtreesNest
<1> QED BY <1>1, <1>2, <1>3 DEF Places

\* Two links to one node are the same link.
LEMMA OneLink ==
  ASSUME NEW b, Tree(b), NEW m \in Held, NEW n \in Held
  PROVE  /\ b[m].l = b[n].l /\ b[m].l # Null => m = n
         /\ b[m].r = b[n].r /\ b[m].r # Null => m = n
         /\ ~(b[m].l = b[n].r /\ b[m].l # Null)
<1>1. DOMAIN b = Held
  BY TreeLinks
<1>2. \A x, y \in {"l", "r"} : b[m][x] = b[n][y] /\ b[m][x] # Null => m = n /\ x = y
  BY <1>1 DEF Tree, Unshared
<1> QED BY <1>2

\* No node has two places.
LEMMA OnePlace ==
  ASSUME NEW b, Tree(b)
  PROVE  \A i, j \in Places(b) : At(b, i) = At(b, j) => i = j
<1> DEFINE N == {k \in Nat : \A i, j \in Places(b) :
                   Top(b) - i <= k /\ i <= j /\ At(b, i) = At(b, j) => i = j}
<1>1. Top(b) \in Nat /\ Top(b) \in Places(b) /\ At(b, Top(b)) = Dummy /\ Places(b) \subseteq Nat
  BY TopLaid DEF Places
<1>2. 0 \in N
  BY <1>1 DEF Places
<1>3. ASSUME NEW k \in Nat, k \in N PROVE k + 1 \in N
  <2>1. SUFFICES ASSUME NEW i \in Places(b), NEW j \in Places(b), Top(b) - i <= k + 1, i < j,
                        At(b, i) = At(b, j)
                 PROVE  FALSE
    BY <1>1
  <2>2. i # Top(b)
    BY <1>1, <2>1 DEF Places
  <2>3. PICK q \in Places(b) : i < q /\ (Left(b, q) = i \/ (HasRight(b, q) /\ q - 1 = i))
    BY <2>2, Parents
  <2>4. Laid(b, q) /\ At(b, q) \in Held /\ i # 0
    BY <1>1, PlacesLaid DEF Laid, Places
  <2>5. \/ b[At(b, q)].l = At(b, i) /\ b[At(b, q)].l # Null /\ Left(b, q) = i
        \/ b[At(b, q)].r = At(b, i) /\ b[At(b, q)].r # Null /\ HasRight(b, q) /\ q - 1 = i
    BY <2>3, <2>4 DEF Laid, HasRight
  <2>6. j # Top(b)
    <3>1. At(b, i) \in Nodes \cup {Null}
      BY <2>4, <2>5, TreeLinks
    <3> QED BY <3>1, <1>1, <2>1, NodesAssumption
  <2>7. PICK r \in Places(b) : j < r /\ (Left(b, r) = j \/ (HasRight(b, r) /\ r - 1 = j))
    BY <2>6, Parents
  <2>8. Laid(b, r) /\ At(b, r) \in Held /\ j # 0
    BY <1>1, PlacesLaid DEF Laid, Places
  <2>9. \/ b[At(b, r)].l = At(b, j) /\ b[At(b, r)].l # Null /\ Left(b, r) = j
        \/ b[At(b, r)].r = At(b, j) /\ b[At(b, r)].r # Null /\ HasRight(b, r) /\ r - 1 = j
    BY <2>7, <2>8 DEF Laid, HasRight
  <2>10. At(b, q) = At(b, r)
    BY <2>1, <2>4, <2>5, <2>8, <2>9, OneLink
  <2>11. q = r
    <3>1. Top(b) - q <= k /\ Top(b) - r <= k /\ (q <= r \/ r <= q)
      BY <1>1, <2>1, <2>3, <2>7
    <3> QED BY <3>1, <1>3, <2>10
  <2>12. i = j
    <3>1. CASE Left(b, q) = i /\ b[At(b, q)].l = At(b, i) /\ b[At(b, q)].l # Null
      BY <3>1, <2>1, <2>4, <2>5, <2>9, <2>11, OneLink
    <3>2. CASE HasRight(b, q) /\ q - 1 = i /\ b[At(b, q)].r = At(b, i) /\ b[At(b, q)].r # Null
      BY <3>2, <2>1, <2>4, <2>5, <2>9, <2>11, OneLink
    <3> QED BY <3>1, <3>2, <2>5
  <2> QED BY <2>12, <2>1, <1>1
<1>4. Nat \subseteq N
  <2> HIDE DEF N
  <2> QED BY <1>2, <1>3, NatSetInduction
<1>5. ASSUME NEW i \in Places(b), NEW j \in Places(b), At(b, i) = At(b, j) PROVE i = j
  <2>1. Top(b) - i \in Nat /\ Top(b) - j \in Nat /\ (i <= j \/ j <= i)
    BY <1>1 DEF Places
  <2>2. Top(b) - i \in N /\ Top(b) - j \in N
    BY <1>4, <2>1
  <2>3. CASE i <= j
    BY <2>1, <2>2, <2>3, <1>5
  <2>4. CASE j <= i
    BY <2>1, <2>2, <2>4, <1>5
  <2> QED BY <2>1, <2>3, <2>4
<1> QED BY <1>5

\* No place is a child twice.
LEMMA OneParent ==
  ASSUME NEW b, Tree(b), NEW x \in Places(b), NEW y \in Places(b), Left(b, x) # 0
  PROVE  /\ Left(b, x) = Left(b, y) => x = y
         /\ ~(HasRight(b, y) /\ Left(b, x) = y - 1)
<1>1. Laid(b, x) /\ Laid(b, y) /\ At(b, x) \in Held /\ At(b, y) \in Held
  BY PlacesLaid DEF Laid
<1>2. b[At(b, x)].l = At(b, Left(b, x)) /\ b[At(b, x)].l # Null
  BY <1>1 DEF Laid
<1>3. Left(b, x) = Left(b, y) => x = y
  BY <1>1, <1>2, OneLink, OnePlace DEF Laid
<1>4. ~(HasRight(b, y) /\ Left(b, x) = y - 1)
  BY <1>1, <1>2, OneLink DEF Laid
<1> QED BY <1>3, <1>4

-----------------------------------------------------------------------------
(***************************************************************************)
(* Chains of right links, their bottoms and the threads.                   *)
(***************************************************************************)
\* q is the bottom of the chain that hangs from p
IsBottom(b, p, q) ==
  q \in 1..p /\ ~HasRight(b, q) /\ \A j \in (q + 1)..p : HasRight(b, j)

Bottom(b, p) == CHOOSE q \in 1..p : IsBottom(b, p, q)

\* the place of the predecessor of x, where the thread to x is written
Thread(b, x) == Bottom(b, Left(b, x))

\* the places whose left subtree holds c
Open(b, c) == {x \in Places(b) : Left(b, x) # 0 /\ Start(b, x) < c /\ c <= Left(b, x)}

LEMMA BottomOf ==
  ASSUME NEW b, Tree(b), NEW p \in Places(b)
  PROVE  IsBottom(b, p, Bottom(b, p)) /\ \A q : IsBottom(b, p, q) => q = Bottom(b, p)
<1> DEFINE N == {k \in Nat : \A c \in Places(b) : c <= k => \E q : IsBottom(b, c, q)}
<1>1. Top(b) \in Nat
  BY TopLaid
<1>2. 0 \in N
  BY <1>1 DEF Places
<1>3. ASSUME NEW k \in Nat, k \in N PROVE k + 1 \in N
  <2>1. SUFFICES ASSUME NEW c \in Places(b), c <= k + 1 PROVE \E q : IsBottom(b, c, q)
    OBVIOUS
  <2>2. CASE HasRight(b, c)
    <3>1. c > 1
      BY <2>2, PlacesLaid DEF Laid
    <3>2. c - 1 \in Places(b) /\ c - 1 <= k /\ c \in Nat
      BY <1>1, <2>1, <3>1 DEF Places
    <3>3. PICK q : IsBottom(b, c - 1, q)
      BY <3>2, <1>3
    <3>4. IsBottom(b, c, q)
      BY <3>2, <3>3, <2>2 DEF IsBottom
    <3> QED BY <3>4
  <2>3. CASE ~HasRight(b, c)
    <3>1. IsBottom(b, c, c)
      BY <1>1, <2>3 DEF IsBottom, Places
    <3> QED BY <3>1
  <2> QED BY <2>2, <2>3
<1>4. Nat \subseteq N
  <2> HIDE DEF N
  <2> QED BY <1>2, <1>3, NatSetInduction
<1>5. p \in Nat /\ p \in N /\ p <= p
  BY <1>1, <1>4 DEF Places
<1>6. PICK q : IsBottom(b, p, q)
  BY <1>5
<1>7. q \in 1..p
  BY <1>6 DEF IsBottom
<1>8. IsBottom(b, p, Bottom(b, p))
  BY <1>6, <1>7 DEF Bottom
<1>9. ASSUME NEW r, NEW t, IsBottom(b, p, r), IsBottom(b, p, t) PROVE r = t
  <2>1. r \in Nat /\ t \in Nat /\ r <= p /\ t <= p /\ ~HasRight(b, r) /\ ~HasRight(b, t)
    BY <1>5, <1>9 DEF IsBottom
  <2>2. ~(r < t)
    <3>1. SUFFICES ASSUME r < t PROVE FALSE
      OBVIOUS
    <3>2. t \in (r + 1)..p
      BY <2>1, <3>1, <1>5
    <3> QED BY <3>2, <2>1, <1>9 DEF IsBottom
  <2>3. ~(t < r)
    <3>1. SUFFICES ASSUME t < r PROVE FALSE
      OBVIOUS
    <3>2. r \in (t + 1)..p
      BY <2>1, <3>1, <1>5
    <3> QED BY <3>2, <2>1, <1>9 DEF IsBottom
  <2> QED BY <2>1, <2>2, <2>3
<1> QED BY <1>8, <1>9

LEMMA ThreadOf ==
  ASSUME NEW b, Tree(b), NEW x \in Places(b), Left(b, x) # 0
  PROVE  /\ Left(b, x) \in Places(b) /\ Thread(b, x) \in Places(b)
         /\ Thread(b, x) <= Left(b, x) /\ IsBottom(b, Left(b, x), Thread(b, x))
<1>1. Top(b) \in Nat /\ Laid(b, x) /\ x \in 1..Top(b)
  BY TopLaid, PlacesLaid DEF Places
<1>2. Left(b, x) \in Places(b)
  BY <1>1 DEF Laid, Places
<1>3. IsBottom(b, Left(b, x), Thread(b, x))
  BY <1>2, BottomOf DEF Thread
<1> QED BY <1>1, <1>2, <1>3 DEF IsBottom, Places

\* Two threads are not written at one node.
LEMMA ThreadsApart ==
  ASSUME NEW b, Tree(b), NEW x \in Places(b), NEW y \in Places(b),
         Left(b, x) # 0, Left(b, y) # 0, Thread(b, x) = Thread(b, y)
  PROVE  x = y
<1>1. Top(b) \in Nat /\ Left(b, x) \in Places(b) /\ Left(b, y) \in Places(b)
  BY TopLaid, ThreadOf
<1>2. ASSUME NEW v \in Places(b), NEW w \in Places(b), Left(b, v) # 0, Left(b, w) # 0,
             Thread(b, v) = Thread(b, w), Left(b, v) < Left(b, w)
      PROVE  FALSE
  <2>1. /\ Left(b, v) \in Places(b) /\ Left(b, w) \in Places(b) /\ Thread(b, w) \in Places(b)
        /\ Thread(b, w) <= Left(b, v) /\ IsBottom(b, Left(b, w), Thread(b, w))
    BY <1>2, ThreadOf
  <2> DEFINE c == Left(b, v) + 1
  <2>2. c \in (Thread(b, w) + 1)..Left(b, w) /\ c \in Places(b) /\ c - 1 = Left(b, v)
    BY <1>1, <1>2, <2>1 DEF Places
  <2>3. HasRight(b, c)
    BY <2>1, <2>2 DEF IsBottom
  <2> QED BY <1>2, <2>2, <2>3, OneParent
<1>3. ~(Left(b, x) < Left(b, y)) /\ ~(Left(b, y) < Left(b, x))
  BY <1>2
<1>4. Left(b, x) = Left(b, y)
  BY <1>1, <1>3 DEF Places
<1> QED BY <1>4, OneParent

\* A node without a right link is where some thread is written, but for Dummy.
LEMMA ThreadAt ==
  ASSUME NEW b, Tree(b), NEW c \in Places(b), c # Top(b), ~HasRight(b, c)
  PROVE  \E x \in Places(b) : Left(b, x) # 0 /\ Thread(b, x) = c
<1> DEFINE Chain(i, p) == p \in i..Top(b) /\ p # Top(b) /\ ~HasRight(b, p + 1)
                           /\ \A j \in (i + 1)..p : HasRight(b, j)
           N == {k \in Nat : \A i \in Places(b) :
                   i # Top(b) /\ Top(b) - i <= k => \E p : Chain(i, p)}
<1>1. Top(b) \in Nat /\ ~HasRight(b, Top(b))
  BY TopLaid
<1>2. 0 \in N
  BY <1>1 DEF Places
<1>3. ASSUME NEW k \in Nat, k \in N PROVE k + 1 \in N
  <2>1. SUFFICES ASSUME NEW i \in Places(b), i # Top(b), Top(b) - i <= k + 1
                 PROVE  \E p : Chain(i, p)
    OBVIOUS
  <2>2. i \in Nat /\ i + 1 \in Places(b) /\ Top(b) - (i + 1) <= k
    BY <1>1, <2>1 DEF Places
  <2>3. CASE HasRight(b, i + 1)
    <3>1. PICK p : Chain(i + 1, p)
      BY <1>1, <1>3, <2>2, <2>3
    <3>2. Chain(i, p)
      BY <2>2, <2>3, <3>1, <1>1
    <3> QED BY <3>2
  <2>4. CASE ~HasRight(b, i + 1)
    <3>1. Chain(i, i)
      BY <1>1, <2>1, <2>2, <2>4 DEF Places
    <3> QED BY <3>1
  <2> QED BY <2>3, <2>4
<1>4. Nat \subseteq N
  <2> HIDE DEF N
  <2> QED BY <1>2, <1>3, NatSetInduction
<1>5. c \in Nat /\ Top(b) - c \in N /\ Top(b) - c <= Top(b) - c
  BY <1>1, <1>4 DEF Places
<1>6. PICK p : Chain(c, p)
  BY <1>5
<1>7. p \in Places(b) /\ p # Top(b) /\ p \in Nat
  BY <1>1, <1>5, <1>6 DEF Places
<1>8. PICK x \in Places(b) : p < x /\ (Left(b, x) = p \/ (HasRight(b, x) /\ x - 1 = p))
  BY <1>7, Parents
<1>9. Left(b, x) = p
  <2>1. ~(HasRight(b, x) /\ x - 1 = p)
    <3>1. SUFFICES ASSUME HasRight(b, x), x - 1 = p PROVE FALSE
      OBVIOUS
    <3>2. x = p + 1
      BY <1>1, <1>7, <3>1 DEF Places
    <3> QED BY <3>1, <3>2, <1>6
  <2> QED BY <2>1, <1>8
<1>10. IsBottom(b, p, c)
  BY <1>1, <1>5, <1>6 DEF IsBottom, Places
<1>11. Thread(b, x) = c
  BY <1>7, <1>9, <1>10, BottomOf DEF Thread
<1> QED BY <1>7, <1>9, <1>11 DEF Places

-----------------------------------------------------------------------------
LEMMA OpenTop ==
  ASSUME NEW b, Tree(b)
  PROVE  Open(b, Top(b)) = {}
<1>1. SUFFICES ASSUME NEW x \in Open(b, Top(b)) PROVE FALSE
  OBVIOUS
<1>2. x \in Places(b) /\ Top(b) <= Left(b, x) /\ Top(b) \in Nat
  BY TopLaid DEF Open
<1>3. Laid(b, x)
  BY <1>2, PlacesLaid
<1> QED BY <1>2, <1>3 DEF Laid, Places

LEMMA OpenRight ==
  ASSUME NEW b, Tree(b), NEW c \in Places(b), HasRight(b, c)
  PROVE  c - 1 \in Places(b) /\ Open(b, c - 1) = Open(b, c)
<1>1. Top(b) \in Nat /\ Laid(b, c) /\ c \in 1..Top(b)
  BY TopLaid, PlacesLaid DEF Places
<1>2. c - 1 \in Places(b) /\ c \in Nat
  BY <1>1 DEF Laid, Places
<1>3. ASSUME NEW x \in Open(b, c - 1) PROVE x \in Open(b, c)
  <2>1. x \in Places(b) /\ Left(b, x) # 0 /\ Start(b, x) < c - 1 /\ c - 1 <= Left(b, x)
    BY DEF Open
  <2>2. Left(b, x) # c - 1
    BY <2>1, OneParent
  <2>3. Start(b, x) \in Nat /\ Left(b, x) \in Nat
    BY <2>1, PlacesLaid DEF Laid
  <2> QED BY <1>2, <2>1, <2>2, <2>3 DEF Open
<1>4. ASSUME NEW x \in Open(b, c) PROVE x \in Open(b, c - 1)
  <2>1. x \in Places(b) /\ Left(b, x) # 0 /\ Start(b, x) < c /\ c <= Left(b, x)
    BY DEF Open
  <2>2. /\ Start(b, x) \in Nat /\ Left(b, x) \in Nat /\ Left(b, x) \in Places(b)
        /\ Start(b, Left(b, x)) = Start(b, x)
    BY <2>1, PlacesLaid, ThreadOf DEF Laid
  <2>3. c \in (Start(b, Left(b, x)) + 1)..Left(b, x)
    BY <1>2, <2>1, <2>2
  <2>4. Start(b, x) <= Start(b, c)
    BY <2>2, <2>3, SubtreesNest
  <2>5. Start(b, c) < c - 1
    <3>1. CASE Left(b, c) = 0
      BY <3>1, <1>1, <1>2, PlacesLaid DEF Laid
    <3>2. CASE Left(b, c) # 0
      BY <3>2, <1>1, <1>2, PlacesLaid, ThreadOf DEF Laid
    <3> QED BY <3>1, <3>2
  <2>6. Start(b, c) \in Nat
    BY <1>1 DEF Laid
  <2> QED BY <1>2, <2>1, <2>2, <2>4, <2>5, <2>6 DEF Open
<1> QED BY <1>2, <1>3, <1>4

LEMMA OpenLeft ==
  ASSUME NEW b, Tree(b), NEW c \in Places(b), Left(b, c) # 0
  PROVE  c \notin Open(b, c) /\ Open(b, Left(b, c)) = Open(b, c) \cup {c}
<1> DEFINE d == Left(b, c)
<1>1. /\ Top(b) \in Nat /\ Laid(b, c) /\ c \in 1..Top(b) /\ d \in Places(b) /\ d \in 1..Top(b)
      /\ Laid(b, d)
  BY TopLaid, PlacesLaid, ThreadOf DEF Places
<1>2. d < c /\ Start(b, d) = Start(b, c) /\ Start(b, c) < d /\ Start(b, c) \in Nat
  BY <1>1 DEF Laid
<1>3. c \notin Open(b, c)
  BY <1>1, <1>2 DEF Open
<1>4. c \in Open(b, d)
  BY <1>1, <1>2 DEF Open
<1>5. ASSUME NEW x \in Open(b, c) PROVE x \in Open(b, d)
  <2>1. x \in Places(b) /\ Left(b, x) # 0 /\ Start(b, x) < c /\ c <= Left(b, x)
    BY DEF Open
  <2>2. /\ Start(b, x) \in Nat /\ Left(b, x) \in Nat /\ Left(b, x) \in Places(b)
        /\ Start(b, Left(b, x)) = Start(b, x)
    BY <2>1, PlacesLaid, ThreadOf DEF Laid
  <2>3. c \in (Start(b, Left(b, x)) + 1)..Left(b, x)
    BY <1>1, <2>1, <2>2
  <2>4. Start(b, x) <= Start(b, c)
    BY <2>2, <2>3, SubtreesNest
  <2> QED BY <1>1, <1>2, <2>1, <2>2, <2>4 DEF Open
<1>6. ASSUME NEW x \in Open(b, d), x # c PROVE x \in Open(b, c)
  <2>1. x \in Places(b) /\ Left(b, x) # 0 /\ Start(b, x) < d /\ d <= Left(b, x)
    BY DEF Open
  <2>2. /\ Start(b, x) \in Nat /\ Left(b, x) \in Nat /\ Left(b, x) \in Places(b)
        /\ Start(b, Left(b, x)) = Start(b, x) /\ Start(b, x) < Left(b, x)
    BY <2>1, PlacesLaid, ThreadOf DEF Laid
  <2>3. d # Left(b, x)
    BY <1>6, <2>1, OneParent
  <2>4. ~(Left(b, x) < c)
    <3>1. SUFFICES ASSUME Left(b, x) < c PROVE FALSE
      OBVIOUS
    <3>2. HasRight(b, c) /\ Start(b, c - 1) = d
      BY <1>1, <2>1, <2>2, <2>3, <3>1 DEF Laid
    <3>3. c - 1 \in Places(b) /\ Left(b, x) \in (Start(b, c - 1) + 1)..(c - 1)
      BY <1>1, <1>2, <2>1, <2>2, <2>3, <3>1, <3>2 DEF Places
    <3>4. d <= Start(b, Left(b, x))
      BY <3>2, <3>3, SubtreesNest
    <3> QED BY <1>1, <2>1, <2>2, <3>4
  <2> QED BY <1>1, <1>2, <2>1, <2>2, <2>4 DEF Open
<1> HIDE DEF d
<1>7. Open(b, d) = Open(b, c) \cup {c}
  BY <1>4, <1>5, <1>6
<1> QED BY <1>3, <1>7 DEF d

\* At the bottom of its chain c is inside what the top of the chain is inside.
LEMMA OpenBottom ==
  ASSUME NEW b, Tree(b), NEW x \in Places(b), Left(b, x) # 0
  PROVE  Open(b, Thread(b, x)) = Open(b, x) \cup {x}
<1> DEFINE d == Left(b, x)
           N == {k \in Nat : \A j \in Thread(b, x)..d : d - j <= k => Open(b, j) = Open(b, d)}
<1>1. /\ Top(b) \in Nat /\ d \in Places(b) /\ d \in 1..Top(b) /\ Thread(b, x) \in 1..d
      /\ IsBottom(b, d, Thread(b, x))
  BY TopLaid, ThreadOf DEF Places, IsBottom
<1> HIDE DEF d
<1>2. 0 \in N
  <2>1. \A j \in Thread(b, x)..d : d - j <= 0 => j = d
    BY <1>1
  <2> QED BY <2>1
<1>3. ASSUME NEW k \in Nat, k \in N PROVE k + 1 \in N
  <2>1. SUFFICES ASSUME NEW j \in Thread(b, x)..d, d - j <= k + 1, j # d
                 PROVE  Open(b, j) = Open(b, d)
    OBVIOUS
  <2>2. /\ j + 1 \in (Thread(b, x) + 1)..d /\ j + 1 \in Thread(b, x)..d /\ d - (j + 1) <= k
        /\ j + 1 \in Places(b) /\ (j + 1) - 1 = j
    BY <1>1, <2>1 DEF Places
  <2>3. HasRight(b, j + 1)
    BY <1>1, <2>2 DEF IsBottom
  <2>4. Open(b, j) = Open(b, j + 1)
    BY <2>2, <2>3, OpenRight
  <2>5. Open(b, j + 1) = Open(b, d)
    BY <2>2, <1>3
  <2> QED BY <2>4, <2>5
<1>4. Nat \subseteq N
  <2> HIDE DEF N
  <2> QED BY <1>2, <1>3, NatSetInduction
<1>5. d - Thread(b, x) \in Nat /\ Thread(b, x) \in Thread(b, x)..d
  BY <1>1
<1>6. d - Thread(b, x) \in N /\ d - Thread(b, x) <= d - Thread(b, x)
  BY <1>4, <1>5
<1>7. Open(b, Thread(b, x)) = Open(b, d)
  BY <1>5, <1>6
<1> QED BY <1>7, OpenLeft DEF d

-----------------------------------------------------------------------------
(***************************************************************************)
(* The links in the middle of a walk of b: threads lead to the places of O,*)
(* and the right links of the places lo to hi are turned around.           *)
(***************************************************************************)
LinkTables == [Held -> [l : Nodes \cup {Null}, r : Held \cup {Null}]]

\* what the right link of place i is turned to, in a chain with its top at hi
Turned(b, i, hi) == IF i = hi THEN Null ELSE At(b, i + 1)

Linked(f, b, O, lo, hi) ==
  /\ f \in LinkTables
  /\ \A n \in Held : f[n].l = b[n].l
  /\ \A x \in O : f[At(b, Thread(b, x))].r = At(b, x)
  /\ \A i \in lo..hi : f[At(b, i)].r = Turned(b, i, hi)
  /\ \A n \in Held :
       (\A x \in O : n # At(b, Thread(b, x))) /\ (\A i \in lo..hi : n # At(b, i))
         => f[n].r = b[n].r

Threaded(b, O) == O \subseteq {x \in Places(b) : Left(b, x) # 0}

\* SetRight (the const_cast of traverse and traverse_right_list)
WithRight(f, n, v) == [f EXCEPT ![n].r = v]

IsWithRight(g, f, n, v) ==
  /\ g \in LinkTables
  /\ \A m \in Held : g[m].l = f[m].l /\ g[m].r = IF m = n THEN v ELSE f[m].r

LEMMA RightSet ==
  ASSUME NEW f \in LinkTables, NEW n \in Held, NEW v \in Held \cup {Null}
  PROVE  IsWithRight(WithRight(f, n, v), f, n, v)
BY DEF LinkTables, WithRight, IsWithRight

LEMMA OpenThreaded ==
  ASSUME NEW b, NEW c
  PROVE  Threaded(b, Open(b, c))
BY DEF Threaded, Open

LEMMA LinkedFirst ==
  ASSUME NEW b, Tree(b)
  PROVE  Linked(b, b, {}, 1, 0)
BY TreeLinks DEF Linked, LinkTables, Held

LEMMA LinkedLast ==
  ASSUME NEW b, Tree(b), NEW f, Linked(f, b, {}, 1, 0)
  PROVE  f = b
<1>1. \A n \in Held : f[n].l = b[n].l /\ f[n].r = b[n].r
  BY DEF Linked
<1>2. f \in LinkTables /\ b \in LinkTables
  BY TreeLinks DEF Linked, LinkTables, Held
<1>3. \A n \in Held : f[n] = b[n]
  BY <1>1, <1>2 DEF LinkTables
<1> QED BY <1>2, <1>3 DEF LinkTables

\* the right link of p is neither a thread nor turned
Plain(b, O, lo, hi, p) ==
  lo..hi \subseteq Places(b) /\ p \notin lo..hi /\ \A x \in O : Thread(b, x) # p

LEMMA LinkKept ==
  ASSUME NEW b, Tree(b), NEW O, Threaded(b, O), NEW lo, NEW hi,
         NEW f, Linked(f, b, O, lo, hi), NEW p \in Places(b), Plain(b, O, lo, hi, p)
  PROVE  f[At(b, p)].r = b[At(b, p)].r
<1> DEFINE n == At(b, p)
<1>1. n \in Held
  BY PlacesLaid DEF Laid
<1>2. ASSUME NEW x \in O PROVE n # At(b, Thread(b, x))
  <2>1. Thread(b, x) \in Places(b)
    BY ThreadOf DEF Threaded
  <2> QED BY <2>1, OnePlace DEF Plain
<1>3. ASSUME NEW i \in lo..hi PROVE n # At(b, i)
  BY OnePlace DEF Plain
<1> HIDE DEF n
<1>4. f[n].r = b[n].r
  BY <1>1, <1>2, <1>3 DEF Linked
<1> QED BY <1>4 DEF n

\* No thread is written where there is a right link.
LEMMA RightKept ==
  ASSUME NEW b, Tree(b), NEW O, Threaded(b, O), NEW f, Linked(f, b, O, 1, 0),
         NEW p \in Places(b), HasRight(b, p)
  PROVE  f[At(b, p)].r = At(b, p - 1)
<1>1. ASSUME NEW x \in O PROVE Thread(b, x) # p
  BY ThreadOf DEF Threaded, IsBottom
<1>2. Plain(b, O, 1, 0, p)
  BY <1>1 DEF Plain
<1>3. f[At(b, p)].r = b[At(b, p)].r
  BY <1>2, LinkKept
<1> QED BY <1>3, PlacesLaid DEF Laid

\* On the chain of c no thread is written that leads to where c is inside.
LEMMA NoThreadBelow ==
  ASSUME NEW b, Tree(b), NEW c \in Places(b), Left(b, c) # 0,
         NEW x \in Open(b, c), NEW j \in Thread(b, c)..Left(b, c)
  PROVE  Thread(b, x) # j
<1>1. SUFFICES ASSUME Thread(b, x) = j PROVE FALSE
  OBVIOUS
<1>2. x \in Places(b) /\ Left(b, x) # 0 /\ c \notin Open(b, c)
  BY OpenLeft DEF Open
<1>3. ~HasRight(b, j)
  BY <1>1, <1>2, ThreadOf DEF IsBottom
<1>4. j = Thread(b, c)
  <2>1. Thread(b, c) \in Nat /\ \A i \in (Thread(b, c) + 1)..Left(b, c) : HasRight(b, i)
    BY TopLaid, ThreadOf DEF IsBottom, Places
  <2> QED BY <2>1, <1>3
<1> QED BY <1>1, <1>2, <1>4, ThreadsApart

\* Where the right link of c leads when c has been left or has no left child.
LEMMA RightOf ==
  ASSUME NEW b, Tree(b), NEW c \in Places(b), NEW f, Linked(f, b, Open(b, c), 1, 0)
  PROVE  \/ HasRight(b, c) /\ f[At(b, c)].r = At(b, c - 1)
         \/ c = Top(b) /\ f[At(b, c)].r = Null /\ Open(b, c) = {}
         \/ /\ ~HasRight(b, c)
            /\ \E x \in Places(b) : /\ Left(b, x) # 0 /\ Thread(b, x) = c
                                    /\ f[At(b, c)].r = At(b, x) /\ Open(b, c) = Open(b, x) \cup {x}
<1>1. CASE HasRight(b, c)
  BY <1>1, RightKept, OpenThreaded
<1>2. CASE c = Top(b)
  <2>1. Open(b, c) = {} /\ ~HasRight(b, c)
    BY <1>2, OpenTop, TopLaid
  <2>2. f = b
    BY <2>1, LinkedLast
  <2> QED BY <1>2, <2>1, <2>2 DEF HasRight
<1>3. CASE ~HasRight(b, c) /\ c # Top(b)
  <2>1. PICK x \in Places(b) : Left(b, x) # 0 /\ Thread(b, x) = c
    BY <1>3, ThreadAt
  <2>2. Open(b, c) = Open(b, x) \cup {x}
    BY <2>1, OpenBottom
  <2>3. f[At(b, c)].r = At(b, x)
    BY <2>1, <2>2 DEF Linked
  <2> QED BY <1>3, <2>1, <2>2, <2>3
<1> QED BY <1>1, <1>2, <1>3

LEMMA ThreadWritten ==
  ASSUME NEW b, Tree(b), NEW O, Threaded(b, O), NEW f, Linked(f, b, O, 1, 0),
         NEW c \in Places(b), Left(b, c) # 0, c \notin O,
         NEW g, g = WithRight(f, At(b, Thread(b, c)), At(b, c))
  PROVE  Linked(g, b, O \cup {c}, 1, 0)
<1> DEFINE n == At(b, Thread(b, c))
<1>1. n \in Held /\ At(b, c) \in Held /\ f \in LinkTables
  BY ThreadOf, PlacesLaid DEF Laid, Linked
<1>2. /\ g \in LinkTables
      /\ \A m \in Held : g[m].l = f[m].l /\ g[m].r = IF m = n THEN At(b, c) ELSE f[m].r
  <2> HIDE DEF n
  <2>1. g = WithRight(f, n, At(b, c))
    BY DEF n
  <2>2. IsWithRight(g, f, n, At(b, c))
    BY <1>1, <2>1, RightSet
  <2> QED BY <2>2 DEF IsWithRight
<1>3. ASSUME NEW x \in O PROVE At(b, Thread(b, x)) # n /\ At(b, Thread(b, x)) \in Held
  <2>1. x \in Places(b) /\ Left(b, x) # 0 /\ x # c
    BY DEF Threaded
  <2>2. Thread(b, x) \in Places(b) /\ Thread(b, c) \in Places(b) /\ Thread(b, x) # Thread(b, c)
    BY <2>1, ThreadOf, ThreadsApart
  <2> QED BY <2>2, OnePlace, PlacesLaid DEF Laid
<1> HIDE DEF n
<1>4. \A x \in O \cup {c} : g[At(b, Thread(b, x))].r = At(b, x)
  BY <1>1, <1>2, <1>3 DEF Linked, n
<1>5. ASSUME NEW m \in Held, \A x \in O \cup {c} : m # At(b, Thread(b, x)) PROVE g[m].r = b[m].r
  BY <1>2, <1>5 DEF Linked, n
<1> QED BY <1>2, <1>4, <1>5 DEF Linked

LEMMA ThreadCut ==
  ASSUME NEW b, Tree(b), NEW O, Threaded(b, O), NEW c \in Places(b), Left(b, c) # 0, c \notin O,
         NEW f, Linked(f, b, O \cup {c}, 1, 0),
         NEW g, g = WithRight(f, At(b, Thread(b, c)), Null)
  PROVE  Linked(g, b, O, Left(b, c) + 1, Left(b, c))
<1> DEFINE n == At(b, Thread(b, c))
<1>1. n \in Held /\ f \in LinkTables /\ Thread(b, c) \in Places(b) /\ Left(b, c) \in Nat
  BY ThreadOf, PlacesLaid DEF Laid, Linked
<1>2. /\ g \in LinkTables
      /\ \A m \in Held : g[m].l = f[m].l /\ g[m].r = IF m = n THEN Null ELSE f[m].r
  <2> HIDE DEF n
  <2>1. g = WithRight(f, n, Null)
    BY DEF n
  <2>2. IsWithRight(g, f, n, Null)
    BY <1>1, <2>1, RightSet
  <2> QED BY <2>2 DEF IsWithRight
<1>3. ASSUME NEW x \in O PROVE At(b, Thread(b, x)) # n /\ At(b, Thread(b, x)) \in Held
  <2>1. x \in Places(b) /\ Left(b, x) # 0 /\ x # c
    BY DEF Threaded
  <2>2. Thread(b, x) \in Places(b) /\ Thread(b, x) # Thread(b, c)
    BY <2>1, ThreadOf, ThreadsApart
  <2> QED BY <1>1, <2>2, OnePlace, PlacesLaid DEF Laid
<1>4. b[n].r = Null
  BY ThreadOf DEF IsBottom, HasRight
<1> HIDE DEF n
<1>5. \A x \in O : g[At(b, Thread(b, x))].r = At(b, x)
  BY <1>1, <1>2, <1>3 DEF Linked
<1>6. ASSUME NEW m \in Held, \A x \in O : m # At(b, Thread(b, x)) PROVE g[m].r = b[m].r
  <2>1. CASE m = n
    BY <2>1, <1>2, <1>4
  <2>2. CASE m # n
    <3>1. \A x \in O \cup {c} : m # At(b, Thread(b, x))
      BY <2>2, <1>6 DEF n
    <3>2. \A i \in 1..0 : m # At(b, i)
      OBVIOUS
    <3>3. f[m].r = b[m].r
      BY <3>1, <3>2 DEF Linked
    <3> QED BY <2>2, <3>3, <1>2
  <2> QED BY <2>1, <2>2
<1>7. \A i \in (Left(b, c) + 1)..Left(b, c) : FALSE
  BY <1>1
<1> QED BY <1>2, <1>5, <1>6, <1>7 DEF Linked

\* One link more, the one of j, is turned around.
LEMMA LinkTurned ==
  ASSUME NEW b, Tree(b), NEW O, Threaded(b, O), NEW hi \in Places(b), NEW j \in Places(b), j <= hi,
         NEW f, Linked(f, b, O, j + 1, hi), \A x \in O : Thread(b, x) # j,
         NEW g, g = WithRight(f, At(b, j), Turned(b, j, hi))
  PROVE  Linked(g, b, O, j, hi)
<1> DEFINE n == At(b, j)
<1>1. Top(b) \in Nat /\ n \in Held /\ f \in LinkTables /\ j \in Nat /\ hi \in Nat
      /\ \A i \in j..hi : i \in Places(b)
  BY TopLaid, PlacesLaid DEF Laid, Linked, Places
<1>2. Turned(b, j, hi) \in Held \cup {Null}
  <2>1. j # hi => j + 1 \in j..hi
    BY <1>1
  <2>2. j # hi => At(b, j + 1) \in Held
    BY <2>1, <1>1, PlacesLaid DEF Laid
  <2> QED BY <2>2 DEF Turned
<1>3. /\ g \in LinkTables
      /\ \A m \in Held : g[m].l = f[m].l /\ g[m].r = IF m = n THEN Turned(b, j, hi) ELSE f[m].r
  <2> HIDE DEF n
  <2>1. g = WithRight(f, n, Turned(b, j, hi))
    BY DEF n
  <2>2. IsWithRight(g, f, n, Turned(b, j, hi))
    BY <1>1, <1>2, <2>1, RightSet
  <2> QED BY <2>2 DEF IsWithRight
<1>4. ASSUME NEW x \in O PROVE At(b, Thread(b, x)) # n /\ At(b, Thread(b, x)) \in Held
  <2>1. Thread(b, x) \in Places(b)
    BY ThreadOf DEF Threaded
  <2> QED BY <2>1, OnePlace, PlacesLaid DEF Laid
<1>5. ASSUME NEW i \in (j + 1)..hi PROVE At(b, i) # n /\ At(b, i) \in Held /\ i \in j..hi
  <2>1. i \in Places(b) /\ i # j /\ i \in j..hi
    BY <1>1
  <2> QED BY <2>1, OnePlace, PlacesLaid DEF Laid
<1>6. \A x \in O : g[At(b, Thread(b, x))].r = At(b, x)
  <2> HIDE DEF n
  <2> QED BY <1>3, <1>4 DEF Linked
<1>7. ASSUME NEW i \in j..hi PROVE g[At(b, i)].r = Turned(b, i, hi)
  <2>1. CASE i = j
    BY <2>1, <1>1, <1>3
  <2>2. CASE i # j
    <3>1. i \in (j + 1)..hi
      BY <2>2, <1>1
    <3> HIDE DEF n
    <3> QED BY <3>1, <1>3, <1>5 DEF Linked
  <2> QED BY <2>1, <2>2
<1>8. ASSUME NEW m \in Held, \A x \in O : m # At(b, Thread(b, x)), \A i \in j..hi : m # At(b, i)
      PROVE  g[m].r = b[m].r
  <2>1. j \in j..hi /\ \A i \in (j + 1)..hi : i \in j..hi
    BY <1>1
  <2>2. m # n /\ \A i \in (j + 1)..hi : m # At(b, i)
    BY <2>1, <1>8
  <2>3. f[m].r = b[m].r
    BY <2>2, <1>8 DEF Linked
  <2> QED BY <2>2, <2>3, <1>3
<1> QED BY <1>3, <1>6, <1>7, <1>8 DEF Linked

\* The link of j is turned back.
LEMMA LinkTurnedBack ==
  ASSUME NEW b, Tree(b), NEW O, Threaded(b, O), NEW hi \in Places(b), NEW j \in Places(b), j <= hi,
         NEW f, Linked(f, b, O, j, hi), \A x \in O : Thread(b, x) # j,
         NEW g, g = WithRight(f, At(b, j), b[At(b, j)].r)
  PROVE  Linked(g, b, O, j + 1, hi)
<1> DEFINE n == At(b, j)
           v == b[At(b, j)].r
<1>1. Top(b) \in Nat /\ n \in Held /\ f \in LinkTables /\ j \in Nat /\ hi \in Nat
      /\ \A i \in j..hi : i \in Places(b)
  BY TopLaid, PlacesLaid DEF Laid, Linked, Places
<1>2. v \in Held \cup {Null}
  BY <1>1, TreeLinks DEF Held
<1>3. /\ g \in LinkTables
      /\ \A m \in Held : g[m].l = f[m].l /\ g[m].r = IF m = n THEN v ELSE f[m].r
  <2>1. g = WithRight(f, n, v)
    OBVIOUS
  <2> HIDE DEF n, v
  <2>2. IsWithRight(g, f, n, v)
    BY <1>1, <1>2, <2>1, RightSet
  <2> QED BY <2>2 DEF IsWithRight
<1>4. ASSUME NEW x \in O PROVE At(b, Thread(b, x)) # n /\ At(b, Thread(b, x)) \in Held
  <2>1. Thread(b, x) \in Places(b)
    BY ThreadOf DEF Threaded
  <2> QED BY <2>1, OnePlace, PlacesLaid DEF Laid
<1>5. ASSUME NEW i \in (j + 1)..hi PROVE At(b, i) # n /\ At(b, i) \in Held /\ i \in j..hi
  <2>1. i \in Places(b) /\ i # j /\ i \in j..hi
    BY <1>1
  <2> QED BY <2>1, OnePlace, PlacesLaid DEF Laid
<1>6. \A x \in O : g[At(b, Thread(b, x))].r = At(b, x)
  <2> HIDE DEF n, v
  <2> QED BY <1>3, <1>4 DEF Linked
<1>7. ASSUME NEW i \in (j + 1)..hi PROVE g[At(b, i)].r = Turned(b, i, hi)
  <2> HIDE DEF n, v
  <2> QED BY <1>3, <1>5 DEF Linked
<1>8. ASSUME NEW m \in Held, \A x \in O : m # At(b, Thread(b, x)),
             \A i \in (j + 1)..hi : m # At(b, i)
      PROVE  g[m].r = b[m].r
  <2>1. CASE m = n
    BY <2>1, <1>3
  <2>2. CASE m # n
    <3>1. \A i \in j..hi : i = j \/ i \in (j + 1)..hi
      BY <1>1
    <3>2. \A i \in j..hi : m # At(b, i)
      BY <2>2, <3>1, <1>8
    <3>3. f[m].r = b[m].r
      BY <3>2, <1>8 DEF Linked
    <3> QED BY <2>2, <3>3, <1>3
  <2> QED BY <2>1, <2>2
<1> QED BY <1>3, <1>6, <1>7, <1>8 DEF Linked

-----------------------------------------------------------------------------
(***************************************************************************)
(* The states of a walk.  At a place that has a left child, the walk comes *)
(* by twice: first on the way down, then back by the thread.               *)
(***************************************************************************)
\* the first k places have been visited
InOrder(k) ==
  visited \in Seq(Held) /\ Len(visited) = k /\ \A i \in 1..k : visited[i] = At(built, i)

First(c) ==
  /\ loop = "walk" /\ curr = At(built, c)
  /\ Linked(links, built, Open(built, c), 1, 0) /\ InOrder(Start(built, c))

Back(c) ==
  /\ loop = "walk" /\ curr = At(built, c) /\ Left(built, c) # 0
  /\ Linked(links, built, Open(built, c) \cup {c}, 1, 0) /\ InOrder(Thread(built, c) - 1)

SeekFirst(c, p) ==
  /\ loop = "seek" /\ curr = At(built, c) /\ Left(built, c) # 0
  /\ p \in Thread(built, c)..Left(built, c) /\ pred = At(built, p)
  /\ Linked(links, built, Open(built, c), 1, 0) /\ InOrder(Start(built, c))

SeekBack(c, p) ==
  /\ loop = "seek" /\ curr = At(built, c) /\ Left(built, c) # 0
  /\ p \in Thread(built, c)..Left(built, c) /\ pred = At(built, p)
  /\ Linked(links, built, Open(built, c) \cup {c}, 1, 0) /\ InOrder(Thread(built, c) - 1)

Reversing(c, j) ==
  /\ loop = "reverse" /\ curr = At(built, c) /\ Left(built, c) # 0
  /\ j \in (Thread(built, c) - 1)..Left(built, c)
  /\ at = IF j = Thread(built, c) - 1 THEN Null ELSE At(built, j)
  /\ prev = Turned(built, j, Left(built, c))
  /\ Linked(links, built, Open(built, c), j + 1, Left(built, c))
  /\ InOrder(Thread(built, c) - 1)

Visiting(c, j) ==
  /\ loop = "visit" /\ curr = At(built, c) /\ Left(built, c) # 0
  /\ j \in Thread(built, c)..(Left(built, c) + 1)
  /\ at = Turned(built, j - 1, Left(built, c))
  /\ prev = IF j = Thread(built, c) THEN Null ELSE At(built, j - 1)
  /\ Linked(links, built, Open(built, c), j, Left(built, c))
  /\ InOrder(j - 1)

\* back above the root, with nowhere to go
Over ==
  loop = "walk" /\ curr = Null /\ Linked(links, built, {}, 1, 0) /\ InOrder(Top(built) - 1)

Done == loop = "done" /\ Linked(links, built, {}, 1, 0) /\ InOrder(Top(built) - 1)

Walking(c) == \/ First(c) \/ Back(c)
              \/ \E p : SeekFirst(c, p) \/ SeekBack(c, p)
              \/ \E j : Reversing(c, j) \/ Visiting(c, j)

IInv == Tree(built) /\ (Over \/ Done \/ \E c \in Places(built) : Walking(c))

-----------------------------------------------------------------------------
\* What the walk reads from the left link of its node.
LEMMA LeftRead ==
  ASSUME NEW b, Tree(b), NEW c \in Places(b), NEW O, NEW lo, NEW hi, NEW f, Linked(f, b, O, lo, hi)
  PROVE  IF Left(b, c) = 0 THEN f[At(b, c)].l = Null
         ELSE f[At(b, c)].l = At(b, Left(b, c)) /\ f[At(b, c)].l # Null
<1>1. Laid(b, c) /\ At(b, c) \in Held
  BY PlacesLaid DEF Laid
<1>2. f[At(b, c)].l = b[At(b, c)].l
  BY <1>1 DEF Linked
<1> QED BY <1>1, <1>2 DEF Laid

LEMMA PlaceNotNull ==
  ASSUME NEW b, Tree(b), NEW c \in Places(b)
  PROVE  At(b, c) # Null /\ At(b, c) \in Held
BY PlacesLaid, NodesAssumption DEF Laid, Held

\* What the walk reads from the right link of p, on the chain of c.
LEMMA ChainRead ==
  ASSUME NEW b, Tree(b), NEW c \in Places(b), Left(b, c) # 0, NEW p \in Thread(b, c)..Left(b, c),
         NEW f
  PROVE  /\ Linked(f, b, Open(b, c), 1, 0) =>
              f[At(b, p)].r = IF p = Thread(b, c) THEN Null ELSE At(b, p - 1)
         /\ Linked(f, b, Open(b, c) \cup {c}, 1, 0) =>
              f[At(b, p)].r = IF p = Thread(b, c) THEN At(b, c) ELSE At(b, p - 1)
<1>1. /\ Top(b) \in Nat /\ p \in Places(b) /\ Thread(b, c) \in Nat /\ Left(b, c) \in Nat
      /\ IsBottom(b, Left(b, c), Thread(b, c))
  BY TopLaid, ThreadOf DEF Places
<1>2. CASE p = Thread(b, c)
  <2>1. ASSUME Linked(f, b, Open(b, c), 1, 0) PROVE f[At(b, p)].r = Null
    <3>1. Plain(b, Open(b, c), 1, 0, p)
      BY NoThreadBelow DEF Plain
    <3>2. f[At(b, p)].r = b[At(b, p)].r
      BY <1>1, <2>1, <3>1, OpenThreaded, LinkKept
    <3> QED BY <1>1, <1>2, <3>2 DEF IsBottom, HasRight
  <2>2. ASSUME Linked(f, b, Open(b, c) \cup {c}, 1, 0) PROVE f[At(b, p)].r = At(b, c)
    BY <1>2, <2>2 DEF Linked
  <2> QED BY <1>2, <2>1, <2>2
<1>3. CASE p # Thread(b, c)
  <2>1. p \in (Thread(b, c) + 1)..Left(b, c)
    BY <1>1, <1>3
  <2>2. HasRight(b, p)
    BY <1>1, <2>1 DEF IsBottom
  <2>3. Threaded(b, Open(b, c)) /\ Threaded(b, Open(b, c) \cup {c})
    BY OpenThreaded DEF Threaded
  <2> QED BY <1>1, <1>3, <2>2, <2>3, RightKept
<1> QED BY <1>2, <1>3

\* Where nothing is turned around, it does not matter where.
LEMMA LinkedNone ==
  ASSUME NEW b, NEW O, NEW f, NEW k \in Nat
  PROVE  Linked(f, b, O, k + 1, k) <=> Linked(f, b, O, 1, 0)
<1>1. (k + 1)..k = {} /\ 1..0 = {}
  OBVIOUS
<1> QED BY <1>1, Zenon DEF Linked

LEMMA StepGoRight ==
  ASSUME IInv, GoRight
  PROVE  IInv'
<1>1. Tree(built) /\ built' = built /\ links' = links /\ visited' = visited /\ loop' = "walk"
      /\ curr' = links[curr].r
  BY DEF IInv, GoRight
<1>2. PICK c \in Places(built) : First(c) \/ Back(c)
  BY DEF IInv, Walking, GoRight, Over, Done, SeekFirst, SeekBack, Reversing, Visiting
<1>3. Left(built, c) = 0 /\ First(c)
  <2>1. links[At(built, c)].l = Null
    BY <1>2 DEF GoRight, First, Back
  <2>2. Left(built, c) = 0
    BY <1>1, <1>2, <2>1, LeftRead DEF First, Back
  <2> QED BY <1>2, <2>2 DEF Back
<1>4. Linked(links, built, Open(built, c), 1, 0) /\ Laid(built, c)
  BY <1>1, <1>3, PlacesLaid DEF First
<1>5. CASE HasRight(built, c) /\ links[At(built, c)].r = At(built, c - 1)
  <2>1. /\ c - 1 \in Places(built) /\ Open(built, c - 1) = Open(built, c)
        /\ Start(built, c - 1) = Start(built, c)
    BY <1>1, <1>3, <1>4, <1>5, OpenRight DEF Laid
  <2>2. First(c - 1)'
    BY <1>1, <1>3, <1>5, <2>1 DEF First, InOrder
  <2> QED BY <1>1, <2>1, <2>2 DEF IInv, Walking
<1>6. CASE c = Top(built)
  BY <1>1, <1>3, <1>6, TopLaid
<1>7. CASE ~HasRight(built, c)
           /\ \E x \in Places(built) :
                /\ Left(built, x) # 0 /\ Thread(built, x) = c
                /\ links[At(built, c)].r = At(built, x)
                /\ Open(built, c) = Open(built, x) \cup {x}
  <2>1. PICK x \in Places(built) : /\ Left(built, x) # 0 /\ Thread(built, x) = c
                                   /\ links[At(built, c)].r = At(built, x)
                                   /\ Open(built, c) = Open(built, x) \cup {x}
    BY <1>7
  <2>2. Start(built, c) = Thread(built, x) - 1
    BY <1>3, <1>4, <1>7, <2>1 DEF Laid
  <2>3. Back(x)'
    BY <1>1, <1>3, <2>1, <2>2 DEF First, Back, InOrder
  <2> QED BY <1>1, <2>3 DEF IInv, Walking
<1> QED BY <1>1, <1>4, <1>5, <1>6, <1>7, RightOf

LEMMA StepLookForPredecessor ==
  ASSUME IInv, LookForPredecessor
  PROVE  IInv'
<1>1. Tree(built) /\ built' = built /\ links' = links /\ visited' = visited /\ loop' = "seek"
      /\ curr' = curr /\ pred' = links[curr].l
  BY DEF IInv, LookForPredecessor
<1>2. PICK c \in Places(built) : First(c) \/ Back(c)
  BY DEF IInv, Walking, LookForPredecessor, Over, Done, SeekFirst, SeekBack, Reversing, Visiting
<1>3. links[At(built, c)].l # Null
  BY <1>2 DEF LookForPredecessor, First, Back
<1>4. Left(built, c) # 0 /\ links[At(built, c)].l = At(built, Left(built, c))
  BY <1>1, <1>2, <1>3, LeftRead DEF First, Back
<1>5. Left(built, c) \in Thread(built, c)..Left(built, c)
  BY <1>1, <1>4, TopLaid, ThreadOf DEF Places
<1>6. First(c) => SeekFirst(c, Left(built, c))'
  BY <1>1, <1>4, <1>5 DEF First, SeekFirst, InOrder
<1>7. Back(c) => SeekBack(c, Left(built, c))'
  BY <1>1, <1>4, <1>5 DEF Back, SeekBack, InOrder
<1> QED BY <1>1, <1>2, <1>6, <1>7 DEF IInv, Walking

LEMMA StepSeek ==
  ASSUME IInv, Seek
  PROVE  IInv'
<1>1. Tree(built) /\ built' = built /\ links' = links /\ visited' = visited /\ loop' = loop
      /\ curr' = curr /\ pred' = links[pred].r
  BY DEF IInv, Seek
<1>2. PICK c \in Places(built) : \E p : SeekFirst(c, p) \/ SeekBack(c, p)
  BY DEF IInv, Walking, Seek, Over, Done, First, Back, Reversing, Visiting
<1>3. PICK p : SeekFirst(c, p) \/ SeekBack(c, p)
  BY <1>2
<1>4. /\ Left(built, c) # 0 /\ p \in Thread(built, c)..Left(built, c)
      /\ pred = At(built, p) /\ curr = At(built, c) /\ links[pred].r # Null /\ links[pred].r # curr
  BY <1>3 DEF SeekFirst, SeekBack, Seek
<1>5. p # Thread(built, c) /\ links[pred].r = At(built, p - 1)
  BY <1>1, <1>3, <1>4, ChainRead DEF SeekFirst, SeekBack
<1>6. p - 1 \in Thread(built, c)..Left(built, c)
  BY <1>1, <1>4, <1>5, TopLaid, ThreadOf DEF Places
<1>7. SeekFirst(c, p) => SeekFirst(c, p - 1)'
  BY <1>1, <1>4, <1>5, <1>6 DEF SeekFirst, InOrder
<1>8. SeekBack(c, p) => SeekBack(c, p - 1)'
  BY <1>1, <1>4, <1>5, <1>6 DEF SeekBack, InOrder
<1> QED BY <1>1, <1>3, <1>7, <1>8 DEF IInv, Walking

LEMMA StepWriteThread ==
  ASSUME IInv, WriteThread
  PROVE  IInv'
<1>1. Tree(built) /\ built' = built /\ visited' = visited /\ loop' = "walk"
      /\ curr' = links[curr].l /\ links' = WithRight(links, pred, curr)
  BY DEF IInv, WriteThread, SetRight, WithRight
<1>2. PICK c \in Places(built) : \E p : SeekFirst(c, p) \/ SeekBack(c, p)
  BY DEF IInv, Walking, WriteThread, Over, Done, First, Back, Reversing, Visiting
<1>3. PICK p : SeekFirst(c, p) \/ SeekBack(c, p)
  BY <1>2
<1>4. /\ Left(built, c) # 0 /\ p \in Thread(built, c)..Left(built, c)
      /\ pred = At(built, p) /\ curr = At(built, c) /\ links[pred].r = Null
  BY <1>3 DEF SeekFirst, SeekBack, WriteThread
<1>5. p # Thread(built, c) => p - 1 \in Places(built)
  BY <1>1, <1>4, TopLaid, ThreadOf DEF Places
<1>6. p = Thread(built, c) /\ SeekFirst(c, p)
  BY <1>1, <1>3, <1>4, <1>5, ChainRead, PlaceNotNull DEF SeekFirst, SeekBack
<1>7. /\ Left(built, c) \in Places(built) /\ c \notin Open(built, c)
      /\ Open(built, Left(built, c)) = Open(built, c) \cup {c}
      /\ Start(built, Left(built, c)) = Start(built, c)
  BY <1>1, <1>4, OpenLeft, ThreadOf, PlacesLaid DEF Laid
<1>8. links[curr].l = At(built, Left(built, c))
  BY <1>1, <1>4, <1>6, LeftRead DEF SeekFirst
<1>9. Linked(links', built, Open(built, c) \cup {c}, 1, 0)
  BY <1>1, <1>4, <1>6, <1>7, OpenThreaded, ThreadWritten DEF SeekFirst
<1>10. First(Left(built, c))'
  BY <1>1, <1>6, <1>7, <1>8, <1>9 DEF First, SeekFirst, InOrder
<1> QED BY <1>1, <1>7, <1>10 DEF IInv, Walking

LEMMA StepCutThread ==
  ASSUME IInv, CutThread
  PROVE  IInv'
<1>1. Tree(built) /\ built' = built /\ visited' = visited /\ loop' = "reverse"
      /\ curr' = curr /\ at' = links[curr].l /\ prev' = Null /\ links' = WithRight(links, pred, Null)
  BY DEF IInv, CutThread, SetRight, WithRight
<1>2. PICK c \in Places(built) : \E p : SeekFirst(c, p) \/ SeekBack(c, p)
  BY DEF IInv, Walking, CutThread, Over, Done, First, Back, Reversing, Visiting
<1>3. PICK p : SeekFirst(c, p) \/ SeekBack(c, p)
  BY <1>2
<1>4. /\ Left(built, c) # 0 /\ p \in Thread(built, c)..Left(built, c)
      /\ pred = At(built, p) /\ curr = At(built, c) /\ links[pred].r = curr
  BY <1>3 DEF SeekFirst, SeekBack, CutThread
<1>5. /\ Left(built, c) \in Nat /\ Left(built, c) < c /\ Thread(built, c) \in Nat
      /\ Thread(built, c) <= Left(built, c) /\ c \in Nat
  BY <1>1, <1>4, TopLaid, ThreadOf, PlacesLaid DEF Laid, Places
<1>6. p # Thread(built, c) => p - 1 \in Places(built) /\ p - 1 # c
  BY <1>1, <1>4, <1>5, TopLaid, ThreadOf DEF Places
<1>7. p = Thread(built, c) /\ SeekBack(c, p)
  BY <1>1, <1>3, <1>4, <1>6, ChainRead, PlaceNotNull, OnePlace DEF SeekFirst, SeekBack
<1>8. links[curr].l = At(built, Left(built, c))
  BY <1>1, <1>4, <1>7, LeftRead DEF SeekBack
<1>9. Linked(links', built, Open(built, c), Left(built, c) + 1, Left(built, c))
  BY <1>1, <1>4, <1>7, OpenLeft, OpenThreaded, ThreadCut DEF SeekBack
<1>10. Reversing(c, Left(built, c))'
  BY <1>1, <1>4, <1>5, <1>7, <1>8, <1>9 DEF Reversing, SeekBack, InOrder, Turned
<1> QED BY <1>1, <1>10 DEF IInv, Walking

LEMMA StepReverse ==
  ASSUME IInv, Reverse
  PROVE  IInv'
<1>1. Tree(built) /\ built' = built /\ visited' = visited /\ loop' = "reverse" /\ curr' = curr
      /\ at' = links[at].r /\ prev' = at /\ links' = WithRight(links, at, prev)
  BY DEF IInv, Reverse, SetRight, WithRight
<1>2. PICK c \in Places(built) : \E j : Reversing(c, j)
  BY DEF IInv, Walking, Reverse, Over, Done, First, Back, SeekFirst, SeekBack, Visiting
<1>3. PICK j : Reversing(c, j)
  BY <1>2
<1>4. Left(built, c) # 0 /\ at # Null /\ at = At(built, j) /\ j # Thread(built, c) - 1
  BY <1>3 DEF Reversing, Reverse
<1>5. /\ Left(built, c) \in Places(built) /\ Left(built, c) \in Nat
      /\ Thread(built, c) \in Nat /\ Thread(built, c) <= Left(built, c)
      /\ IsBottom(built, Left(built, c), Thread(built, c))
  BY <1>1, <1>4, TopLaid, ThreadOf DEF Places
<1>6. j \in Thread(built, c)..Left(built, c) /\ j \in Places(built) /\ j \in Nat
      /\ (j + 1)..Left(built, c) \subseteq Places(built) /\ j <= Left(built, c)
  BY <1>1, <1>3, <1>4, <1>5, TopLaid, ThreadOf DEF Reversing, Places
<1>7. \A x \in Open(built, c) : Thread(built, x) # j
  BY <1>1, <1>4, <1>6, NoThreadBelow
<1>8. links[at].r = built[at].r
  <2>1. Plain(built, Open(built, c), j + 1, Left(built, c), j)
    BY <1>6, <1>7 DEF Plain
  <2> QED BY <1>1, <1>3, <1>4, <1>6, <2>1, OpenThreaded, LinkKept DEF Reversing
<1>9. links[at].r = IF j = Thread(built, c) THEN Null ELSE At(built, j - 1)
  <2>1. CASE j = Thread(built, c)
    BY <2>1, <1>4, <1>5, <1>8 DEF IsBottom, HasRight
  <2>2. CASE j # Thread(built, c)
    <3>1. j \in (Thread(built, c) + 1)..Left(built, c)
      BY <2>2, <1>5, <1>6
    <3>2. HasRight(built, j)
      BY <3>1, <1>5 DEF IsBottom
    <3> QED BY <2>2, <3>2, <1>1, <1>4, <1>6, <1>8, PlacesLaid DEF Laid
  <2> QED BY <2>1, <2>2
<1>10. Linked(links', built, Open(built, c), j, Left(built, c))
  BY <1>1, <1>3, <1>4, <1>5, <1>6, <1>7, OpenThreaded, LinkTurned DEF Reversing
<1>11. /\ j - 1 \in (Thread(built, c) - 1)..Left(built, c) /\ j - 1 # Left(built, c)
       /\ (j - 1) + 1 = j /\ (j - 1 = Thread(built, c) - 1 <=> j = Thread(built, c))
  BY <1>5, <1>6
<1>12. at' = (IF j - 1 = Thread(built, c) - 1 THEN Null ELSE At(built, j - 1))
  BY <1>1, <1>9, <1>11
<1>13. prev' = Turned(built, j - 1, Left(built, c))
  BY <1>1, <1>4, <1>11 DEF Turned
<1>14. Reversing(c, j - 1)'
  BY <1>1, <1>3, <1>4, <1>10, <1>11, <1>12, <1>13 DEF Reversing, InOrder
<1> QED BY <1>1, <1>14 DEF IInv, Walking

LEMMA StepReversed ==
  ASSUME IInv, Reversed
  PROVE  IInv'
<1>1. Tree(built) /\ built' = built /\ visited' = visited /\ loop' = "visit" /\ curr' = curr
      /\ at' = prev /\ prev' = Null /\ links' = links
  BY DEF IInv, Reversed
<1>2. PICK c \in Places(built) : \E j : Reversing(c, j)
  BY DEF IInv, Walking, Reversed, Over, Done, First, Back, SeekFirst, SeekBack, Visiting
<1>3. PICK j : Reversing(c, j)
  BY <1>2
<1>4. Left(built, c) # 0 /\ at = Null
  BY <1>3 DEF Reversing, Reversed
<1>5. /\ Left(built, c) \in Places(built) /\ Left(built, c) \in Nat
      /\ Thread(built, c) \in Nat /\ Thread(built, c) <= Left(built, c)
  BY <1>1, <1>4, TopLaid, ThreadOf DEF Places
<1>6. j = Thread(built, c) - 1
  <2>1. SUFFICES ASSUME j # Thread(built, c) - 1 PROVE FALSE
    OBVIOUS
  <2>2. j \in Places(built) /\ at = At(built, j)
    BY <1>1, <1>3, <1>4, <1>5, <2>1, TopLaid, ThreadOf DEF Reversing, Places
  <2> QED BY <1>1, <1>4, <2>2, PlaceNotNull
<1>7. j + 1 = Thread(built, c) /\ Thread(built, c) \in Thread(built, c)..(Left(built, c) + 1)
  BY <1>5, <1>6
<1>8. Visiting(c, Thread(built, c))'
  BY <1>1, <1>3, <1>4, <1>6, <1>7 DEF Reversing, Visiting, InOrder
<1> QED BY <1>1, <1>8 DEF IInv, Walking

LEMMA StepVisit ==
  ASSUME IInv, Visit
  PROVE  IInv'
<1>1. Tree(built) /\ built' = built /\ visited' = Append(visited, at) /\ loop' = "visit"
      /\ curr' = curr /\ at' = links[at].r /\ prev' = at /\ links' = WithRight(links, at, prev)
  BY DEF IInv, Visit, SetRight, WithRight
<1>2. PICK c \in Places(built) : \E j : Visiting(c, j)
  BY DEF IInv, Walking, Visit, Over, Done, First, Back, SeekFirst, SeekBack, Reversing
<1>3. PICK j : Visiting(c, j)
  BY <1>2
<1>4. Left(built, c) # 0 /\ at # Null /\ j \in Thread(built, c)..(Left(built, c) + 1)
  BY <1>3 DEF Visiting, Visit
<1>5. /\ Left(built, c) \in Places(built) /\ Left(built, c) \in Nat
      /\ Thread(built, c) \in Nat /\ Thread(built, c) <= Left(built, c)
      /\ IsBottom(built, Left(built, c), Thread(built, c))
  BY <1>1, <1>4, TopLaid, ThreadOf DEF Places
<1>6. j - 1 # Left(built, c) /\ at = At(built, j)
  <2>1. j - 1 # Left(built, c) /\ (j - 1) + 1 = j
    BY <1>3, <1>4, <1>5 DEF Visiting, Turned
  <2> QED BY <2>1, <1>3 DEF Visiting, Turned
<1>7. j \in Thread(built, c)..Left(built, c) /\ j \in Places(built) /\ j \in Nat
      /\ j \in j..Left(built, c) /\ j <= Left(built, c)
  BY <1>1, <1>4, <1>5, <1>6, TopLaid, ThreadOf DEF Places
<1>8. \A x \in Open(built, c) : Thread(built, x) # j
  BY <1>1, <1>4, <1>7, NoThreadBelow
<1>9. prev = built[At(built, j)].r
  <2>1. CASE j = Thread(built, c)
    BY <2>1, <1>3, <1>5 DEF IsBottom, HasRight, Visiting
  <2>2. CASE j # Thread(built, c)
    <3>1. j \in (Thread(built, c) + 1)..Left(built, c)
      BY <2>2, <1>5, <1>7
    <3>2. HasRight(built, j)
      BY <3>1, <1>5 DEF IsBottom
    <3> QED BY <2>2, <3>2, <1>1, <1>3, <1>7, PlacesLaid DEF Laid, Visiting
  <2> QED BY <2>1, <2>2
<1>10. links[at].r = Turned(built, j, Left(built, c))
  BY <1>3, <1>6, <1>7 DEF Visiting, Linked
<1>11. Linked(links', built, Open(built, c), j + 1, Left(built, c))
  BY <1>1, <1>3, <1>5, <1>6, <1>7, <1>8, <1>9, OpenThreaded, LinkTurnedBack DEF Visiting
<1>12. /\ j + 1 \in Thread(built, c)..(Left(built, c) + 1) /\ j + 1 # Thread(built, c)
       /\ (j + 1) - 1 = j
  BY <1>5, <1>7
<1>13. visited' \in Seq(Held) /\ Len(visited') = j /\ \A i \in 1..j : visited'[i] = At(built, i)
  <2>1. visited \in Seq(Held) /\ Len(visited) = j - 1 /\ \A i \in 1..(j - 1) : visited[i] = At(built, i)
    BY <1>3 DEF Visiting, InOrder
  <2>2. At(built, j) \in Held
    BY <1>1, <1>7, PlaceNotNull
  <2>3. visited' = Append(visited, At(built, j))
    BY <1>1, <1>6
  <2>4. visited' \in Seq(Held) /\ Len(visited') = j
    BY <2>1, <2>2, <2>3, <1>7
  <2>5. ASSUME NEW i \in 1..j PROVE visited'[i] = At(built, i)
    <3>1. CASE i = j
      BY <3>1, <2>1, <2>2, <2>3, <1>7
    <3>2. CASE i # j
      <4>1. i \in 1..(j - 1)
        BY <3>2, <1>7
      <4>2. visited'[i] = visited[i]
        BY <4>1, <2>1, <2>2, <2>3
      <4> QED BY <4>1, <4>2, <2>1
    <3> QED BY <3>1, <3>2
  <2> QED BY <2>4, <2>5
<1>14. InOrder((j + 1) - 1)'
  BY <1>1, <1>12, <1>13 DEF InOrder
<1>15. Visiting(c, j + 1)'
  BY <1>1, <1>3, <1>6, <1>10, <1>11, <1>12, <1>14 DEF Visiting
<1> QED BY <1>1, <1>15 DEF IInv, Walking

LEMMA StepVisited ==
  ASSUME IInv, Visited
  PROVE  IInv'
<1>1. Tree(built) /\ built' = built /\ visited' = visited /\ loop' = "walk"
      /\ curr' = links[curr].r /\ links' = links
  BY DEF IInv, Visited
<1>2. PICK c \in Places(built) : \E j : Visiting(c, j)
  BY DEF IInv, Walking, Visited, Over, Done, First, Back, SeekFirst, SeekBack, Reversing
<1>3. PICK j : Visiting(c, j)
  BY <1>2
<1>4. Left(built, c) # 0 /\ at = Null /\ j \in Thread(built, c)..(Left(built, c) + 1)
      /\ curr = At(built, c)
  BY <1>3 DEF Visiting, Visited
<1>5. /\ Left(built, c) \in Places(built) /\ Left(built, c) \in Nat
      /\ Thread(built, c) \in Nat /\ Thread(built, c) >= 1 /\ Thread(built, c) <= Left(built, c)
  BY <1>1, <1>4, TopLaid, ThreadOf DEF Places
<1>6. j = Left(built, c) + 1
  <2>1. SUFFICES ASSUME j # Left(built, c) + 1 PROVE FALSE
    OBVIOUS
  <2>2. j \in Places(built) /\ j - 1 # Left(built, c) /\ (j - 1) + 1 = j
    BY <1>1, <1>4, <1>5, <2>1, TopLaid DEF Places
  <2>3. at = At(built, j)
    BY <1>3, <2>2 DEF Visiting, Turned
  <2> QED BY <1>1, <1>4, <2>2, <2>3, PlaceNotNull
<1>7. j - 1 = Left(built, c)
  BY <1>5, <1>6
<1>8. Linked(links, built, Open(built, c), 1, 0)
  BY <1>3, <1>5, <1>6, LinkedNone DEF Visiting
<1>9. InOrder(Left(built, c)) /\ Laid(built, c)
  BY <1>1, <1>3, <1>7, PlacesLaid DEF Visiting
<1>10. CASE HasRight(built, c) /\ links[At(built, c)].r = At(built, c - 1)
  <2>1. /\ c - 1 \in Places(built) /\ Open(built, c - 1) = Open(built, c)
        /\ Start(built, c - 1) = Left(built, c)
    BY <1>1, <1>4, <1>9, <1>10, OpenRight DEF Laid
  <2>2. First(c - 1)'
    BY <1>1, <1>4, <1>8, <1>9, <1>10, <2>1 DEF First, InOrder
  <2> QED BY <1>1, <2>1, <2>2 DEF IInv, Walking
<1>11. CASE c = Top(built) /\ links[At(built, c)].r = Null /\ Open(built, c) = {}
  <2>1. Left(built, c) = Top(built) - 1
    BY <1>1, <1>11, TopLaid
  <2>2. Over'
    BY <1>1, <1>4, <1>8, <1>9, <1>11, <2>1 DEF Over, InOrder
  <2> QED BY <1>1, <2>2 DEF IInv
<1>12. CASE ~HasRight(built, c)
            /\ \E x \in Places(built) :
                 /\ Left(built, x) # 0 /\ Thread(built, x) = c
                 /\ links[At(built, c)].r = At(built, x)
                 /\ Open(built, c) = Open(built, x) \cup {x}
  <2>1. PICK x \in Places(built) : /\ Left(built, x) # 0 /\ Thread(built, x) = c
                                   /\ links[At(built, c)].r = At(built, x)
                                   /\ Open(built, c) = Open(built, x) \cup {x}
    BY <1>12
  <2>2. Left(built, c) = Thread(built, x) - 1
    BY <1>4, <1>9, <1>12, <2>1 DEF Laid
  <2>3. Back(x)'
    BY <1>1, <1>4, <1>8, <1>9, <2>1, <2>2 DEF Back, InOrder
  <2> QED BY <1>1, <2>3 DEF IInv, Walking
<1> QED BY <1>1, <1>8, <1>10, <1>11, <1>12, RightOf

LEMMA StepEnd ==
  ASSUME IInv, End
  PROVE  IInv'
<1>1. Tree(built) /\ built' = built /\ visited' = visited /\ loop' = "done" /\ links' = links
      /\ curr = Null /\ loop = "walk"
  BY DEF IInv, End
<1>2. ~\E c \in Places(built) : Walking(c)
  <2>1. SUFFICES ASSUME NEW c \in Places(built), Walking(c) PROVE FALSE
    OBVIOUS
  <2>2. curr = At(built, c)
    BY <2>1 DEF Walking, First, Back, SeekFirst, SeekBack, Reversing, Visiting
  <2> QED BY <1>1, <2>2, PlaceNotNull
<1>3. Over
  BY <1>1, <1>2 DEF IInv, Done
<1>4. Done'
  BY <1>1, <1>3 DEF Over, Done, InOrder
<1> QED BY <1>1, <1>4 DEF IInv

LEMMA StepNone ==
  ASSUME IInv, UNCHANGED vars
  PROVE  IInv'
<1>1. /\ Over' <=> Over
      /\ Done' <=> Done
      /\ Places(built)' = Places(built)
  BY DEF vars, Over, Done, InOrder
<1>2. ASSUME NEW c, Walking(c) PROVE Walking(c)'
  <2>1. First(c) => First(c)'
    BY DEF vars, First, InOrder
  <2>2. Back(c) => Back(c)'
    BY DEF vars, Back, InOrder
  <2>3. ASSUME NEW p PROVE /\ SeekFirst(c, p) => SeekFirst(c, p)'
                           /\ SeekBack(c, p) => SeekBack(c, p)'
    BY DEF vars, SeekFirst, SeekBack, InOrder
  <2>4. ASSUME NEW j PROVE /\ Reversing(c, j) => Reversing(c, j)'
                           /\ Visiting(c, j) => Visiting(c, j)'
    BY DEF vars, Reversing, Visiting, InOrder
  <2> QED BY <1>2, <2>1, <2>2, <2>3, <2>4 DEF Walking
<1>3. Tree(built)'
  BY DEF IInv, vars
<1> QED BY <1>1, <1>2, <1>3 DEF IInv

-----------------------------------------------------------------------------
\* the trees that are walked: bottom up interned, and no node in two places
AllTrees == \A t \in Tables : ChildrenFirst(t) /\ Unshared(WithDummy(t))

LEMMA InitWalks ==
  ASSUME AllTrees, Init
  PROVE  IInv
<1>1. PICK t \in Tables : built = WithDummy(t)
  BY DEF Init
<1>2. ChildrenFirst(built)
  <2>1. \A n \in Nodes : built[n] = t[n]
    BY <1>1, NodesAssumption DEF WithDummy
  <2>2. ChildrenFirst(t)
    BY DEF AllTrees
  <2> QED BY <2>1, <2>2 DEF ChildrenFirst
<1>3. Tree(built)
  BY <1>1, <1>2 DEF Tree, AllTrees
<1>4. /\ Top(built) \in Places(built) /\ Start(built, Top(built)) = 0
      /\ At(built, Top(built)) = Dummy /\ Open(built, Top(built)) = {}
  BY <1>3, TopLaid, OpenTop
<1>5. InOrder(0)
  BY DEF Init, InOrder
<1>6. Linked(links, built, {}, 1, 0)
  BY <1>3, LinkedFirst DEF Init
<1>7. First(Top(built))
  BY <1>4, <1>5, <1>6 DEF Init, First
<1> QED BY <1>3, <1>4, <1>7 DEF IInv, Walking

LEMMA DoneInOrder ==
  ASSUME IInv
  PROVE  AsPostOrder
<1>1. SUFFICES ASSUME loop = "done" PROVE visited = PostOrder(built, Root) /\ links = built
  BY DEF AsPostOrder
<1>2. Tree(built) /\ Done
  BY <1>1 DEF IInv, Walking, Over, First, Back, SeekFirst, SeekBack, Reversing, Visiting
<1>3. links = built
  BY <1>2, LinkedLast DEF Done
<1> DEFINE w == PostOrder(built, Root)
<1>4. w \in Seq(Held) /\ Order(built, Dummy) = w \o <<Dummy>> /\ Dummy \in Held
  <2>1. w \in Seq(Nodes)
    BY <1>2, PostOrderStep, NodesAssumption
  <2>2. Seq(Nodes) \subseteq Seq(Held)
    BY DEF Held
  <2> QED BY <2>1, <2>2 DEF Order, Held
<1> HIDE DEF w
<1>5. Top(built) - 1 = Len(w) /\ \A i \in 1..Len(w) : At(built, i) = w[i]
  BY <1>4 DEF Top, Size, At
<1>6. visited \in Seq(Held) /\ Len(visited) = Len(w) /\ \A i \in 1..Len(w) : visited[i] = w[i]
  BY <1>2, <1>5 DEF Done, InOrder
<1>7. visited = w
  BY <1>4, <1>6
<1> QED BY <1>3, <1>7 DEF w

(***************************************************************************)
(* For every set of unshared trees, whatever their size and shape, the     *)
(* walk without a stack calls its visitor with the nodes in the order of   *)
(* the recursion, and when it ends no link of the shared table is changed  *)
(* (morris_post_order::traverse and traverse_right_list).                  *)
(***************************************************************************)
THEOREM WalksInOrder ==
  ASSUME AllTrees
  PROVE  Spec => []AsPostOrder
<1>1. Init => IInv
  BY InitWalks
<1>2. IInv /\ [Next]_vars => IInv'
  BY StepGoRight, StepLookForPredecessor, StepSeek, StepWriteThread, StepCutThread, StepReverse,
     StepReversed, StepVisit, StepVisited, StepEnd, StepNone DEF Next
<1>3. IInv => AsPostOrder
  BY DoneInOrder
<1> QED BY <1>1, <1>2, <1>3, PTL DEF Spec
=============================================================================
