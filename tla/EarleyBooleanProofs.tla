------------------------- MODULE EarleyBooleanProofs --------------------------
(***************************************************************************)
(* Proofs about EarleyBoolean: the types of the chart and of what is kept  *)
(* to take items back, and that what was taken back stays out.             *)
(***************************************************************************)
EXTENDS EarleyBoolean, TLAPS, FiniteSetTheorems, WellFoundedInduction

\* the items that are well formed for the grammar and the input
Universe ==
  {x \in [prod : DOMAIN gram.prods, con : Nat, from : Nat, set : Nat, dot : Nat] : IsItem(x)}

Keys == {Key(x) : x \in Universe}

\* the item whose scan gives x
Back(x) == [x EXCEPT !.dot = @ - 1, !.set = @ - 1]

InputInv == gram \in Grammars /\ word \in Words /\ n \in 0..Len(word)

ItemsInv == S \cup U \cup t \cup c \cup parked \cup counted \subseteq Universe

\* what a round still has to do is in the chart, and so is what it need not
\* take up again, as long as nothing was retracted since it began
RoundInv ==
  /\ snapshot \subseteq {x \in S : x.set = n} /\ (pc # "process" => snapshot = {})
  /\ ~full => done \subseteq {x \in S : x.set = n}
  /\ pc = "groups" => t = {}
  /\ pc \in {"advance", "done"} => t = {} /\ c = {}

\* what waits has a literal to wait for
WaitInv == \A w \in cache : ~Completed(w)

\* an origin belongs to the position; only a scan leads out of it
OriginInv ==
  /\ forward \subseteq Universe \X Universe
  /\ \A d \in forward :
       /\ d[1].set = n /\ ~Completed(d[1])
       /\ d[2].set = n \/ (d[2].set = n + 1 /\ d[1] = Back(d[2]))
  /\ deps \subseteq Keys \X Universe
  /\ \A d \in deps : d[2].set = n

\* with an item of the next position its scanned item was retracted
ScannedInv == \A y \in U : y.set = n + 1 => Back(y) \in U /\ ~Completed(Back(y))

IInv == TypeOK /\ InputInv /\ ItemsInv /\ RoundInv /\ WaitInv /\ OriginInv
          /\ ScannedInv /\ RetractedStaysOut

-------------------------------------------------------------------------------
(***************************************************************************)
(* The number of steps that Retracted takes is a number: the items of one  *)
(* grammar and one input are finitely many.                                *)
(***************************************************************************)
LEMMA FiniteImage ==
  ASSUME NEW A, IsFiniteSet(A), NEW f
  PROVE  IsFiniteSet({f[a] : a \in A})
<1> DEFINE B == {f[a] : a \in A}
           h == [a \in A |-> f[a]]
<1>1. h \in Surjection(A, B)
  BY DEF Surjection
<1> QED
  BY <1>1, FS_Surjection DEF ExistsSurjection

LEMMA SeqFacts ==
  \A Z, s : s \in Seq(Z) => /\ Len(s) \in Nat /\ DOMAIN s = 1..Len(s)
                            /\ \A d \in DOMAIN s : s[d] \in Z
OBVIOUS

LEMMA GrammarFacts ==
  ASSUME NEW g \in Grammars
  PROVE  /\ g.prods \in Seq([head : g.nts, conjs : Seq(Conjuncts(g))])
         /\ DOMAIN g.prods = 1..Len(g.prods) /\ Len(g.prods) \in Nat
         /\ \A p \in DOMAIN g.prods :
              LET cs == g.prods[p].conjs
              IN  /\ g.prods[p].head \in g.nts
                  /\ DOMAIN cs = 1..Len(cs) /\ Len(cs) \in Nat
                  /\ \A k \in DOMAIN cs :
                       /\ cs[k].neg \in BOOLEAN /\ Len(cs[k].body) \in Nat
                       /\ DOMAIN cs[k].body = 1..Len(cs[k].body)
                       /\ \A d \in DOMAIN cs[k].body :
                            cs[k].body[d] \in g.nts \cup Chars \cup {Null}
<1>1. g.prods \in Seq([head : g.nts, conjs : Seq(Conjuncts(g))])
  BY InputAssumption DEF IsGrammar
<1>2. DOMAIN g.prods = 1..Len(g.prods) /\ Len(g.prods) \in Nat
  BY <1>1
<1>3. ASSUME NEW p \in DOMAIN g.prods
      PROVE  LET cs == g.prods[p].conjs
             IN  /\ g.prods[p].head \in g.nts
                 /\ DOMAIN cs = 1..Len(cs) /\ Len(cs) \in Nat
                 /\ \A k \in DOMAIN cs :
                      /\ cs[k].neg \in BOOLEAN /\ Len(cs[k].body) \in Nat
                      /\ DOMAIN cs[k].body = 1..Len(cs[k].body)
                      /\ \A d \in DOMAIN cs[k].body :
                           cs[k].body[d] \in g.nts \cup Chars \cup {Null}
  <2> DEFINE cs == g.prods[p].conjs
  <2>1. g.prods[p] \in [head : g.nts, conjs : Seq(Conjuncts(g))]
    BY <1>1, <1>3, SeqFacts, Zenon
  <2>2. g.prods[p].head \in g.nts /\ cs \in Seq(Conjuncts(g))
    BY <2>1
  <2>3. DOMAIN cs = 1..Len(cs) /\ Len(cs) \in Nat
    BY <2>2
  <2>4. ASSUME NEW k \in DOMAIN cs
        PROVE  /\ cs[k].neg \in BOOLEAN /\ Len(cs[k].body) \in Nat
               /\ DOMAIN cs[k].body = 1..Len(cs[k].body)
               /\ \A d \in DOMAIN cs[k].body :
                    cs[k].body[d] \in g.nts \cup Chars \cup {Null}
    <3>1. cs[k] \in Conjuncts(g)
      BY <2>2, <2>3, <2>4
    <3>2. cs[k].neg \in BOOLEAN /\ cs[k].body \in Seq(g.nts \cup Chars \cup {Null})
      BY <3>1 DEF Conjuncts
    <3> QED
      BY <3>2, SeqFacts, Zenon
  <2> QED
    BY <2>2, <2>3, <2>4
<1> QED
  BY <1>1, <1>2, <1>3

LEMMA UniverseFinite ==
  ASSUME InputInv
  PROVE  IsFiniteSet(Universe) /\ IsFiniteSet(Keys)
<1> DEFINE ps == gram.prods
           L == Len(word)
           dots(p, k) == 0..Len(ps[p].conjs[k].body)
           places(p, k) == ((0..L) \X (0..L)) \X dots(p, k)
           at(p, k) == [z \in places(p, k) |-> Item(p, k, z[1][1], z[1][2], z[2])]
           ofConj(p, k) == {at(p, k)[z] : z \in places(p, k)}
           byConj(p) == [k \in DOMAIN ps[p].conjs |-> ofConj(p, k)]
           ofProd(p) == UNION {byConj(p)[k] : k \in DOMAIN ps[p].conjs}
           byProd == [p \in DOMAIN ps |-> ofProd(p)]
           all == UNION {byProd[p] : p \in DOMAIN ps}
<1>1. gram \in Grammars /\ L \in Nat
  BY InputAssumption DEF InputInv
<1>2. ASSUME NEW p \in DOMAIN ps, NEW k \in DOMAIN ps[p].conjs
      PROVE  IsFiniteSet(ofConj(p, k))
  <2>1. Len(ps[p].conjs[k].body) \in Nat
    BY <1>1, <1>2, GrammarFacts
  <2>2. IsFiniteSet(0..L) /\ IsFiniteSet(dots(p, k))
    BY <1>1, <2>1, FS_Interval
  <2>3. IsFiniteSet((0..L) \X (0..L))
    BY <2>2, FS_Product
  <2>4. IsFiniteSet(places(p, k))
    BY <2>2, <2>3, FS_Product
  <2> HIDE DEF places, at
  <2> QED
    BY <2>4, FiniteImage, Zenon
<1>3. ASSUME NEW p \in DOMAIN ps
      PROVE  IsFiniteSet(ofProd(p))
  <2>1. IsFiniteSet(DOMAIN ps[p].conjs)
    <3>1. DOMAIN ps[p].conjs = 1..Len(ps[p].conjs) /\ Len(ps[p].conjs) \in Nat
      BY <1>1, <1>3, GrammarFacts, Zenon
    <3> QED BY <3>1, FS_Interval
  <2>2. IsFiniteSet({byConj(p)[k] : k \in DOMAIN ps[p].conjs})
    BY <2>1, FiniteImage
  <2>3. \A A \in {byConj(p)[k] : k \in DOMAIN ps[p].conjs} : IsFiniteSet(A)
    BY <1>2, <1>3
  <2> QED
    BY <2>2, <2>3, FS_UNION
<1>4. IsFiniteSet(all)
  <2>1. IsFiniteSet(DOMAIN ps)
    <3>1. DOMAIN ps = 1..Len(ps) /\ Len(ps) \in Nat
      BY <1>1, GrammarFacts, Zenon
    <3> QED BY <3>1, FS_Interval
  <2>2. IsFiniteSet({byProd[p] : p \in DOMAIN ps})
    BY <2>1, FiniteImage
  <2>3. \A A \in {byProd[p] : p \in DOMAIN ps} : IsFiniteSet(A)
    BY <1>3
  <2> QED
    BY <2>2, <2>3, FS_UNION
<1>5. ASSUME NEW x \in Universe
      PROVE  x \in all
  <2>1. /\ x.prod \in DOMAIN ps /\ x.con \in DOMAIN ps[x.prod].conjs
        /\ x.set \in 0..L /\ x.from \in 0..L /\ x.dot \in dots(x.prod, x.con)
        /\ x \in [prod : DOMAIN gram.prods, con : Nat, from : Nat, set : Nat, dot : Nat]
    BY <1>1, <1>5 DEF Universe, IsItem, Conjunct
  <2> DEFINE z == <<<<x.from, x.set>>, x.dot>>
  <2>2. z \in places(x.prod, x.con)
    BY <2>1
  <2>3. x = at(x.prod, x.con)[z]
    <3>1. at(x.prod, x.con)[z] = Item(x.prod, x.con, x.from, x.set, x.dot)
      BY <2>2
    <3>2. x = Item(x.prod, x.con, x.from, x.set, x.dot)
      BY <2>1 DEF Item
    <3> QED
      BY <3>1, <3>2
  <2>4. x \in ofConj(x.prod, x.con)
    BY <2>2, <2>3
  <2>5. x \in byProd[x.prod]
    <3>1. ofConj(x.prod, x.con) = byConj(x.prod)[x.con]
      BY <2>1
    <3>2. x \in ofProd(x.prod)
      BY <2>1, <2>4, <3>1
    <3> HIDE DEF ofProd
    <3> QED BY <2>1, <3>2
  <2> QED
    BY <2>1, <2>5
<1>6. IsFiniteSet(Universe)
  BY <1>4, <1>5, FS_Subset
<1>7. IsFiniteSet({[z \in Universe |-> Key(z)][x] : x \in Universe})
  BY <1>6, FiniteImage
<1>8. {[z \in Universe |-> Key(z)][x] : x \in Universe} = Keys
  BY DEF Keys
<1> QED
  BY <1>6, <1>7, <1>8

LEMMA EnoughSteps ==
  ASSUME InputInv, OriginInv
  PROVE  Cardinality(forward) + Cardinality(deps) \in Nat
<1>1. IsFiniteSet(Universe \X Universe) /\ IsFiniteSet(Keys \X Universe)
  BY UniverseFinite, FS_Product
<1>2. IsFiniteSet(forward) /\ IsFiniteSet(deps)
  BY <1>1, FS_Subset DEF OriginInv
<1> QED
  BY <1>2, FS_CardinalityType
-------------------------------------------------------------------------------
(***************************************************************************)
(* Induction over the natural numbers, for a set, and from it that a       *)
(* recursive function has the value of its definition.                     *)
(***************************************************************************)
Below == {r \in Nat \X Nat : r[1] < r[2]}

LEMMA NatSetInduction ==
  ASSUME NEW N, 0 \in N, \A k \in Nat : k \in N => k + 1 \in N
  PROVE  Nat \subseteq N
<1>1. IsWellFoundedOn(Below, Nat)
  BY NatLessThanWellFounded, Zenon DEF OpToRel, Below
<1>2. SUFFICES ASSUME Nat \ N # {} PROVE FALSE
  OBVIOUS
<1>3. Nat \ N \subseteq Nat
  OBVIOUS
<1>4. PICK m \in Nat \ N : \A k \in Nat \ N : ~(<<k, m>> \in Below)
  BY <1>1, <1>2, <1>3, WFMin, Zenon
<1>5. m \in Nat /\ m # 0 /\ m - 1 \in Nat /\ m - 1 < m /\ (m - 1) + 1 = m
  BY <1>4
<1>6. <<m - 1, m>> \in Below
  BY <1>5 DEF Below
<1> QED
  BY <1>4, <1>5, <1>6

\* h holds the first k values of the iteration of step from first
Iterates(h, k, first, step) ==
  h[0] = first /\ \A i \in 1..k : h[i] = step[h[i-1]]

IteratedBy(f, T, step, first) ==
  f \in [Nat -> T] /\ f[0] = first /\ \A k \in Nat : f[k+1] = step[f[k]]

LEMMA Iteration ==
  ASSUME NEW T, NEW step, step \in [T -> T], NEW first, first \in T
  PROVE  \E f : IteratedBy(f, T, step, first)
<1> DEFINE Its(k) == {h \in [0..k -> T] : Iterates(h, k, first, step)}
           some == {k \in Nat : Its(k) # {}}
           f == [k \in Nat |-> (CHOOSE h \in Its(k) : TRUE)[k]]
<1>1. Nat \subseteq some
  <2>1. 0 \in some
    <3>1. [i \in 0..0 |-> first] \in Its(0)
      BY DEF Iterates
    <3> QED BY <3>1
  <2>2. ASSUME NEW k \in Nat, k \in some PROVE k + 1 \in some
    <3>1. PICK h \in [0..k -> T] : Iterates(h, k, first, step)
      BY <2>2
    <3> DEFINE h1 == [i \in 0..(k+1) |-> IF i <= k THEN h[i] ELSE step[h[k]]]
    <3>2. h1 \in [0..(k+1) -> T]
      BY <2>2, <3>1
    <3>3. h1[0] = first
      BY <2>2, <3>1 DEF Iterates
    <3>4. ASSUME NEW i \in 1..(k+1) PROVE h1[i] = step[h1[i-1]]
      BY <2>2, <3>1, <3>4 DEF Iterates
    <3>5. Iterates(h1, k + 1, first, step)
      BY <3>3, <3>4 DEF Iterates
    <3> QED BY <2>2, <3>2, <3>5
  <2> QED BY <2>1, <2>2, NatSetInduction
<1>2. ASSUME NEW k \in Nat PROVE (CHOOSE h \in Its(k) : TRUE) \in Its(k)
  <2>1. Its(k) # {}
    BY <1>1, <1>2
  <2> QED BY <2>1
<1>3. ASSUME NEW k \in Nat, NEW g \in Its(k), NEW h \in Its(k + 1)
      PROVE  g[k] = h[k]
  <2> DEFINE same == {i \in Nat : i <= k => g[i] = h[i]}
  <2>1. 0 \in same
    BY <1>3 DEF Iterates
  <2>2. ASSUME NEW i \in Nat, i \in same PROVE i + 1 \in same
    <3>1. SUFFICES ASSUME i + 1 <= k PROVE g[i + 1] = h[i + 1]
      BY <2>2
    <3>2. i + 1 \in 1..k /\ i + 1 \in 1..(k+1) /\ (i + 1) - 1 = i /\ g[i] = h[i]
      BY <2>2, <3>1, <1>3
    <3>3. g[i + 1] = step[g[(i+1)-1]] /\ h[i + 1] = step[h[(i+1)-1]]
      BY <1>3, <3>2 DEF Iterates
    <3> QED BY <3>2, <3>3
  <2>3. Nat \subseteq same
    <3> HIDE DEF same
    <3> QED BY <2>1, <2>2, NatSetInduction
  <2> QED BY <1>3, <2>3
<1>4. f \in [Nat -> T]
  BY <1>2
<1>5. f[0] = first
  BY <1>2 DEF Iterates
<1>6. ASSUME NEW k \in Nat PROVE f[k+1] = step[f[k]]
  <2> DEFINE g == CHOOSE h \in Its(k) : TRUE
             h == CHOOSE h \in Its(k + 1) : TRUE
  <2>1. g \in Its(k) /\ h \in Its(k + 1)
    BY <1>2, <1>6
  <2>2. f[k] = g[k] /\ f[k+1] = h[k+1]
    BY <1>6
  <2>3. g[k] = h[k]
    <3> HIDE DEF g, h, Its
    <3> QED BY <1>3, <1>6, <2>1
  <2>4. h[k+1] = step[h[k]]
    <3>1. Iterates(h, k + 1, first, step) /\ k + 1 \in 1..(k+1) /\ (k + 1) - 1 = k
      BY <1>6, <2>1
    <3> QED BY <3>1 DEF Iterates
  <2> QED BY <2>2, <2>3, <2>4
<1> QED
  BY <1>4, <1>5, <1>6 DEF IteratedBy
-------------------------------------------------------------------------------
(***************************************************************************)
(* Items: moving the dot and the position keeps an item well formed.       *)
(***************************************************************************)
LEMMA ItemFacts ==
  ASSUME InputInv, NEW x \in Universe
  PROVE  /\ x \in [prod : DOMAIN gram.prods, con : Nat, from : Nat, set : Nat, dot : Nat]
         /\ IsItem(x) /\ Len(Conjunct(x).body) \in Nat /\ Nt(x) \in gram.nts
         /\ x.set \in 0..Len(word) /\ x.from \in 0..x.set
         /\ x.dot \in 0..Len(Conjunct(x).body)
         /\ ~Completed(x) => /\ x.dot + 1 \in 1..Len(Conjunct(x).body)
                             /\ Lit(x) \in gram.nts \cup Chars \cup {Null}
<1>1. /\ x \in [prod : DOMAIN gram.prods, con : Nat, from : Nat, set : Nat, dot : Nat]
      /\ IsItem(x) /\ gram \in Grammars /\ Len(word) \in Nat
  BY InputAssumption DEF Universe, InputInv
<1>2. x.prod \in DOMAIN gram.prods /\ x.con \in DOMAIN gram.prods[x.prod].conjs
  BY <1>1 DEF IsItem
<1>3. /\ Len(Conjunct(x).body) \in Nat /\ Nt(x) \in gram.nts
      /\ DOMAIN Conjunct(x).body = 1..Len(Conjunct(x).body)
      /\ \A d \in DOMAIN Conjunct(x).body :
           Conjunct(x).body[d] \in gram.nts \cup Chars \cup {Null}
  BY <1>1, <1>2, GrammarFacts, Zenon DEF Conjunct, Nt
<1>4. /\ x.set \in 0..Len(word) /\ x.from \in 0..x.set
      /\ x.dot \in 0..Len(Conjunct(x).body)
  BY <1>1 DEF IsItem
<1>5. ~Completed(x) => x.dot + 1 \in 1..Len(Conjunct(x).body)
  BY <1>3, <1>4 DEF Completed
<1> QED
  BY <1>1, <1>3, <1>4, <1>5 DEF Lit

LEMMA AdvancedItem ==
  ASSUME NEW P, NEW x \in [prod : P, con : Nat, from : Nat, set : Nat, dot : Nat], NEW i
  PROVE  /\ x = Item(x.prod, x.con, x.from, x.set, x.dot)
         /\ Advance(x, i) = Item(x.prod, x.con, x.from, i, x.dot + 1)
         /\ Back(x) = Item(x.prod, x.con, x.from, x.set - 1, x.dot - 1)
<1>1. x = Item(x.prod, x.con, x.from, x.set, x.dot)
  BY DEF Item
<1>2. ASSUME NEW s, NEW d
      PROVE  [x EXCEPT !.dot = d, !.set = s] = Item(x.prod, x.con, x.from, s, d)
  <2>1. [x EXCEPT !.dot = d] = Item(x.prod, x.con, x.from, x.set, d)
    BY DEF Item
  <2>2. [Item(x.prod, x.con, x.from, x.set, d) EXCEPT !.set = s]
          = Item(x.prod, x.con, x.from, s, d)
    BY DEF Item
  <2>3. [x EXCEPT !.dot = d, !.set = s] = [[x EXCEPT !.dot = d] EXCEPT !.set = s]
    OBVIOUS
  <2> QED
    BY <2>1, <2>2, <2>3
<1> QED
  BY <1>1, <1>2, Zenon DEF Advance, Back

LEMMA AdvanceFacts ==
  ASSUME InputInv, NEW x \in Universe, ~Completed(x), NEW i \in x.set..Len(word)
  PROVE  Advance(x, i) \in Universe /\ Advance(x, i).set = i /\ Advance(x, i).prod = x.prod
<1>1. /\ x \in [prod : DOMAIN gram.prods, con : Nat, from : Nat, set : Nat, dot : Nat]
      /\ x.set \in 0..Len(word) /\ x.from \in 0..x.set /\ Len(word) \in Nat
      /\ Len(Conjunct(x).body) \in Nat /\ x.dot + 1 \in 0..Len(Conjunct(x).body)
      /\ IsItem(x)
  BY ItemFacts, InputAssumption DEF InputInv
<1> DEFINE y == Advance(x, i)
<1>2. /\ y \in [prod : DOMAIN gram.prods, con : Nat, from : Nat, set : Nat, dot : Nat]
      /\ y.prod = x.prod /\ y.con = x.con /\ y.from = x.from /\ y.set = i
      /\ y.dot = x.dot + 1
  <2>1. i \in Nat /\ x.dot + 1 \in Nat
    BY <1>1
  <2>2. y = Item(x.prod, x.con, x.from, i, x.dot + 1)
    BY <1>1, AdvancedItem
  <2> QED
    BY <1>1, <2>1, <2>2 DEF Item
<1>3. Conjunct(y) = Conjunct(x)
  BY <1>2 DEF Conjunct
<1>4. IsItem(y)
  BY <1>1, <1>2, <1>3 DEF IsItem
<1> QED
  BY <1>2, <1>4 DEF Universe

LEMMA SkipFacts ==
  ASSUME InputInv, NEW x \in Universe, NEW k \in 0..(Len(Conjunct(x).body) - x.dot)
  PROVE  Skip(x, k) \in Universe /\ Skip(x, k).set = x.set
<1>1. /\ x \in [prod : DOMAIN gram.prods, con : Nat, from : Nat, set : Nat, dot : Nat]
      /\ x.set \in 0..Len(word) /\ x.from \in 0..x.set /\ Len(word) \in Nat
      /\ Len(Conjunct(x).body) \in Nat /\ x.dot + k \in 0..Len(Conjunct(x).body)
      /\ IsItem(x)
  BY ItemFacts, InputAssumption DEF InputInv
<1> DEFINE y == Skip(x, k)
<1>2. /\ y \in [prod : DOMAIN gram.prods, con : Nat, from : Nat, set : Nat, dot : Nat]
      /\ y.prod = x.prod /\ y.con = x.con /\ y.from = x.from /\ y.set = x.set
      /\ y.dot = x.dot + k
  BY <1>1 DEF Skip
<1>3. Conjunct(y) = Conjunct(x)
  BY <1>2 DEF Conjunct
<1>4. IsItem(y)
  BY <1>1, <1>2, <1>3 DEF IsItem
<1> QED
  BY <1>2, <1>4 DEF Universe

LEMMA BackOfScanned ==
  ASSUME InputInv, NEW x \in Universe
  PROVE  Back(Advance(x, x.set + 1)) = x
<1>1. /\ x \in [prod : DOMAIN gram.prods, con : Nat, from : Nat, set : Nat, dot : Nat]
  BY ItemFacts
<1> DEFINE y == Item(x.prod, x.con, x.from, x.set + 1, x.dot + 1)
<1>2. Advance(x, x.set + 1) = y
  BY <1>1, AdvancedItem
<1>3. /\ y \in [prod : DOMAIN gram.prods, con : Nat, from : Nat, set : Nat, dot : Nat]
      /\ y.prod = x.prod /\ y.con = x.con /\ y.from = x.from
      /\ y.set = x.set + 1 /\ y.dot = x.dot + 1
  BY <1>1 DEF Item
<1>4. Back(y) = Item(x.prod, x.con, x.from, (x.set + 1) - 1, (x.dot + 1) - 1)
  BY <1>3, AdvancedItem, Zenon
<1>5. (x.set + 1) - 1 = x.set /\ (x.dot + 1) - 1 = x.dot
  BY <1>1
<1> QED
  BY <1>1, <1>2, <1>4, <1>5, AdvancedItem

\* add() adds well formed items that are neither retracted nor known
LEMMA AddedFacts ==
  ASSUME InputInv, NEW X, X \subseteq Universe
  PROVE  \A y \in AddedAll(X) : /\ y \in Universe /\ y \notin U
                                /\ \E x \in X : y.set = x.set
<1>1. ASSUME NEW x \in X, NEW y \in Added(x)
      PROVE  y \in Universe /\ y \notin U /\ y.set = x.set
  <2>1. PICK m \in 0..(Len(Conjunct(x).body) - x.dot) :
          y = Skip(x, m) /\ \A q \in 0..m : ~Known(Skip(x, q))
    BY <1>1 DEF Added
  <2>2. m \in 0..m
    BY <2>1
  <2> QED
    BY <2>1, <2>2, SkipFacts DEF Known
<1> QED
  BY <1>1 DEF AddedAll

LEMMA AddedOne == ASSUME NEW x PROVE Added(x) = AddedAll({x})
BY DEF AddedAll

LEMMA FreshFacts ==
  ASSUME InputInv, NEW p \in DOMAIN gram.prods, NEW i \in 0..Len(word)
  PROVE  Fresh(p, i) \subseteq {x \in Universe : x.set = i}
<1> SUFFICES ASSUME NEW k \in DOMAIN gram.prods[p].conjs
             PROVE  LET x == Item(p, k, i, i, 0) IN x \in Universe /\ x.set = i
  BY DEF Fresh
<1> DEFINE x == Item(p, k, i, i, 0)
<1>1. /\ x.prod = p /\ x.con = k /\ x.from = i /\ x.set = i /\ x.dot = 0
  BY DEF Item
<1>2. /\ gram \in Grammars /\ Len(word) \in Nat
  BY InputAssumption DEF InputInv
<1>3. Len(gram.prods[p].conjs[k].body) \in Nat /\ k \in Nat
  <2>1. Len(gram.prods[p].conjs[k].body) \in Nat
        /\ DOMAIN gram.prods[p].conjs = 1..Len(gram.prods[p].conjs)
    BY <1>2, GrammarFacts, Zenon
  <2> QED BY <2>1
<1>4. x \in [prod : DOMAIN gram.prods, con : Nat, from : Nat, set : Nat, dot : Nat]
  BY <1>2, <1>3 DEF Item
<1>5. IsItem(x)
  BY <1>1, <1>2, <1>3 DEF IsItem, Conjunct
<1> QED
  BY <1>1, <1>4, <1>5 DEF Universe

LEMMA NullStepsFacts ==
  ASSUME NEW X, NEW d \in NullSteps(X)
  PROVE  d \in X \X X /\ ~Completed(d[1])
BY DEF NullSteps, Nullable

LEMMA SameInput ==
  ASSUME UNCHANGED <<gram, word>>
  PROVE  /\ Universe' = Universe /\ Keys' = Keys
         /\ \A x : /\ IsItem(x)' = IsItem(x) /\ Completed(x)' = Completed(x)
                   /\ Parks(x)' = Parks(x)
BY DEF Universe, Keys, Key, Nt, IsItem, Completed, Conjunct, Parks, Negative, Conjunctive
-------------------------------------------------------------------------------
(***************************************************************************)
(* What is retracted: well formed items of the position and the next one,  *)
(* and with a scanned item the item it was scanned from.                   *)
(***************************************************************************)
Reached(R) ==
  /\ R \subseteq Universe
  /\ \A y \in R : y.set \in {n, n + 1}
  /\ \A y \in R : y.set = n + 1 => Back(y) \in R /\ ~Completed(Back(y))

LEMMA CascadeReached ==
  ASSUME InputInv, OriginInv, NEW R, Reached(R)
  PROVE  Reached(Cascade(R))
<1>1. ASSUME NEW y \in Cascade(R)
      PROVE  \/ y \in R
             \/ \E d \in forward : d[1] \in R /\ d[2] = y
             \/ \E d \in deps : d[2] = y
  BY DEF Cascade
<1>2. R \subseteq Cascade(R)
  BY DEF Cascade
<1>3. ASSUME NEW d \in forward
      PROVE  /\ d[1] \in Universe /\ d[2] \in Universe /\ d[1].set = n /\ ~Completed(d[1])
             /\ d[2].set = n \/ (d[2].set = n + 1 /\ d[1] = Back(d[2]))
  BY <1>3 DEF OriginInv
<1>4. ASSUME NEW d \in deps PROVE d[2] \in Universe /\ d[2].set = n
  BY <1>4 DEF OriginInv
<1>5. n \in Nat
  BY InputAssumption DEF InputInv
<1>6. ASSUME NEW y \in Cascade(R)
      PROVE  /\ y \in Universe /\ y.set \in {n, n + 1}
             /\ y.set = n + 1 => Back(y) \in Cascade(R) /\ ~Completed(Back(y))
  <2>1. CASE y \in R
    BY <2>1, <1>2 DEF Reached
  <2>2. CASE \E d \in forward : d[1] \in R /\ d[2] = y
    BY <2>2, <1>2, <1>3, <1>5
  <2>3. CASE \E d \in deps : d[2] = y
    BY <2>3, <1>4, <1>5
  <2> QED
    BY <1>1, <1>6, <2>1, <2>2, <2>3
<1> QED
  BY <1>6 DEF Reached

LEMMA RetractedReached ==
  ASSUME InputInv, OriginInv, NEW X, Reached(X)
  PROVE  Reached(Retracted(X))
<1> DEFINE T == {R \in SUBSET Universe : Reached(R)}
           step == [R \in T |-> Cascade(R)]
           Next0(f, k) == IF k = 0 THEN X ELSE UNION {Cascade(R) : R \in {f[k-1]}}
           F == CHOOSE f : f = [k \in Nat |-> Next0(f, k)]
<1>1. step \in [T -> T] /\ X \in T
  BY CascadeReached DEF Reached
<1>2. PICK f : IteratedBy(f, T, step, X)
  <2> HIDE DEF T, step
  <2> QED BY <1>1, Iteration
<1>3. f = [k \in Nat |-> Next0(f, k)]
  <2>1. ASSUME NEW k \in Nat PROVE f[k] = Next0(f, k)
    <3>1. CASE k = 0
      BY <3>1, <1>2 DEF IteratedBy
    <3>2. CASE k # 0
      <4>1. k - 1 \in Nat /\ (k - 1) + 1 = k
        BY <3>2, <2>1
      <4>2. f[k] = step[f[k-1]] /\ f[k-1] \in T
        <5> HIDE DEF T, step
        <5> QED BY <4>1, <1>2 DEF IteratedBy
      <4>3. f[k] = Cascade(f[k-1])
        BY <4>2
      <4> QED BY <3>2, <4>3
    <3> QED BY <3>1, <3>2
  <2>2. f = [k \in Nat |-> f[k]]
    BY <1>2 DEF IteratedBy
  <2> HIDE DEF Next0
  <2> QED BY <2>1, <2>2
<1>4. F = [k \in Nat |-> Next0(F, k)]
  <2> HIDE DEF Next0
  <2> QED BY <1>3
<1>5. Nat \subseteq {k \in Nat : Reached(F[k])}
  <2>1. Reached(F[0])
    BY <1>4
  <2>2. ASSUME NEW k \in Nat, Reached(F[k]) PROVE Reached(F[k + 1])
    <3>1. k + 1 \in Nat /\ k + 1 # 0 /\ (k + 1) - 1 = k
      BY <2>2
    <3>2. F[k + 1] = Next0(F, k + 1)
      <4> HIDE DEF Next0, F
      <4> QED BY <1>4, <3>1
    <3>3. F[k + 1] = Cascade(F[k])
      <4> HIDE DEF F
      <4> QED BY <3>1, <3>2
    <3> QED BY <2>2, <3>3, CascadeReached
  <2> DEFINE N == {k \in Nat : Reached(F[k])}
  <2>3. 0 \in N /\ \A k \in Nat : k \in N => k + 1 \in N
    BY <2>1, <2>2
  <2> HIDE DEF N
  <2>4. Nat \subseteq N
    BY <2>3, NatSetInduction
  <2> QED BY <2>4 DEF N
<1>6. Retracted(X) = F[Cardinality(forward) + Cardinality(deps)]
  BY DEF Retracted
<1> QED
  BY <1>5, <1>6, EnoughSteps
-------------------------------------------------------------------------------
(***************************************************************************)
(* The steps.                                                              *)
(***************************************************************************)
LEMMA BasicFacts ==
  ASSUME IInv
  PROVE  /\ n \in Nat /\ n <= Len(word) /\ Len(word) \in Nat /\ gram \in Grammars
         /\ \A x \in S \cup U \cup t \cup c \cup parked \cup counted :
              x \in Universe /\ x.set \in Nat
<1>1. InputInv /\ ItemsInv
  BY DEF IInv
<1>2. n \in Nat /\ n <= Len(word) /\ Len(word) \in Nat /\ gram \in Grammars
  BY <1>1, InputAssumption DEF InputInv
<1> QED
  BY <1>1, <1>2, ItemFacts DEF ItemsInv

LEMMA InitInv == Init => IInv
<1> SUFFICES ASSUME Init PROVE IInv
  OBVIOUS
<1>1. InputInv
  BY InputAssumption DEF Init, InputInv
<1>2. ASSUME NEW x \in t PROVE x \in Universe /\ x.set = 0
  <2>0. PICK p \in DOMAIN gram.prods :
          \E y \in Fresh(p, 0) : \E k \in 0..Len(Conjunct(y).body) : x = Skip(y, k)
    BY <1>2 DEF Init
  <2>1. PICK y \in Fresh(p, 0) : \E k \in 0..Len(Conjunct(y).body) : x = Skip(y, k)
    BY <2>0
  <2>5. PICK k \in 0..Len(Conjunct(y).body) : x = Skip(y, k)
    BY <2>1
  <2>2. y \in Universe /\ y.set = 0 /\ y.dot = 0
    BY <1>1, <2>1, FreshFacts DEF Fresh, Item, InputInv, Init
  <2>3. Len(Conjunct(y).body) \in Nat
    BY <1>1, <2>2, ItemFacts
  <2>4. k \in 0..(Len(Conjunct(y).body) - y.dot)
    BY <2>2, <2>3, <2>5
  <2> QED
    BY <1>1, <2>2, <2>4, <2>5, SkipFacts
<1>3. ItemsInv
  BY <1>2 DEF Init, ItemsInv
<1>4. TypeOK
  BY <1>2 DEF Init, TypeOK, Universe
<1>5. RoundInv /\ WaitInv /\ ScannedInv /\ RetractedStaysOut
  BY DEF Init, RoundInv, WaitInv, ScannedInv, RetractedStaysOut
<1>6. OriginInv
  BY <1>2, NullStepsFacts DEF Init, OriginInv
<1> QED
  BY <1>1, <1>3, <1>4, <1>5, <1>6 DEF IInv

LEMMA BeginRoundInv == ASSUME IInv, BeginRound PROVE IInv'
<1>1. /\ UNCHANGED <<input, n, U, c, parked, waits, origins, found>>
      /\ S' = S \cup t /\ t' = {} /\ full' = FALSE /\ pc' = "process" /\ pc = "round"
  BY DEF BeginRound
<1>2. /\ Universe' = Universe /\ Keys' = Keys
      /\ \A x : /\ IsItem(x)' = IsItem(x) /\ Completed(x)' = Completed(x)
                /\ Parks(x)' = Parks(x)
  BY <1>1, SameInput DEF input
<1>3. InputInv' /\ ItemsInv'
  BY <1>1, <1>2 DEF IInv, InputInv, ItemsInv, input, origins
<1>4. /\ snapshot' \subseteq {x \in S' : x.set = n} /\ done' = {x \in S' : x.set = n}
      /\ revisit' \subseteq done' /\ snapshot' \subseteq done'
  BY <1>1 DEF IInv, RoundInv, TypeOK, BeginRound
<1>5. TypeOK'
  <2>1. \A x \in (S \cup U \cup t \cup c \cup parked \cup counted)' : IsItem(x)'
    BY <1>2, <1>3 DEF ItemsInv, Universe
  <2>2. \A x \in (S \cup U)' : x.set <= n' + 1
    BY <1>1, BasicFacts DEF IInv, TypeOK
  <2>3. \A x \in (t \cup c \cup parked \cup counted)' : x.set = n'
    BY <1>1 DEF IInv, TypeOK, origins
  <2>4. \A x \in (c \cup parked \cup counted)' : Completed(x)'
    BY <1>1, <1>2 DEF IInv, TypeOK, origins
  <2>5. (cache \subseteq S)' /\ (\A m \in memo : m[2] \in cache)'
    BY <1>1 DEF IInv, TypeOK, waits
  <2>6. (parked # {} => pc = "groups")' /\ (full \in BOOLEAN /\ found \in BOOLEAN)'
    BY <1>1 DEF IInv, TypeOK
  <2> QED
    BY <1>1, <1>4, <2>1, <2>2, <2>3, <2>4, <2>5, <2>6 DEF TypeOK
<1>6. RoundInv' /\ WaitInv'
  BY <1>1, <1>2, <1>4 DEF RoundInv, WaitInv, IInv, waits
<1>7. OriginInv' /\ ScannedInv'
  BY <1>1, <1>2 DEF IInv, OriginInv, ScannedInv, origins, Back
<1>8. RetractedStaysOut'
  BY <1>1, <1>2 DEF IInv, RetractedStaysOut
<1> QED
  BY <1>3, <1>5, <1>6, <1>7, <1>8 DEF IInv

\* What a handler adds to t, and the origins it records, belong to the position.
LEMMA CompletionInv ==
  ASSUME IInv, NEW x \in Universe, NEW decided \in BOOLEAN, Completed(x), x.set = n,
         Completion(x, decided)
  PROVE  /\ \A y \in t' \ t : y \in Universe /\ y.set = n /\ (y \in U => Parks(y))
         /\ \A y \in c' \ c : y \in Universe /\ y.set = n /\ Completed(y)
         /\ \A d \in forward' \ forward :
              /\ d \in Universe \X Universe
              /\ d[1].set = n /\ ~Completed(d[1]) /\ d[2].set = n
         /\ \A d \in deps' \ deps : d \in Keys \X Universe /\ d[2].set = n
         /\ counted' = counted \cup {x} /\ \A m \in memo' \ memo : m[2] \in cache
         /\ t \subseteq t'
<1>1. InputInv /\ cache \subseteq S
  BY DEF IInv, TypeOK
<1>2. n \in Nat /\ n <= Len(word) /\ Len(word) \in Nat
      /\ \A y \in S : y \in Universe /\ y.set \in Nat
  BY BasicFacts
<1>3. x.from \in Nat /\ x.from <= n
  BY <1>1, <1>2, ItemFacts
<1> DEFINE ws     == Waiters(x)
           joined == {j \in {Advance(w, x.set) : w \in ws} : Parks(j)}
           direct == {j \in {Advance(w, x.set) : w \in ws} : ~Parks(j) /\ ~Known(j)}
           new    == AddedAll(direct)
<1>4. ASSUME NEW w \in ws
      PROVE  w \in S /\ w \in Universe /\ w.set = x.from /\ ~Completed(w)
             /\ Advance(w, x.set) \in Universe /\ Advance(w, x.set).set = n
  <2>1. w \in cache /\ w.set = x.from
    BY DEF Waiters
  <2>2. ~Completed(w)
    BY <1>1, <2>1 DEF IInv, WaitInv
  <2> QED
    BY <1>1, <1>2, <1>3, <2>1, <2>2, AdvanceFacts
<1>5. joined \cup direct \subseteq {y \in Universe : y.set = n}
  BY <1>4
<1>6. \A y \in new : y \in Universe /\ y.set = n /\ y \notin U
  <2> HIDE DEF direct
  <2> QED BY <1>1, <1>5, AddedFacts
<1>7. \A y \in Added(x) : y \in Universe /\ y.set = n /\ y \notin U
  <2>1. \A y \in AddedAll({x}) : y \in Universe /\ y \notin U /\ \E z \in {x} : y.set = z.set
    BY <1>1, AddedFacts
  <2> QED BY <2>1, AddedOne
<1>8. \A y \in joined : Parks(y) /\ Completed(y)
  BY DEF Parks
<1>9. PICK moved, steps :
        /\ moved \subseteq direct \cup joined
        /\ steps \subseteq NullSteps(new)
        /\ t' = t \cup new \cup Added(x) \cup (IF decided THEN joined ELSE {})
        /\ forward' = forward
             \cup {<<w, Advance(w, x.set)>> : w \in
                     {v \in ws : v.set = x.set /\ Advance(v, x.set) \in moved}}
             \cup steps
        /\ deps' = deps \cup {<<Key(x), y>> : y \in moved}
        /\ counted' = counted \cup {x}
        /\ memo' = memo \cup {<<x, w>> : w \in {v \in cache : v.set = x.from}}
        /\ c' = IF decided THEN c \ {x} ELSE c \cup joined
  <2> DEFINE meets == {y \in direct \cup joined : \E z \in new : <<z, y>> \in NullSteps(new)}
  <2>1. PICK first \in SUBSET meets :
          LET moved == (direct \ first) \cup joined
          IN  /\ t' = t \cup new \cup Added(x) \cup (IF decided THEN joined ELSE {})
              /\ forward' = forward
                   \cup {<<w, Advance(w, x.set)>> : w \in
                           {v \in ws : v.set = x.set /\ Advance(v, x.set) \in moved}}
                   \cup {s \in NullSteps(new) : s[2] \in meets => s[2] \in first}
              /\ deps' = deps \cup {<<Key(x), y>> : y \in moved}
              /\ counted' = counted \cup {x}
              /\ memo' = memo \cup {<<x, w>> : w \in {v \in cache : v.set = x.from}}
              /\ c' = IF decided THEN c \ {x} ELSE c \cup joined
    BY Zenon DEF Completion
  <2>2. (direct \ first) \cup joined \subseteq direct \cup joined
    OBVIOUS
  <2>3. {s \in NullSteps(new) : s[2] \in meets => s[2] \in first} \subseteq NullSteps(new)
    OBVIOUS
  <2> HIDE DEF meets, direct, joined, new, ws
  <2> QED BY <2>1, <2>2, <2>3, Zenon
<1>10. \A d \in steps : /\ d \in Universe \X Universe
                        /\ d[1].set = n /\ ~Completed(d[1]) /\ d[2].set = n
  <2> HIDE DEF new
  <2> QED BY <1>6, <1>9, NullStepsFacts
<1>11. \A d \in forward' \ forward :
         /\ d \in Universe \X Universe
         /\ d[1].set = n /\ ~Completed(d[1]) /\ d[2].set = n
  <2> HIDE DEF ws
  <2> QED BY <1>4, <1>9, <1>10
<1>12. \A d \in deps' \ deps : d \in Keys \X Universe /\ d[2].set = n
  <2>1. Key(x) \in Keys
    BY DEF Keys
  <2> HIDE DEF direct, joined
  <2> QED BY <1>5, <1>9, <2>1
<1>13. /\ \A y \in t' \ t : y \in Universe /\ y.set = n /\ (y \in U => Parks(y))
       /\ \A y \in c' \ c : y \in Universe /\ y.set = n /\ Completed(y)
       /\ t \subseteq t'
  <2> HIDE DEF direct, joined, new
  <2> QED BY <1>5, <1>6, <1>7, <1>8, <1>9
<1> QED
  BY <1>9, <1>11, <1>12, <1>13

(***************************************************************************)
(* A handler takes nothing out of the chart: the invariant is kept if it   *)
(* holds of what is new.                                                   *)
(***************************************************************************)
Gains ==
  /\ \A y \in S' \ S : y \in Universe /\ y.set = n + 1 /\ y \notin U
  /\ \A y \in t' \ t : y \in Universe /\ y.set = n /\ (y \in U => Parks(y))
  /\ \A y \in (c' \ c) \cup (counted' \ counted) : y \in Universe /\ y.set = n /\ Completed(y)
  /\ \A w \in cache' \ cache : w \in S /\ ~Completed(w)
  /\ \A m \in memo' \ memo : m[2] \in cache
  /\ \A d \in forward' \ forward :
       /\ d \in Universe \X Universe /\ d[1].set = n /\ ~Completed(d[1])
       /\ d[2].set = n \/ (d[2].set = n + 1 /\ d[1] = Back(d[2]))
  /\ \A d \in deps' \ deps : d \in Keys \X Universe /\ d[2].set = n

Keeps ==
  /\ UNCHANGED <<gram, word, n, U, parked, done, revisit, full, pc, found>>
  /\ S \subseteq S' /\ cache \subseteq cache' /\ snapshot' \subseteq snapshot
  /\ pc \in {"process", "resolve"}

LEMMA GainsInv == ASSUME IInv, Keeps, Gains PROVE IInv'
<1>1. /\ Universe' = Universe /\ Keys' = Keys
      /\ \A x : /\ IsItem(x)' = IsItem(x) /\ Completed(x)' = Completed(x)
                /\ Parks(x)' = Parks(x) /\ Back(x)' = Back(x)
  BY SameInput DEF Keeps, Back
<1>2. n' = n /\ U' = U /\ parked' = parked /\ pc' = pc /\ full' = full
      /\ done' = done /\ revisit' = revisit /\ S \subseteq S' /\ cache \subseteq cache'
      /\ snapshot' \subseteq snapshot /\ pc \in {"process", "resolve"} /\ found' = found
  BY DEF Keeps
<1>3. InputInv'
  BY DEF IInv, InputInv, Keeps
<1>4. ItemsInv'
  BY <1>1, <1>2 DEF IInv, ItemsInv, Gains
<1>5. TypeOK'
  <2>1. \A x \in (S \cup U \cup t \cup c \cup parked \cup counted)' : IsItem(x)'
    BY <1>1, <1>4 DEF ItemsInv, Universe
  <2>2. \A x \in (S \cup U)' : x.set <= n' + 1
    BY <1>2, BasicFacts DEF IInv, TypeOK, Gains
  <2>3. \A x \in (t \cup c \cup parked \cup counted)' : x.set = n'
    BY <1>2 DEF IInv, TypeOK, Gains
  <2>4. \A x \in (c \cup parked \cup counted)' : Completed(x)'
    BY <1>1, <1>2 DEF IInv, TypeOK, Gains
  <2>5. (cache \subseteq S)' /\ (\A m \in memo : m[2] \in cache)'
    BY <1>2 DEF IInv, TypeOK, Gains
  <2>6. /\ (parked # {} => pc = "groups")' /\ (full \in BOOLEAN /\ found \in BOOLEAN)'
        /\ (snapshot \subseteq done /\ revisit \subseteq done)'
    BY <1>2 DEF IInv, TypeOK
  <2> QED
    BY <1>2, <2>1, <2>2, <2>3, <2>4, <2>5, <2>6 DEF TypeOK
<1>6. RoundInv' /\ WaitInv'
  BY <1>1, <1>2 DEF IInv, RoundInv, WaitInv, Gains
<1>7. OriginInv'
  <2>1. ASSUME NEW d \in forward'
        PROVE  /\ d \in Universe \X Universe /\ d[1].set = n /\ ~Completed(d[1])
               /\ d[2].set = n \/ (d[2].set = n + 1 /\ d[1] = Back(d[2]))
    BY <2>1 DEF IInv, OriginInv, Gains
  <2>2. ASSUME NEW d \in deps' PROVE d \in Keys \X Universe /\ d[2].set = n
    BY <2>2 DEF IInv, OriginInv, Gains
  <2> QED
    BY <1>1, <1>2, <2>1, <2>2 DEF OriginInv
<1>8. ScannedInv'
  BY <1>1, <1>2 DEF IInv, ScannedInv
<1>9. RetractedStaysOut'
  BY <1>1, <1>2 DEF IInv, RetractedStaysOut, Gains
<1> QED
  BY <1>3, <1>4, <1>5, <1>6, <1>7, <1>8, <1>9 DEF IInv

LEMMA HandledFacts ==
  ASSUME IInv, NEW x, Handles(x)
  PROVE  x \in S /\ x \in Universe /\ x.set = n /\ pc = "process" /\ snapshot' \subseteq snapshot
BY BasicFacts DEF IInv, RoundInv, Handles

LEMMA ParkInv == ASSUME IInv, NEW x, Park(x) PROVE IInv'
<1>1. x \in S /\ x \in Universe /\ x.set = n /\ pc = "process" /\ snapshot' \subseteq snapshot
  BY HandledFacts DEF Park
<1>2. Keeps
  BY <1>1 DEF Park, Keeps, input, waits, origins
<1>3. Gains
  BY <1>1 DEF Park, Gains, waits, origins
<1> QED
  BY <1>2, <1>3, GainsInv

LEMMA CompleteInv == ASSUME IInv, NEW x, Complete(x) PROVE IInv'
<1>1. x \in S /\ x \in Universe /\ x.set = n /\ pc = "process" /\ snapshot' \subseteq snapshot
  BY HandledFacts DEF Complete
<1>2. Completed(x) /\ Completion(x, FALSE) /\ FALSE \in BOOLEAN
  BY DEF Complete
<1>3. Keeps
  BY <1>1 DEF Complete, Keeps, input
<1>4. Gains
  BY <1>1, <1>2, CompletionInv DEF Complete, Gains
<1> QED
  BY <1>3, <1>4, GainsInv

LEMMA CompleteParkedInv == ASSUME IInv, NEW x, CompleteParked(x) PROVE IInv'
<1>1. x \in c /\ x \in Universe /\ x.set = n /\ Completed(x) /\ pc = "resolve"
  BY DEF CompleteParked, IInv, ItemsInv, TypeOK
<1>2. Completion(x, TRUE) /\ TRUE \in BOOLEAN
  BY DEF CompleteParked
<1>3. Keeps
  BY <1>1 DEF CompleteParked, Keeps, input, rounds
<1>4. Gains
  BY <1>1, <1>2, CompletionInv DEF CompleteParked, Gains
<1> QED
  BY <1>3, <1>4, GainsInv

LEMMA PredictInv == ASSUME IInv, NEW x, Predict(x) PROVE IInv'
<1>1. x \in S /\ x \in Universe /\ x.set = n /\ pc = "process" /\ snapshot' \subseteq snapshot
  BY HandledFacts DEF Predict
<1> DEFINE ps    == {p \in DOMAIN gram.prods : gram.prods[p].head = Lit(x)}
           start == {y \in UNION {Fresh(p, n) : p \in ps} : FirstCanMatch(y)}
           new   == AddedAll(start)
<1>2. /\ ~Completed(x) /\ t' = t \cup new /\ forward' = forward \cup NullSteps(new)
      /\ cache' \in {cache, cache \cup {x}}
      /\ UNCHANGED <<input, n, S, U, c, parked, memo, deps, counted, done, revisit,
                     full, pc, found>>
  BY DEF Predict
<1>3. InputInv /\ n \in 0..Len(word)
  BY DEF IInv, InputInv
<1>4. start \subseteq {y \in Universe : y.set = n}
  BY <1>3, FreshFacts
<1>5. \A y \in new : y \in Universe /\ y.set = n /\ y \notin U
  <2> HIDE DEF start
  <2> QED BY <1>3, <1>4, AddedFacts
<1>6. Keeps
  BY <1>1, <1>2 DEF Keeps, input
<1>7. \A d \in forward' \ forward :
        d \in Universe \X Universe /\ d[1].set = n /\ ~Completed(d[1]) /\ d[2].set = n
  <2> HIDE DEF new
  <2> QED BY <1>2, <1>5, NullStepsFacts
<1>8. Gains
  <2> HIDE DEF new
  <2> QED BY <1>1, <1>2, <1>5, <1>7 DEF Gains
<1> QED
  BY <1>6, <1>8, GainsInv

LEMMA ScanInv == ASSUME IInv, NEW x, Scan(x) PROVE IInv'
<1>1. x \in S /\ x \in Universe /\ x.set = n /\ pc = "process" /\ snapshot' \subseteq snapshot
  BY HandledFacts DEF Scan
<1> DEFINE y == Advance(x, n + 1)
<1>2. /\ ~Completed(x) /\ Lit(x) \notin gram.nts
      /\ UNCHANGED <<input, n, U, t, c, parked, waits, deps, counted, done, revisit,
                     full, pc, found>>
      /\ \/ Lit(x) = Ch /\ S' = S \cup {y} /\ forward' = forward \cup {<<x, y>>}
         \/ UNCHANGED <<S, forward>>
  BY DEF Scan
<1>3. InputInv /\ n \in Nat /\ n <= Len(word) /\ Len(word) \in Nat
  BY BasicFacts DEF IInv
<1>4. Keeps
  BY <1>1, <1>2 DEF Keeps, input, waits
<1>5. CASE UNCHANGED <<S, forward>>
  <2>1. Gains
    BY <1>2, <1>5 DEF Gains, waits
  <2> QED BY <1>4, <2>1, GainsInv
<1>6. CASE Lit(x) = Ch /\ S' = S \cup {y} /\ forward' = forward \cup {<<x, y>>}
  <2>1. n < Len(word)
    <3>1. Lit(x) \in Chars \cup {Null}
      BY <1>1, <1>2, <1>3, ItemFacts
    <3>2. Eof \notin Chars \cup {Null}
      BY InputAssumption
    <3> QED BY <1>3, <1>6, <3>1, <3>2 DEF Ch
  <2>2. n + 1 \in x.set..Len(word)
    BY <1>1, <1>3, <2>1
  <2>3. y \in Universe /\ y.set = n + 1
    BY <1>1, <1>2, <1>3, <2>2, AdvanceFacts
  <2>4. x = Back(y)
    BY <1>1, <1>3, BackOfScanned
  <2>5. y \notin U
    <3>1. SUFFICES ASSUME y \in U PROVE FALSE
      OBVIOUS
    <3>2. x \in U
      BY <2>3, <2>4, <3>1 DEF IInv, ScannedInv
    <3>3. Parks(x)
      BY <1>1, <3>2 DEF IInv, RetractedStaysOut
    <3> QED BY <1>2, <3>3 DEF Parks
  <2>6. Gains
    BY <1>1, <1>2, <1>6, <2>3, <2>4, <2>5 DEF Gains, waits
  <2> QED BY <1>4, <2>6, GainsInv
<1> QED
  BY <1>2, <1>5, <1>6

\* The rest of the steps, but for a retraction, only end a stage.
LEMMA GroupReached == ASSUME IInv PROVE Reached(Group)
<1>1. \A x \in Group : x \in Universe /\ x.set = n
  BY DEF Group, IInv, ItemsInv, TypeOK
<1>2. n \in Nat
  BY BasicFacts
<1> QED
  BY <1>1, <1>2 DEF Reached

LEMMA ResolveGroupInv == ASSUME IInv, ResolveGroup PROVE IInv'
<1>1. /\ pc = "groups" /\ parked' \subseteq parked /\ t = {} /\ snapshot = {}
      /\ UNCHANGED <<input, n, t, snapshot, done, revisit, pc, found>>
  BY DEF ResolveGroup, IInv, RoundInv
<1>2. /\ Universe' = Universe /\ Keys' = Keys
      /\ \A x : /\ IsItem(x)' = IsItem(x) /\ Completed(x)' = Completed(x)
                /\ Parks(x)' = Parks(x) /\ Back(x)' = Back(x)
  BY <1>1, SameInput DEF input, Back
<1>3. PICK R : /\ Reached(R)
               /\ S' = S \ R /\ U' = U \cup R /\ c' \subseteq c /\ cache' = cache \ (R \cap S)
               /\ memo' \subseteq {m \in memo : m[2] \notin R \cap S}
               /\ forward' \subseteq forward /\ deps' \subseteq deps /\ counted' \subseteq counted
               /\ full' = TRUE \/ (full' = full /\ R = {})
  <2>1. CASE Fails(Group)
    <3> DEFINE R == Retracted(Group)
    <3>1. Reached(R)
      BY GroupReached, RetractedReached DEF IInv
    <3>2. Retract(Group)
      BY <2>1 DEF ResolveGroup
    <3> HIDE DEF R
    <3>3. /\ S' = S \ R /\ U' = U \cup R /\ c' \subseteq c /\ cache' = cache \ (R \cap S)
          /\ memo' \subseteq {m \in memo : m[2] \notin R \cap S}
          /\ forward' \subseteq forward /\ deps' \subseteq deps /\ counted' \subseteq counted
          /\ full' = TRUE
      BY <3>2 DEF Retract, R
    <3> QED BY <3>1, <3>3
  <2>2. CASE ~Fails(Group)
    <3>1. UNCHANGED <<S, U, c, waits, origins, full>>
      BY <2>2 DEF ResolveGroup
    <3>2. Reached({})
      BY DEF Reached
    <3>3. memo' = memo /\ cache' = cache /\ forward' = forward /\ deps' = deps
          /\ counted' = counted
      BY <3>1 DEF waits, origins
    <3> QED BY <3>1, <3>2, <3>3
  <2> QED BY <2>1, <2>2
<1>4. InputInv'
  BY <1>1 DEF IInv, InputInv, input
<1>5. ItemsInv'
  BY <1>1, <1>2, <1>3 DEF IInv, ItemsInv, Reached
<1>6. TypeOK'
  <2>1. \A x \in (S \cup U \cup t \cup c \cup parked \cup counted)' : IsItem(x)'
    BY <1>2, <1>5 DEF ItemsInv, Universe
  <2>2. \A x \in (S \cup U)' : x.set <= n' + 1
    BY <1>1, <1>3, BasicFacts DEF IInv, TypeOK, Reached
  <2>3. \A x \in (t \cup c \cup parked \cup counted)' : x.set = n'
    BY <1>1, <1>3 DEF IInv, TypeOK
  <2>4. \A x \in (c \cup parked \cup counted)' : Completed(x)'
    BY <1>1, <1>2, <1>3 DEF IInv, TypeOK
  <2>5. (cache \subseteq S)' /\ (\A m \in memo : m[2] \in cache)'
    BY <1>3 DEF IInv, TypeOK
  <2>6. /\ (parked # {} => pc = "groups")' /\ (full \in BOOLEAN /\ found \in BOOLEAN)'
        /\ (snapshot \subseteq done /\ revisit \subseteq done)'
    BY <1>1, <1>3 DEF IInv, TypeOK
  <2> QED
    BY <1>1, <2>1, <2>2, <2>3, <2>4, <2>5, <2>6 DEF TypeOK
<1>7. RoundInv'
  <2>1. ~full' => done' \subseteq {x \in S' : x.set = n'}
    BY <1>1, <1>3 DEF IInv, RoundInv
  <2> QED BY <1>1, <2>1 DEF RoundInv
<1>8. WaitInv' /\ OriginInv'
  BY <1>1, <1>2, <1>3 DEF IInv, WaitInv, OriginInv
<1>9. ScannedInv'
  BY <1>1, <1>2, <1>3 DEF IInv, ScannedInv, Reached
<1>10. RetractedStaysOut'
  BY <1>1, <1>2, <1>3 DEF IInv, RetractedStaysOut
<1> QED
  BY <1>4, <1>5, <1>6, <1>7, <1>8, <1>9, <1>10 DEF IInv

\* the end of a round, of the groups and of what was parked
LEMMA EndStageInv ==
  ASSUME IInv, UNCHANGED <<input, n, chart, waits, origins, rounds, found>> \/ EndRound,
         EndRound \/ EndGroups \/ EndResolve
  PROVE  IInv'
<1>1. /\ UNCHANGED <<input, n, S, U, t, c, waits, origins, rounds, found>>
      /\ snapshot = {} /\ parked' \in {parked, c}
      /\ parked' # {} => pc' = "groups"
      /\ pc' = "groups" => t = {}
      /\ pc' \in {"advance", "done"} => t = {} /\ c = {}
      /\ pc' \in {"round", "process", "groups", "resolve", "advance", "done"}
  BY DEF EndRound, EndGroups, EndResolve, chart, IInv, RoundInv, TypeOK
<1>2. /\ Universe' = Universe /\ Keys' = Keys
      /\ \A x : /\ IsItem(x)' = IsItem(x) /\ Completed(x)' = Completed(x)
                /\ Parks(x)' = Parks(x) /\ Back(x)' = Back(x)
  BY <1>1, SameInput DEF input, Back
<1>3. InputInv' /\ ItemsInv'
  BY <1>1, <1>2 DEF IInv, InputInv, ItemsInv, input, origins
<1>4. TypeOK'
  <2>1. \A x \in (S \cup U \cup t \cup c \cup parked \cup counted)' : IsItem(x)'
    BY <1>2, <1>3 DEF ItemsInv, Universe
  <2>2. \A x \in (S \cup U)' : x.set <= n' + 1
    BY <1>1 DEF IInv, TypeOK
  <2>3. \A x \in (t \cup c \cup parked \cup counted)' : x.set = n'
    BY <1>1 DEF IInv, TypeOK, origins
  <2>4. \A x \in (c \cup parked \cup counted)' : Completed(x)'
    BY <1>1, <1>2 DEF IInv, TypeOK, origins
  <2>5. /\ (cache \subseteq S)' /\ (\A m \in memo : m[2] \in cache)'
        /\ (full \in BOOLEAN /\ found \in BOOLEAN)'
        /\ (snapshot \subseteq done /\ revisit \subseteq done)'
    BY <1>1 DEF IInv, TypeOK, waits, rounds
  <2> QED
    BY <1>1, <2>1, <2>2, <2>3, <2>4, <2>5 DEF TypeOK
<1>5. RoundInv' /\ WaitInv'
  BY <1>1, <1>2 DEF IInv, RoundInv, WaitInv, waits, rounds
<1>6. OriginInv' /\ ScannedInv' /\ RetractedStaysOut'
  BY <1>1, <1>2 DEF IInv, OriginInv, ScannedInv, RetractedStaysOut, origins
<1> QED
  BY <1>3, <1>4, <1>5, <1>6 DEF IInv

\* the end of a position and of the input
LEMMA LeaveInv == ASSUME IInv, NextPosition \/ Finish PROVE IInv'
<1>1. /\ UNCHANGED <<input, S, U, t, c, parked, cache>> /\ t = {} /\ c = {} /\ parked = {}
      /\ memo' = {} /\ forward' = {} /\ deps' = {} /\ counted' = {}
      /\ n' \in {n, n + 1} /\ n' <= Len(word) /\ n' \in Nat /\ pc' \in {"round", "done"}
      /\ snapshot' = {} /\ found' \in BOOLEAN /\ full' \in BOOLEAN
      /\ revisit' \subseteq done' /\ (~full' => done' \subseteq {x \in S : x.set = n'})
  <2>1. /\ pc = "advance" /\ t = {} /\ c = {} /\ parked = {} /\ full \in BOOLEAN
        /\ found \in BOOLEAN /\ revisit \subseteq done /\ snapshot = {}
        /\ ~full => done \subseteq {x \in S : x.set = n}
    <3>1. pc = "advance"
      BY DEF NextPosition, Finish
    <3>2. TypeOK /\ RoundInv
      BY DEF IInv
    <3>3. /\ t = {} /\ c = {} /\ snapshot = {}
          /\ ~full => done \subseteq {x \in S : x.set = n}
      BY <3>1, <3>2 DEF RoundInv
    <3>4. /\ parked = {} /\ full \in BOOLEAN /\ found \in BOOLEAN /\ revisit \subseteq done
      BY <3>1, <3>2 DEF TypeOK
    <3> QED BY <3>1, <3>3, <3>4
  <2>2. CASE NextPosition
    <3>1. found' = found /\ full' = FALSE
      BY <2>2 DEF NextPosition
    <3>2. found' \in BOOLEAN /\ full' \in BOOLEAN
      BY <2>1, <3>1, Zenon
    <3>3. n' = n + 1 /\ n < Len(word) /\ n \in Nat /\ Len(word) \in Nat
      BY <2>2, BasicFacts DEF NextPosition
    <3> QED BY <2>1, <2>2, <3>2, <3>3 DEF NextPosition, chart
  <2>3. CASE Finish
    <3>1. Accepting \in BOOLEAN
      BY Zenon DEF Accepting
    <3>2. found' \in BOOLEAN
      BY <2>3, <3>1 DEF Finish
    <3> QED BY <2>1, <2>3, <3>2, BasicFacts DEF Finish, chart, rounds
  <2> QED BY <2>2, <2>3
<1>2. /\ Universe' = Universe
      /\ \A x : /\ IsItem(x)' = IsItem(x) /\ Completed(x)' = Completed(x)
                /\ Parks(x)' = Parks(x) /\ Back(x)' = Back(x)
  BY <1>1, SameInput DEF input, Back
<1>3. InputInv' /\ ItemsInv'
  BY <1>1, <1>2, BasicFacts DEF IInv, InputInv, ItemsInv, input
<1>4. TypeOK'
  <2>1. \A x \in (S \cup U \cup t \cup c \cup parked \cup counted)' : IsItem(x)'
    BY <1>2, <1>3 DEF ItemsInv, Universe
  <2>2. \A x \in (S \cup U)' : x.set <= n' + 1
    BY <1>1, BasicFacts DEF IInv, TypeOK
  <2>3. cache' \subseteq S'
    BY <1>1 DEF IInv, TypeOK
  <2> QED
    BY <1>1, <2>1, <2>2, <2>3 DEF TypeOK
<1>5. RoundInv' /\ WaitInv' /\ OriginInv'
  BY <1>1, <1>2 DEF IInv, RoundInv, WaitInv, OriginInv
<1>6. ScannedInv'
  <2>1. ASSUME NEW y \in U, y.set = n' + 1 PROVE Back(y) \in U /\ ~Completed(Back(y))
    BY <1>1, <2>1, BasicFacts DEF IInv, ScannedInv, TypeOK
  <2> QED BY <1>1, <1>2, <2>1 DEF ScannedInv
<1>7. RetractedStaysOut'
  BY <1>1, <1>2 DEF IInv, RetractedStaysOut
<1> QED
  BY <1>3, <1>4, <1>5, <1>6, <1>7 DEF IInv

LEMMA StepInv == IInv /\ [Next]_vars => IInv'
<1> SUFFICES ASSUME IInv, [Next]_vars PROVE IInv'
  OBVIOUS
<1>1. CASE BeginRound
  BY <1>1, BeginRoundInv
<1>2. CASE EndRound \/ EndGroups \/ EndResolve
  BY <1>2, EndStageInv DEF EndGroups, EndResolve
<1>3. CASE ResolveGroup
  BY <1>3, ResolveGroupInv
<1>4. CASE NextPosition \/ Finish
  BY <1>4, LeaveInv
<1>5. ASSUME NEW x \in snapshot, Process(x) PROVE IInv'
  BY <1>5, ParkInv, CompleteInv, PredictInv, ScanInv DEF Process
<1>6. ASSUME NEW x \in c, CompleteParked(x) PROVE IInv'
  BY <1>6, CompleteParkedInv
<1>7. CASE UNCHANGED vars
  <2>1. UNCHANGED <<gram, word, n, S, U, t, c, parked, cache, memo, forward, deps, counted,
                    snapshot, done, revisit, full, pc, found>>
    BY <1>7 DEF vars, input, chart, waits, origins, rounds
  <2>2. /\ Universe' = Universe /\ Keys' = Keys
        /\ \A x : /\ IsItem(x)' = IsItem(x) /\ Completed(x)' = Completed(x)
                  /\ Parks(x)' = Parks(x) /\ Back(x)' = Back(x)
    BY <2>1, SameInput DEF Back
  <2>3. TypeOK' /\ RetractedStaysOut'
    BY <2>1, <2>2 DEF IInv, TypeOK, RetractedStaysOut
  <2> QED
    BY <2>1, <2>2, <2>3
      DEF IInv, InputInv, ItemsInv, RoundInv, WaitInv, OriginInv, ScannedInv
<1> QED
  BY <1>1, <1>2, <1>3, <1>4, <1>5, <1>6, <1>7 DEF Next, Stopped

(***************************************************************************)
(* The chart, the parked items and what is kept to take items back keep    *)
(* their types, and what is parked or added belongs to the position, for   *)
(* every Boolean grammar and every input.                                  *)
(***************************************************************************)
THEOREM BooleanTypeOK == Spec => []TypeOK
<1>1. IInv => TypeOK
  BY DEF IInv
<1> QED
  BY <1>1, InitInv, StepInv, PTL DEF Spec

(***************************************************************************)
(* No retracted item comes back into the chart, but for a completed        *)
(* conjunct that is parked again, for every Boolean grammar and every      *)
(* input (retract_item, add, scan).                                        *)
(***************************************************************************)
THEOREM BooleanRetracted == Spec => []RetractedStaysOut
<1>1. IInv => RetractedStaysOut
  BY DEF IInv
<1> QED
  BY <1>1, InitInv, StepInv, PTL DEF Spec
===============================================================================
