----------------------------- MODULE EarleyProofs -----------------------------
(***************************************************************************)
(* Proofs about Earley: its types, that its chart is sound, without and    *)
(* with the collector, that the rounds may skip the items they skip, that  *)
(* a position is complete, and that the recogniser implements Recognizer.  *)
(***************************************************************************)
EXTENDS EarleyCollected, TLAPS, WellFoundedInduction

(***************************************************************************)
(* Type correctness.  TypeOK is not inductive alone: a position is left    *)
(* with nothing pending, and a round starts with an empty snapshot.        *)
(***************************************************************************)
StageOK ==
  /\ pc # "process" => snapshot = {}
  /\ pc \in {"advance", "done"} => t = {} /\ c = {}

TypeInv == TypeOK /\ StageOK

\* Facts about one grammar and its productions.
LEMMA GrammarFacts ==
  ASSUME NEW g \in Grammars
  PROVE  /\ g.start \in g.nts
         /\ g.enabled \subseteq g.prods
         /\ \A p \in g.prods : /\ p.head \in g.nts
                               /\ p.head \notin g.eofs \cup DOMAIN g.classes
                               /\ p.body \in Seq(Lits(g))
         /\ \A k \in DOMAIN g.classes : k \in g.nts
         /\ \A k \in g.eofs : k \in g.nts /\ k \notin DOMAIN g.classes
         /\ g.nts \cap (Chars \cup {Null, Eof}) = {}
BY InputAssumption DEF IsGrammar

\* The current character is a character of the input, or Eof at its end.
LEMMA ChFacts ==
  ASSUME TypeOK
  PROVE  /\ n < Len(word) => Ch = word[n + 1] /\ Ch \in Chars
         /\ n >= Len(word) => Ch = Eof
         /\ Ch = Eof <=> n = Len(word)
         /\ Ch \in Chars \cup {Eof}
<1>1. word \in Seq(Chars) /\ n \in 0..Len(word)
  BY InputAssumption DEF TypeOK
<1>2. n < Len(word) => word[n + 1] \in Chars
  BY <1>1
<1> QED
  BY <1>1, <1>2, InputAssumption DEF Ch

\* The body of an item is a sequence, and its literals are known.
LEMMA BodyFacts ==
  ASSUME TypeOK, NEW x \in Items
  PROVE  /\ Len(x.prod.body) \in Nat
         /\ x.dot \in Nat /\ x.dot <= Len(x.prod.body)
         /\ x.from \in Nat /\ x.set \in Nat /\ x.from <= x.set
         /\ ~Completed(x) => x.prod \in gram.enabled
         /\ x.prod \in gram.enabled =>
              /\ x.prod.body \in Seq(Lits(gram))
              /\ ~Completed(x) => Lit(x) \in Lits(gram)
         /\ x.prod \notin gram.enabled => IsCc(gram, x.prod.head)
<1>1. x.dot \in Nat /\ x.dot <= Len(x.prod.body) /\ x.from \in Nat
      /\ x.set \in Nat /\ x.from <= x.set
  BY DEF Items
<1>2. CASE x.prod \in gram.enabled
  <2>1. x.prod.body \in Seq(Lits(gram))
    BY <1>2, GrammarFacts DEF TypeOK
  <2>2. ~Completed(x) => Lit(x) \in Lits(gram)
    BY <1>1, <2>1 DEF Completed, Lit
  <2> QED BY <1>1, <1>2, <2>1, <2>2
<1>3. CASE x.prod \notin gram.enabled
  <2>1. PICK k \in DOMAIN gram.classes \cup gram.eofs, ch \in Chars \cup {Eof} :
          x.prod = ClassProd(k, ch)
    BY <1>3 DEF Items, ClassProds
  <2>2. x.prod.body = <<ch>> /\ x.prod.head = k
    BY <2>1 DEF ClassProd
  <2>3. Completed(x)
    BY <1>3, <2>2 DEF Completed, Items
  <2> QED BY <1>1, <1>3, <2>2, <2>3 DEF IsCc
<1> QED BY <1>2, <1>3

\* A nullable skip keeps everything of an item but the dot.
LEMMA AddedFacts ==
  ASSUME TypeOK, NEW x \in Items, NEW y \in Added(x)
  PROVE  /\ y \in Items
         /\ y.set = x.set
         /\ y.from = x.from
         /\ y.prod = x.prod
<1>1. PICK k \in 0..(Len(x.prod.body) - x.dot) : y = Skip(x, k)
  BY DEF Added
<1>2. y = [prod |-> x.prod, from |-> x.from, set |-> x.set, dot |-> x.dot + k]
  BY <1>1 DEF Skip, Item
<1>3. Len(x.prod.body) \in Nat
  BY BodyFacts
<1>4. x.prod \notin gram.enabled => k = 0
  BY <1>3, BodyFacts DEF Completed
<1> QED
  BY <1>1, <1>2, <1>3, <1>4 DEF Items

\* A dot moved over the next literal, up to a position the item may reach.
LEMMA AdvanceFacts ==
  ASSUME TypeOK, NEW w \in Items, ~Completed(w),
         NEW j \in 0..Len(word), w.set <= j
  PROVE  /\ Advance(w, j) \in Items
         /\ Advance(w, j) = [prod |-> w.prod, from |-> w.from, set |-> j, dot |-> w.dot + 1]
<1>1. Advance(w, j) = [prod |-> w.prod, from |-> w.from, set |-> j, dot |-> w.dot + 1]
  BY DEF Advance, Item
<1>2. w.dot + 1 <= Len(w.prod.body)
  BY BodyFacts DEF Completed
<1> QED
  BY <1>1, <1>2, BodyFacts DEF Items

\* complete() adds items of the current position only.
LEMMA CompletionTypes ==
  ASSUME TypeInv, NEW x \in S, x.set = n, Completion(x)
  PROVE  /\ t' \subseteq Items
         /\ \A y \in t' : y.set = n
         /\ memo' \subseteq S \X cache
<1> USE DEF TypeInv
<1>1. x \in Items /\ n \in 0..Len(word) /\ t \subseteq Items /\ \A y \in t : y.set = n
  BY DEF TypeOK
<1>2. ASSUME NEW w \in Waiters(x)
      PROVE  /\ Advance(w, x.set) \in Items
             /\ Advance(w, x.set).set = n
  <2>1. w \in Items /\ ~Completed(w) /\ w.set <= n
    BY <1>1, BodyFacts DEF Waiters, TypeOK
  <2> QED BY <1>1, <2>1, AdvanceFacts
<1>3. \A y \in Added(x) : y \in Items /\ y.set = n
  BY <1>1, AddedFacts
<1>4. \A y \in AddedAll({Advance(w, x.set) : w \in Waiters(x)}) : y \in Items /\ y.set = n
  BY <1>2, AddedFacts DEF AddedAll
<1>5. memo' \subseteq S \X cache
  BY DEF Completion, TypeOK
<1> QED
  BY <1>1, <1>3, <1>4, <1>5 DEF Completion

LEMMA InitTypes == Init => TypeInv
<1> SUFFICES ASSUME Init PROVE TypeInv
  OBVIOUS
<1>1. gram \in Grammars /\ word \in Words /\ nullables \subseteq gram.nts
  BY DEF Init, NullablesOf
<1>2. Len(word) \in Nat
  BY <1>1, InputAssumption
<1>3. ASSUME NEW y \in t PROVE y \in Items /\ y.set = n
  <2>1. PICK p \in {q \in gram.enabled : q.head = gram.start} :
          \E k \in 0..Len(p.body) : y = Skip(Item(p, 0, 0, 0), k)
    BY <1>3 DEF Init
  <2>2. PICK k \in 0..Len(p.body) : y = Skip(Item(p, 0, 0, 0), k)
    BY <2>1
  <2>3. Len(p.body) \in Nat
    BY <1>1, GrammarFacts
  <2>4. y = [prod |-> p, from |-> 0, set |-> 0, dot |-> k]
    BY <2>2, <2>3 DEF Skip, Item
  <2> QED
    BY <1>2, <2>3, <2>4 DEF Items, Init
<1>4. /\ n \in 0..Len(word) /\ pc = "round" /\ found = FALSE
      /\ S = {} /\ c = {} /\ cache = {} /\ memo = {}
      /\ snapshot = {} /\ done = {} /\ revisit = {}
  BY <1>2 DEF Init
<1>5. t \subseteq Items /\ \A y \in t : y.set = n
  BY <1>3
<1>6. TypeOK
  BY <1>1, <1>4, <1>5 DEF TypeOK
<1>7. StageOK
  BY <1>4 DEF StageOK
<1> QED
  BY <1>6, <1>7 DEF TypeInv

\* A handler of complete items, of nonterminals, of terminals and of classes.
LEMMA ProcessTypes ==
  ASSUME TypeInv, NEW x \in snapshot, Process(x)
  PROVE  TypeInv'
<1> USE DEF TypeInv
<1>1. x \in S /\ x \in Items /\ x.set = n /\ n \in 0..Len(word) /\ pc = "process"
  BY DEF TypeOK, Process, Complete, Predict, Scan, ScanCc, Handles
<1>2. UNCHANGED input /\ n' = n /\ Items' = Items
  BY DEF Process, Complete, Predict, Scan, ScanCc, input, Items, ClassProds
<1>3. snapshot' \subseteq snapshot
  BY DEF Process, Complete, Predict, Scan, ScanCc, Handles
<1>4. CASE Complete(x)
  <2>1. /\ t' \subseteq Items /\ \A y \in t' : y.set = n
        /\ memo' \subseteq S \X cache
    BY <1>1, <1>4, CompletionTypes DEF Complete
  <2> QED
    BY <1>1, <1>2, <1>3, <1>4, <2>1 DEF Complete, TypeOK, StageOK, input, Handles, Completed, Lit
<1>5. CASE Predict(x)
  <2>1. ASSUME NEW p \in gram.enabled
        PROVE  Item(p, n, n, 0) \in Items
    <3>1. Len(p.body) \in Nat
      BY GrammarFacts DEF TypeOK
    <3> QED BY <1>1, <3>1 DEF Item, Items
  <2>2. \A y \in t' : y \in Items /\ y.set = n
    BY <1>5, <2>1, AddedFacts DEF Predict, AddedAll, Productions, TypeOK, Item
  <2>3. cache \subseteq cache' /\ cache' \subseteq cache \cup {x}
    BY <1>5 DEF Predict
  <2> QED
    BY <1>1, <1>2, <1>3, <1>5, <2>2, <2>3 DEF Predict, TypeOK, StageOK, input, Handles, Completed, Lit
<1>6. CASE Scan(x)
  <2>1. ASSUME Lit(x) = Ch PROVE /\ Advance(x, n + 1) \in Items
                                 /\ Advance(x, n + 1).set = n + 1
    <3>1. Lit(x) \in Chars \cup {Null}
      BY <1>1, <1>6, BodyFacts DEF Scan, Lits
    <3>2. n # Len(word)
      BY <2>1, <3>1, ChFacts, InputAssumption
    <3> QED BY <1>1, <1>6, <3>2, AdvanceFacts DEF Scan
  <2>2. S \subseteq S' /\ \A y \in S' : y \in Items /\ y.set <= n + 1
    BY <1>6, <2>1 DEF Scan, TypeOK
  <2> QED
    BY <1>1, <1>2, <1>3, <1>6, <2>2 DEF Scan, TypeOK, StageOK, input, Handles, Completed, Lit
<1>7. CASE ScanCc(x)
  <2> DEFINE k == Item(ClassProd(Lit(x), Ch), n, IF Ch = Eof THEN n ELSE n + 1, 1)
  <2>1. k \in Items /\ k.set <= n + 1 /\ (Ch = Eof => k.set = n)
    <3>1. Lit(x) \in DOMAIN gram.classes \cup gram.eofs /\ Ch \in Chars \cup {Eof}
      BY <1>7, ChFacts DEF ScanCc, IsCc
    <3>2. Ch # Eof => n < Len(word)
      BY <1>1, ChFacts
    <3>3. Len(ClassProd(Lit(x), Ch).body) = 1
      BY DEF ClassProd
    <3>4. k.set \in 0..Len(word) /\ n <= k.set
      BY <1>1, <3>2, InputAssumption DEF Item, TypeOK
    <3>5. k = [prod |-> ClassProd(Lit(x), Ch), from |-> n, set |-> k.set, dot |-> 1]
      BY DEF Item
    <3>6. ClassProd(Lit(x), Ch) \in ClassProds
      BY <3>1 DEF ClassProds
    <3>7. k.set <= n + 1 /\ (Ch = Eof => k.set = n)
      BY <1>1 DEF Item
    <3>8. k.prod = ClassProd(Lit(x), Ch) /\ k.from = n /\ k.dot = 1
      BY DEF Item
    <3> HIDE DEF k
    <3>9. k \in [prod : gram.enabled \cup ClassProds,
                 from : 0..Len(word), set : 0..Len(word), dot : Nat]
      BY <1>1, <3>4, <3>5, <3>6
    <3>10. Len(k.prod.body) = 1
      BY <3>3, <3>8
    <3>11. k.dot <= Len(k.prod.body) /\ k.from <= k.set
      BY <3>4, <3>8, <3>10
    <3>12. k.prod \notin gram.enabled => k.dot = 1
      BY <3>8
    <3>13. k \in Items
      BY <3>9, <3>11, <3>12 DEF Items
    <3> QED BY <3>7, <3>13
  <2>2. CASE CcAccepts(Lit(x))
    <3>1. cache' = cache \cup {x} /\ S' = S \cup {k} /\ c' \subseteq c \cup {k}
      BY <1>7, <2>2 DEF ScanCc
    <3>2. (c' # c => Ch = Eof) /\ Completed(k)
      BY <1>7, <2>2 DEF ScanCc, CcAccepts, Completed, Item, ClassProd
    <3>3. Lit(x) \in gram.nts
      BY <1>7, GrammarFacts DEF ScanCc, IsCc, TypeOK
    <3> QED
      BY <1>1, <1>2, <1>3, <1>7, <2>1, <3>1, <3>2, <3>3
      DEF ScanCc, TypeOK, StageOK, input, Handles, Completed, Lit
  <2>3. CASE ~CcAccepts(Lit(x))
    BY <1>1, <1>2, <1>3, <1>7, <2>3
    DEF ScanCc, TypeOK, StageOK, input, Handles, Completed, Lit
  <2> QED BY <2>2, <2>3
<1> QED
  BY <1>4, <1>5, <1>6, <1>7 DEF Process

\* The steps of the position loop between the handlers.
LEMMA LoopTypes ==
  ASSUME TypeInv,
         BeginRound \/ EndRound \/ EndResolve \/ NextPosition \/ Finish \/ UNCHANGED vars
  PROVE  TypeInv'
<1> USE DEF TypeInv
<1>1. Len(word) \in Nat
  BY InputAssumption DEF TypeOK
<1>2. CASE BeginRound
  <2>1. Items' = Items /\ UNCHANGED <<input, n, c, cache, memo, found>>
    BY <1>2 DEF BeginRound, input, Items, ClassProds
  <2>2. S' = S \cup t /\ t' = {} /\ pc' = "process"
    BY <1>2 DEF BeginRound
  <2>3. \A y \in S' : y \in Items /\ y.set <= n + 1
    BY <1>1, <2>2 DEF TypeOK
  <2>4. /\ done' = {x \in S' : x.set = n}
        /\ snapshot' = revisit \cup (done' \ done)
        /\ revisit' \subseteq revisit \cup (done' \ done)
    BY <1>2 DEF BeginRound
  <2>5. done \subseteq done'
    BY <2>2, <2>4 DEF TypeOK
  <2> QED
    BY <2>1, <2>2, <2>3, <2>4, <2>5 DEF TypeOK, StageOK, input, Completed, Lit
<1>3. CASE NextPosition
  <2>1. /\ n' = n + 1 /\ n < Len(word) /\ pc' = "round"
        /\ memo' = {} /\ done' = {} /\ revisit' = {}
        /\ UNCHANGED <<input, S, t, c, cache, snapshot, found>>
        /\ Items' = Items
    BY <1>3 DEF NextPosition, input, Items, ClassProds
  <2>2. t = {} /\ c = {} /\ snapshot = {}
    BY <1>3 DEF NextPosition, StageOK
  <2>3. n' \in 0..Len(word) /\ \A y \in S : y.set <= n' + 1
    <3>1. \A y \in S : y.set \in Nat
      BY BodyFacts DEF TypeOK
    <3> QED BY <1>1, <2>1, <3>1 DEF TypeOK
  <2> QED
    BY <2>1, <2>2, <2>3 DEF TypeOK, StageOK, input, Completed, Lit
<1>4. CASE EndRound \/ EndResolve \/ Finish \/ UNCHANGED vars
  <2>1. /\ UNCHANGED <<input, n, S, t, c, cache, done, revisit, snapshot>>
        /\ Items' = Items
    BY <1>4 DEF EndRound, EndResolve, Finish, vars, input, Items, ClassProds
  <2>2. memo' = memo \/ memo' = {}
    BY <1>4 DEF EndRound, EndResolve, Finish, vars
  <2>3. found' \in BOOLEAN
    <3>1. CASE Finish
      <4>1. Accepting \in BOOLEAN
        BY DEF Accepting
      <4> QED BY <3>1, <4>1 DEF Finish
    <3>2. CASE EndRound \/ EndResolve \/ UNCHANGED vars
      BY <3>2 DEF EndRound, EndResolve, vars, TypeOK
    <3> QED BY <1>4, <3>1, <3>2
  <2>4. pc' \in {"round", "process", "resolve", "advance", "done"}
    BY <1>4 DEF EndRound, EndResolve, Finish, vars, TypeOK
  <2>5. StageOK'
    BY <1>4 DEF EndRound, EndResolve, Finish, vars, StageOK
  <2> QED
    BY <2>1, <2>2, <2>3, <2>4, <2>5 DEF TypeOK, input, Completed, Lit
<1> QED
  BY <1>2, <1>3, <1>4

LEMMA ParkedTypes ==
  ASSUME TypeInv, NEW x \in c, CompleteParked(x)
  PROVE  TypeInv'
<1> USE DEF TypeInv
<1>1. x \in S /\ x.set = n
  BY DEF TypeOK
<1>2. /\ t' \subseteq Items /\ \A y \in t' : y.set = n
      /\ memo' \subseteq S \X cache
  BY <1>1, CompletionTypes DEF CompleteParked
<1>3. /\ UNCHANGED <<input, n, S, cache, snapshot, done, revisit, pc, found>>
      /\ Items' = Items
      /\ c' \subseteq c /\ pc = "resolve"
  BY DEF CompleteParked, input, Items, ClassProds
<1> QED
  BY <1>2, <1>3 DEF TypeOK, StageOK, input, Completed, Lit

LEMMA StepTypes == TypeInv /\ [Next]_vars => TypeInv'
BY ProcessTypes, LoopTypes, ParkedTypes DEF Next, Stopped

\* The variables keep their types: a chart item ends at most one position
\* ahead, what is added or parked belongs to the current position, and a
\* waiting item always has a nonterminal next.
THEOREM EarleyTypeOK == Spec => []TypeOK
<1>1. Init => TypeInv
  BY InitTypes
<1>2. TypeInv /\ [Next]_vars => TypeInv'
  BY StepTypes
<1>3. TypeInv => TypeOK
  BY DEF TypeInv
<1> QED
  BY <1>1, <1>2, <1>3, PTL DEF Spec
-------------------------------------------------------------------------------
(***************************************************************************)
(* Soundness.  The chart is sound as long as the nullable shortcut only    *)
(* jumps over literals that derive the empty word, and a completed item    *)
(* stands for a span of its head.                                          *)
(***************************************************************************)
SoundInv ==
  /\ TypeInv
  /\ lang = Spans[gram][word]
  /\ nullables = NullablesOf(gram.nts, gram.prods)
  /\ ChartSound

\* No literal is matched before the first: the empty cut.
LEMMA BodyZero ==
  ASSUME NEW g, NEW w, NEW R, NEW body, NEW i \in Nat
  PROVE  BodySpan(g, w, R, body, 0, i, i)
<1> DEFINE f == [m \in 0..0 |-> i]
<1>1. f \in [0..0 -> i..i] /\ f[0] = i
  OBVIOUS
<1>2. \A k \in 1..0 : LitSpan(g, w, R, body[k], f[k-1], f[k])
  OBVIOUS
<1> HIDE DEF f
<1> QED
  BY <1>1, <1>2 DEF BodySpan

\* A matched prefix grows by a literal that matches next.
LEMMA BodyStep ==
  ASSUME NEW g, NEW w, NEW R, NEW body, NEW d \in Nat,
         NEW i \in Nat, NEW j \in Nat, NEW k \in Nat, i <= j, j <= k,
         BodySpan(g, w, R, body, d, i, j),
         LitSpan(g, w, R, body[d + 1], j, k)
  PROVE  BodySpan(g, w, R, body, d + 1, i, k)
<1>1. PICK f \in [0..d -> i..j] :
        /\ f[0] = i /\ f[d] = j
        /\ \A q \in 1..d : LitSpan(g, w, R, body[q], f[q-1], f[q])
  BY DEF BodySpan
<1> DEFINE h == [m \in 0..(d + 1) |-> IF m <= d THEN f[m] ELSE k]
<1>2. h \in [0..(d + 1) -> i..k]
  BY <1>1
<1>3. h[0] = i /\ h[d + 1] = k /\ h[d] = j
  BY <1>1
<1>4. ASSUME NEW q \in 1..(d + 1)
      PROVE  LitSpan(g, w, R, body[q], h[q-1], h[q])
  <2>1. CASE q = d + 1
    <3>1. h[q-1] = j /\ h[q] = k
      BY <1>3, <2>1
    <3> QED BY <2>1, <3>1
  <2>2. CASE q \in 1..d
    <3>1. h[q-1] = f[q-1] /\ h[q] = f[q]
      BY <2>2
    <3> QED BY <1>1, <2>2, <3>1
  <2> QED BY <2>1, <2>2
<1> HIDE DEF h
<1> QED
  BY <1>2, <1>3, <1>4 DEF BodySpan

\* A matched prefix grows over literals that match the empty word.
LEMMA BodySkip ==
  ASSUME NEW g, NEW w, NEW R, NEW body, NEW d \in Nat, NEW m \in Nat,
         NEW i \in Nat, NEW j \in Nat, i <= j,
         BodySpan(g, w, R, body, d, i, j),
         \A q \in 1..m : LitSpan(g, w, R, body[d + q], j, j)
  PROVE  BodySpan(g, w, R, body, d + m, i, j)
<1>1. PICK f \in [0..d -> i..j] :
        /\ f[0] = i /\ f[d] = j
        /\ \A q \in 1..d : LitSpan(g, w, R, body[q], f[q-1], f[q])
  BY DEF BodySpan
<1> DEFINE h == [q \in 0..(d + m) |-> IF q <= d THEN f[q] ELSE j]
<1>2. h \in [0..(d + m) -> i..j]
  <2>1. ASSUME NEW q \in 0..(d + m) PROVE (IF q <= d THEN f[q] ELSE j) \in i..j
    BY <1>1
  <2> QED BY <2>1
<1>3. h[0] = i /\ h[d + m] = j
  <2>1. 0 \in 0..(d + m) /\ d + m \in 0..(d + m) /\ 0 <= d /\ (d + m <= d => d + m = d)
    OBVIOUS
  <2>2. h[0] = f[0]
    BY <2>1
  <2>3. h[d + m] = IF d + m <= d THEN f[d + m] ELSE j
    BY <2>1
  <2> HIDE DEF h
  <2> QED BY <1>1, <2>1, <2>2, <2>3
<1>4. ASSUME NEW q \in 1..(d + m)
      PROVE  LitSpan(g, w, R, body[q], h[q-1], h[q])
  <2>1. CASE q \in 1..d
    <3>1. h[q-1] = f[q-1] /\ h[q] = f[q]
      BY <2>1
    <3> QED BY <1>1, <2>1, <3>1
  <2>2. CASE q > d
    <3>1. q - 1 \in 0..(d + m) /\ q - 1 >= d /\ (q - 1 <= d => q - 1 = d)
      BY <2>2
    <3>2a. h[q-1] = j
      BY <1>1, <3>1
    <3>2b. h[q] = j
      BY <2>2
    <3>2. q - d \in 1..m /\ d + (q - d) = q
      BY <2>2
    <3>3. LitSpan(g, w, R, body[q], j, j)
      BY <3>2
    <3> QED BY <3>2a, <3>2b, <3>3
  <2> QED BY <2>1, <2>2
<1> HIDE DEF h
<1> QED
  BY <1>2, <1>3, <1>4 DEF BodySpan

\* A prefix whose literals all match the empty word does.
LEMMA BodyEmpty ==
  ASSUME NEW g, NEW w, NEW R, NEW body, NEW m \in Nat, NEW i \in Nat,
         \A q \in 1..m : LitSpan(g, w, R, body[q], i, i)
  PROVE  BodySpan(g, w, R, body, m, i, i)
<1>1. i <= i /\ BodySpan(g, w, R, body, 0, i, i)
  BY BodyZero
<1>2. \A q \in 1..m : LitSpan(g, w, R, body[0 + q], i, i)
  OBVIOUS
<1>3. BodySpan(g, w, R, body, 0 + m, i, i)
  BY <1>1, <1>2, BodySkip
<1> QED
  BY <1>3

\* A nullable symbol derives the empty word at every position: the symbols
\* that do are closed under the enabled productions, and so hold the least
\* such set.
LEMMA NullableSpans ==
  ASSUME GuardsKeepNullables, NEW g \in Grammars, NEW w \in Words,
         NEW X \in NullablesOf(g.nts, g.prods), NEW j \in 0..Len(w)
  PROVE  <<X, j, j>> \in Spans[g][w]
<1> DEFINE N == {Y \in g.nts : \A i \in 0..Len(w) : <<Y, i, i>> \in Spans[g][w]}
<1>1. Len(w) \in Nat
  BY InputAssumption
<1>2. ASSUME NEW p \in g.enabled, \A k \in DOMAIN p.body : p.body[k] \in N \cup {Null}
      PROVE  p.head \in N
  <2>1. p.body \in Seq(Lits(g)) /\ p.head \in g.nts
    BY GrammarFacts
  <2>2. Len(p.body) \in Nat /\ DOMAIN p.body = 1..Len(p.body)
    BY <2>1
  <2>3. ASSUME NEW i \in 0..Len(w) PROVE <<p.head, i, i>> \in Spans[g][w]
    <3>1. i \in Nat /\ i <= i
      BY <1>1
    <3>2. \A q \in 1..Len(p.body) : LitSpan(g, w, Spans[g][w], p.body[q], i, i)
      BY <1>2, <2>2 DEF LitSpan
    <3>3. BodySpan(g, w, Spans[g][w], p.body, Len(p.body), i, i)
      BY <2>2, <3>1, <3>2, BodyEmpty
    <3> QED BY <1>1, <3>1, <3>3, SpansAssumption
  <2> QED BY <2>1, <2>3
<1>3. N \in SUBSET g.nts /\ NullClosed(g.enabled, N)
  BY <1>2 DEF NullClosed
<1>4. X \in NullablesOf(g.nts, g.enabled)
  BY DEF GuardsKeepNullables
<1>5. X \in N
  BY <1>3, <1>4 DEF NullablesOf
<1> QED
  BY <1>5

\* A literal the dot may skip matches the empty word where it stands.
LEMMA SkippableSpans ==
  ASSUME GuardsKeepNullables, SoundInv,
         NEW l \in nullables \cup {Null}, NEW j \in 0..Len(word)
  PROVE  LitSpan(gram, word, lang, l, j, j)
BY NullableSpans DEF SoundInv, TypeInv, TypeOK, LitSpan

\* What add() puts into t with a sound item is sound.
LEMMA AddedSound ==
  ASSUME GuardsKeepNullables, SoundInv,
         NEW x \in Items, Backed(x), NEW y \in Added(x)
  PROVE  Backed(y)
<1>1. TypeOK
  BY DEF SoundInv, TypeInv
<1>2. PICK k \in 0..(Len(x.prod.body) - x.dot) :
        /\ y = Skip(x, k)
        /\ \A q \in 0..k : q < k => Nullable(Skip(x, q))
  BY DEF Added
<1>3. /\ y.prod = x.prod /\ y.from = x.from /\ y.set = x.set /\ y.dot = x.dot + k
      /\ k \in Nat /\ x.dot \in Nat /\ Len(x.prod.body) \in Nat
  BY <1>1, <1>2, BodyFacts DEF Skip, Item
<1>4. CASE k = 0
  BY <1>3, <1>4 DEF Backed
<1>5. CASE k # 0
  <2>1. ~Completed(x) /\ x.prod \in gram.enabled
    BY <1>1, <1>2, <1>3, <1>5, BodyFacts DEF Completed
  <2>2. ~IsCc(gram, x.prod.head)
    BY <1>1, <2>1, GrammarFacts DEF IsCc, TypeOK
  <2>3. x.from \in Nat /\ x.set \in Nat /\ x.from <= x.set /\ x.set \in 0..Len(word)
    BY <1>1, BodyFacts DEF Items
  <2>4. ASSUME NEW q \in 1..k
        PROVE  LitSpan(gram, word, lang, x.prod.body[x.dot + q], x.set, x.set)
    <3>1. q - 1 \in 0..k /\ q - 1 < k /\ (x.dot + (q - 1)) + 1 = x.dot + q
      BY <1>3
    <3>2. Nullable(Skip(x, q - 1))
      BY <1>2, <3>1
    <3>3. x.prod.body[x.dot + q] \in nullables \cup {Null}
      BY <3>1, <3>2 DEF Nullable, Lit, Skip, Item
    <3> QED BY <2>3, <3>3, SkippableSpans
  <2>5. BodySpan(gram, word, lang, x.prod.body, x.dot, x.from, x.set)
    BY <2>2 DEF Backed
  <2>6. BodySpan(gram, word, lang, x.prod.body, x.dot + k, x.from, x.set)
    BY <1>3, <2>3, <2>4, <2>5, BodySkip
  <2> QED
    BY <1>3, <2>1, <2>2, <2>6 DEF Backed
<1> QED
  BY <1>4, <1>5

\* A dot moved over a literal that matches keeps an item sound.
LEMMA AdvanceSound ==
  ASSUME SoundInv, NEW w \in Items, ~Completed(w), Backed(w),
         NEW j \in 0..Len(word), w.set <= j,
         LitSpan(gram, word, lang, Lit(w), w.set, j)
  PROVE  Backed(Advance(w, j))
<1>1. TypeOK
  BY DEF SoundInv, TypeInv
<1>2. w.prod \in gram.enabled /\ w.dot \in Nat /\ w.from \in Nat /\ w.set \in Nat
      /\ w.from <= w.set /\ j \in Nat
  BY <1>1, BodyFacts
<1>3. ~IsCc(gram, w.prod.head)
  BY <1>1, <1>2, GrammarFacts DEF IsCc, TypeOK
<1>4. BodySpan(gram, word, lang, w.prod.body, w.dot, w.from, w.set)
  BY <1>3 DEF Backed
<1>5. BodySpan(gram, word, lang, w.prod.body, w.dot + 1, w.from, j)
  BY <1>2, <1>4, BodyStep DEF Lit
<1>6. Advance(w, j) = [prod |-> w.prod, from |-> w.from, set |-> j, dot |-> w.dot + 1]
  BY <1>1, AdvanceFacts
<1> QED
  BY <1>2, <1>3, <1>5, <1>6 DEF Backed

\* A completed sound item is a span of its head.
LEMMA CompletedSpans ==
  ASSUME SoundInv, NEW x \in Items, Completed(x), Backed(x)
  PROVE  LitSpan(gram, word, lang, x.prod.head, x.from, x.set)
<1>1. CASE IsCc(gram, x.prod.head)
  BY <1>1 DEF Backed
<1>2. CASE ~IsCc(gram, x.prod.head)
  <2>1. x.prod \in gram.enabled
        /\ BodySpan(gram, word, lang, x.prod.body, Len(x.prod.body), x.from, x.set)
    BY <1>2 DEF Backed, Completed
  <2>2. gram \in Grammars /\ word \in Words /\ lang = Spans[gram][word]
    BY DEF SoundInv, TypeInv, TypeOK
  <2>3. x.from \in 0..Len(word) /\ x.set \in x.from..Len(word)
    BY <2>2, InputAssumption DEF Items
  <2>4. <<x.prod.head, x.from, x.set>> \in lang
    BY <2>1, <2>2, <2>3, SpansAssumption
  <2> QED BY <2>4 DEF LitSpan
<1> QED
  BY <1>1, <1>2

\* complete() adds sound items.
LEMMA CompletionSound ==
  ASSUME GuardsKeepNullables, SoundInv, NEW x \in S, Completed(x), Completion(x)
  PROVE  \A y \in t' : Backed(y)
<1>1. TypeOK /\ x \in Items /\ Backed(x)
  BY DEF SoundInv, TypeInv, TypeOK, ChartSound
<1>2. LitSpan(gram, word, lang, x.prod.head, x.from, x.set)
  BY <1>1, CompletedSpans
<1>3. ASSUME NEW w \in Waiters(x)
      PROVE  Advance(w, x.set) \in Items /\ Backed(Advance(w, x.set))
  <2>1. /\ w \in S /\ w \in Items /\ ~Completed(w) /\ Backed(w)
        /\ w.set = x.from /\ Lit(w) = x.prod.head
    BY <1>1 DEF Waiters, TypeOK, SoundInv, ChartSound
  <2>2. x.set \in 0..Len(word) /\ w.set <= x.set
    BY <1>1, <2>1 DEF Items
  <2> QED BY <1>1, <1>2, <2>1, <2>2, AdvanceFacts, AdvanceSound
<1>4. \A y \in Added(x) : Backed(y)
  BY <1>1, AddedSound
<1>5. \A y \in AddedAll({Advance(w, x.set) : w \in Waiters(x)}) : Backed(y)
  BY <1>3, AddedSound DEF AddedAll
<1>6. \A y \in t : Backed(y)
  BY DEF SoundInv, ChartSound
<1> QED
  BY <1>4, <1>5, <1>6 DEF Completion

LEMMA InitSound ==
  ASSUME GuardsKeepNullables, Init
  PROVE  SoundInv
<1>1. TypeInv /\ TypeOK
  BY InitTypes DEF TypeInv
<1>2. /\ gram \in Grammars /\ word \in Words /\ lang = Spans[gram][word]
      /\ nullables = NullablesOf(gram.nts, gram.prods) /\ S = {}
  BY DEF Init
<1>3. ASSUME NEW y \in t PROVE Backed(y)
  <2>1. PICK p \in {q \in gram.enabled : q.head = gram.start} :
          \E k \in {m \in 0..Len(p.body) : \A q \in 1..m :
                     p.body[q] \in nullables \cup {Null}} :
            y = Skip(Item(p, 0, 0, 0), k)
    BY <1>3 DEF Init
  <2>2. PICK k \in {m \in 0..Len(p.body) : \A q \in 1..m :
                     p.body[q] \in nullables \cup {Null}} :
            y = Skip(Item(p, 0, 0, 0), k)
    BY <2>1
  <2>3. Len(p.body) \in Nat /\ ~IsCc(gram, p.head)
    BY <1>2, GrammarFacts DEF IsCc
  <2>4. k \in Nat /\ 0 + k = k /\ 0 \in 0..Len(word)
    BY <1>2, <2>3, InputAssumption
  <2>5. y.prod = p /\ y.from = 0 /\ y.set = 0 /\ y.dot = k
    BY <2>2, <2>4 DEF Skip, Item
  <2>6. ASSUME NEW q \in 1..k
        PROVE  LitSpan(gram, word, lang, p.body[q], 0, 0)
    <3>1. p.body[q] \in nullables \cup {Null}
      BY <2>2
    <3> QED
      BY <1>2, <2>4, <3>1, NullableSpans DEF LitSpan
  <2>7. BodySpan(gram, word, lang, p.body, k, 0, 0)
    BY <2>4, <2>6, BodyEmpty
  <2> QED
    BY <2>1, <2>3, <2>4, <2>5, <2>7 DEF Backed
<1> QED
  BY <1>1, <1>2, <1>3 DEF SoundInv, ChartSound

\* A handler adds sound items only.
LEMMA ProcessSound ==
  ASSUME EofIsNoCharacter, GuardsKeepNullables, SoundInv,
         NEW x \in snapshot, Process(x)
  PROVE  \A y \in S' \cup t' : Backed(y)
<1>1. /\ TypeOK /\ x \in S /\ x \in Items /\ x.set = n /\ Backed(x)
      /\ n \in 0..Len(word) /\ Len(word) \in Nat
  BY InputAssumption DEF SoundInv, TypeInv, TypeOK, ChartSound
<1>2. \A y \in S \cup t : Backed(y)
  BY DEF SoundInv, ChartSound
<1>3. CASE Complete(x)
  <2>1. Completed(x) /\ Completion(x) /\ S' = S
    BY <1>3 DEF Complete
  <2>2. \A y \in t' : Backed(y)
    BY <1>1, <2>1, CompletionSound
  <2> QED BY <1>2, <2>1, <2>2
<1>4. CASE Predict(x)
  <2>1. ASSUME NEW p \in gram.enabled
        PROVE  Item(p, n, n, 0) \in Items /\ Backed(Item(p, n, n, 0))
    <3>1. Len(p.body) \in Nat /\ n \in Nat
      BY <1>1, GrammarFacts DEF TypeOK
    <3>2. Item(p, n, n, 0) = [prod |-> p, from |-> n, set |-> n, dot |-> 0]
      BY DEF Item
    <3>3. Item(p, n, n, 0) \in Items
      BY <1>1, <3>1, <3>2 DEF Items
    <3>4. ~IsCc(gram, p.head)
      BY <1>1, GrammarFacts DEF IsCc, TypeOK
    <3>5. BodySpan(gram, word, lang, p.body, 0, n, n)
      BY <3>1, BodyZero
    <3> QED BY <3>2, <3>3, <3>4, <3>5 DEF Backed
  <2> QED
    BY <1>2, <1>4, <2>1, AddedSound DEF Predict, AddedAll, Productions
<1>5. CASE Scan(x)
  <2>1. CASE Lit(x) = Ch
    <3>1. Lit(x) \in Chars \cup {Null} /\ ~Completed(x)
      BY <1>1, <1>5, BodyFacts DEF Scan, Lits
    <3>2. Ch \in Chars /\ n < Len(word) /\ Ch = word[n + 1]
      BY <1>1, <2>1, <3>1, ChFacts, InputAssumption
    <3>3. LitSpan(gram, word, lang, Lit(x), x.set, n + 1) /\ n + 1 \in 0..Len(word)
      BY <1>1, <2>1, <3>2 DEF LitSpan
    <3>4. Backed(Advance(x, n + 1))
      BY <1>1, <3>1, <3>3, AdvanceSound
    <3> QED BY <1>2, <1>5, <3>4 DEF Scan
  <2>2. CASE Lit(x) # Ch
    BY <1>2, <1>5, <2>2 DEF Scan
  <2> QED BY <2>1, <2>2
<1>6. CASE ScanCc(x)
  <2> DEFINE k == Item(ClassProd(Lit(x), Ch), n, IF Ch = Eof THEN n ELSE n + 1, 1)
  <2>1. CASE CcAccepts(Lit(x))
    <3>1. /\ k.prod.head = Lit(x) /\ k.dot = 1 /\ k.from = n
          /\ k.set = IF Ch = Eof THEN n ELSE n + 1
      BY DEF Item, ClassProd
    <3>2. IsCc(gram, Lit(x))
      BY <1>6 DEF ScanCc
    <3>3. LitSpan(gram, word, lang, Lit(x), n, k.set)
      <4>1. CASE Lit(x) \in gram.eofs
        BY <1>1, <2>1, <3>1, <4>1, ChFacts DEF CcAccepts, LitSpan
      <4>2. CASE Lit(x) \notin gram.eofs
        <5>1. Lit(x) \in DOMAIN gram.classes /\ Ch \in gram.classes[Lit(x)]
          BY <2>1, <3>2, <4>2 DEF CcAccepts, IsCc
        <5>2. Ch # Eof
          BY <1>1, <5>1 DEF EofIsNoCharacter, TypeOK
        <5>3. n < Len(word) /\ Ch = word[n + 1]
          BY <1>1, <5>2, ChFacts
        <5> QED BY <1>1, <3>1, <5>1, <5>2, <5>3 DEF LitSpan
      <4> QED BY <4>1, <4>2
    <3>4. Backed(k)
      BY <3>1, <3>2, <3>3 DEF Backed
    <3>5. S' = S \cup {k} /\ t' = t
      BY <1>6, <2>1 DEF ScanCc
    <3> QED BY <1>2, <3>4, <3>5
  <2>2. CASE ~CcAccepts(Lit(x))
    BY <1>2, <1>6, <2>2 DEF ScanCc
  <2> QED BY <2>1, <2>2
<1> QED
  BY <1>3, <1>4, <1>5, <1>6 DEF Process

LEMMA StepSound ==
  ASSUME EofIsNoCharacter, GuardsKeepNullables, SoundInv, [Next]_vars
  PROVE  SoundInv'
<1>1. TypeInv'
  BY StepTypes DEF SoundInv
<1>2. UNCHANGED input
  BY DEF Next, Process, Complete, Predict, Scan, ScanCc, CompleteParked, Stopped,
         BeginRound, EndRound, EndResolve, NextPosition, Finish, vars, input
<1>3. \A y \in S' \cup t' : Backed(y)
  <2>1. CASE \E x \in snapshot : Process(x)
    BY <2>1, ProcessSound
  <2>2. CASE \E x \in c : CompleteParked(x)
    <3>1. PICK x \in c : CompleteParked(x)
      BY <2>2
    <3>2. x \in S /\ Completed(x)
      BY DEF SoundInv, TypeInv, TypeOK
    <3>3. \A y \in t' : Backed(y)
      BY <3>1, <3>2, CompletionSound DEF CompleteParked
    <3>4. S' = S
      BY <3>1 DEF CompleteParked
    <3> QED BY <3>2, <3>3, <3>4 DEF SoundInv, ChartSound
  <2>3. CASE BeginRound
    BY <2>3 DEF BeginRound, SoundInv, ChartSound
  <2>4. CASE EndRound \/ EndResolve \/ NextPosition \/ Finish \/ UNCHANGED vars
    BY <2>4 DEF EndRound, EndResolve, NextPosition, Finish, vars, SoundInv, ChartSound
  <2> QED BY <2>1, <2>2, <2>3, <2>4 DEF Next, Stopped
<1>4. ChartSound'
  BY <1>2, <1>3 DEF ChartSound, Backed, IsCc, input
<1> QED
  BY <1>1, <1>2, <1>4 DEF SoundInv, input

\* The chart is sound, for every grammar and every input: the literals before
\* the dot of an item derive the input between from and set, although
\* prediction skips nullable literals and looks one character ahead.  A class
\* must not accept the end of the input, and the productions that the guards
\* switch off must not make a symbol nullable.
THEOREM EarleyChartSound ==
  ASSUME EofIsNoCharacter, GuardsKeepNullables
  PROVE  Spec => []ChartSound
<1>1. Init => SoundInv
  BY InitSound
<1>2. SoundInv /\ [Next]_vars => SoundInv'
  BY StepSound
<1>3. SoundInv => ChartSound
  BY DEF SoundInv
<1> QED
  BY <1>1, <1>2, <1>3, PTL DEF Spec

(***************************************************************************)
(* The answer.  found is only set from the chart, by Finish.               *)
(***************************************************************************)
FoundInv == found => InLanguage

LEMMA AcceptingSound ==
  ASSUME SoundInv, Accepting, n = Len(word)
  PROVE  InLanguage
<1>1. /\ gram \in Grammars /\ word \in Words /\ S \subseteq Items
      /\ Len(word) \in Nat /\ n \in Nat
  BY InputAssumption DEF SoundInv, TypeInv, TypeOK
<1>2. PICK p \in gram.enabled :
        p.head = gram.start /\ Item(p, 0, n, Len(p.body)) \in S
  BY DEF Accepting
<1> DEFINE x == Item(p, 0, n, Len(p.body))
<1>3. x.prod = p /\ x.from = 0 /\ x.set = n /\ x.dot = Len(p.body)
  BY DEF Item
<1>4. ~IsCc(gram, p.head)
  BY <1>1, GrammarFacts DEF IsCc
<1>5. BodySpan(gram, word, lang, p.body, Len(p.body), 0, n)
  BY <1>2, <1>3, <1>4 DEF SoundInv, ChartSound, Backed
<1>6. 0 \in 0..Len(word) /\ n \in 0..Len(word)
  BY <1>1
<1> QED
  BY <1>1, <1>2, <1>5, <1>6, SpansAssumption DEF SoundInv, InLanguage

LEMMA StepFound ==
  ASSUME SoundInv, FoundInv, [Next]_vars
  PROVE  FoundInv'
<1>1. UNCHANGED input
  BY DEF Next, Process, Complete, Predict, Scan, ScanCc, CompleteParked, Stopped,
         BeginRound, EndRound, EndResolve, NextPosition, Finish, vars, input
<1>2. CASE Finish
  BY <1>1, <1>2, AcceptingSound DEF Finish, FoundInv, InLanguage, input
<1>3. CASE ~Finish
  <2>1. found' = found
    BY <1>3 DEF Next, Process, Complete, Predict, Scan, ScanCc, CompleteParked,
                Stopped, BeginRound, EndRound, EndResolve, NextPosition, vars
  <2> QED BY <1>1, <2>1 DEF FoundInv, InLanguage, input
<1> QED
  BY <1>2, <1>3

\* parse() reports found only for an input that the enabled productions
\* derive from the start symbol.
THEOREM EarleyAcceptsOnlyMembers ==
  ASSUME EofIsNoCharacter, GuardsKeepNullables
  PROVE  Spec => []AcceptsOnlyMembers
<1>1. Init => SoundInv /\ FoundInv
  BY InitSound DEF Init, FoundInv
<1>2. SoundInv /\ FoundInv /\ [Next]_vars => SoundInv' /\ FoundInv'
  BY StepSound, StepFound
<1>3. FoundInv => AcceptsOnlyMembers
  BY DEF FoundInv, AcceptsOnlyMembers
<1> QED
  BY <1>1, <1>2, <1>3, PTL DEF Spec
-------------------------------------------------------------------------------
(***************************************************************************)
(* The collector.  It may lose items, but it makes up none: the handlers   *)
(* are those of Earley, and what is taken out of the chart is taken out of *)
(* the waiting items, too.  With the lag 0 the last position is left       *)
(* without items that a round has taken up, so types end with the answer.  *)
(***************************************************************************)
CollectedInv ==
  /\ pc # "done" => SoundInv
  /\ ChartSound /\ FoundInv

\* a step of the loop, a handler or nothing
Plain == [Next]_vars /\ pc # "done"

\* A step is one of Earley, a full round or the end of a position.
LEMMA CollectedSteps ==
  ASSUME [CollectedNext]_CollectedVars
  PROVE  Plain \/ FullRound \/ LeavePosition \/ (pc = "done" /\ UNCHANGED vars)
<1>1. CASE \E x \in snapshot : Process(x) /\ Collect(x)
  BY <1>1 DEF Plain, Next, Process, Complete, Predict, Scan, ScanCc, Handles
<1>2. CASE \E x \in c : CompleteParked(x) /\ Collect(x)
  BY <1>2 DEF Plain, Next, CompleteParked
<1>3. CASE ~On /\ Next
  <2>1. CASE pc = "done"
    BY <1>3, <2>1 DEF Next, Process, Complete, Predict, Scan, ScanCc, Handles, CompleteParked,
       Stopped, BeginRound, EndRound, EndResolve, NextPosition, Finish
  <2> QED BY <1>3, <2>1 DEF Plain
<1>4. CASE EndRound \/ EndResolve \/ Stopped
  BY <1>4 DEF Plain, Next, EndRound, EndResolve, Stopped
<1>5. CASE UNCHANGED CollectedVars
  BY <1>5 DEF Plain, CollectedVars
<1> QED
  BY <1>1, <1>2, <1>3, <1>4, <1>5 DEF CollectedNext

\* a round that takes up every item of the position
LEMMA FullRoundSound ==
  ASSUME SoundInv, FullRound
  PROVE  SoundInv'
<1>1. Items' = Items /\ UNCHANGED <<input, n, c, cache, memo, found>>
  BY DEF FullRound, input, Items, ClassProds
<1>2. S' = S \cup t /\ t' = {} /\ pc = "round" /\ pc' = "process"
  BY DEF FullRound
<1>3. /\ done' = {x \in S' : x.set = n} /\ snapshot' = done' /\ revisit' \subseteq done'
  BY DEF FullRound
<1>4. TypeOK /\ Len(word) \in Nat
  BY InputAssumption DEF SoundInv, TypeInv, TypeOK
<1>5. \A y \in S' : y \in Items /\ y.set <= n + 1
  BY <1>2, <1>4 DEF TypeOK
<1>6. TypeOK'
  BY <1>1, <1>2, <1>3, <1>4, <1>5 DEF TypeOK, input, Completed, Lit
<1>7. StageOK'
  BY <1>2 DEF StageOK
<1>8. ChartSound'
  BY <1>1, <1>2 DEF SoundInv, ChartSound, Backed, IsCc, input
<1> QED
  BY <1>1, <1>6, <1>7, <1>8 DEF SoundInv, TypeInv, input

\* what is left of the chart is sound, and the answer is read from it
LEMMA LeavePositionSound ==
  ASSUME SoundInv, FoundInv, LeavePosition
  PROVE  /\ pc' # "done" => SoundInv'
         /\ ChartSound' /\ FoundInv'
<1>1. /\ UNCHANGED <<input, t, c, snapshot>> /\ Items' = Items
      /\ S' \subseteq S /\ cache' \subseteq cache /\ cache' \subseteq S' /\ memo' = {}
  BY DEF LeavePosition, input, Items, ClassProds, SoundInv, TypeInv, TypeOK
<1>2. TypeOK /\ Len(word) \in Nat
  BY InputAssumption DEF SoundInv, TypeInv, TypeOK
<1>3. t = {} /\ c = {} /\ snapshot = {}
  BY DEF LeavePosition, SoundInv, TypeInv, StageOK
<1>4. ChartSound'
  BY <1>1 DEF SoundInv, ChartSound, Backed, IsCc, input
<1>5. CASE pc' = "round"
  <2>1. n' = n + 1 /\ n < Len(word) /\ done' = {} /\ revisit' = {} /\ found' = found
    BY <1>5 DEF LeavePosition
  <2>2. n' \in 0..Len(word) /\ \A y \in S' : y.set <= n' + 1
    <3>1. \A y \in S : y.set \in Nat /\ y.set <= n + 1
      BY <1>2, BodyFacts DEF TypeOK
    <3> QED BY <1>1, <1>2, <2>1, <3>1 DEF TypeOK
  <2>3. TypeOK'
    BY <1>1, <1>2, <1>3, <1>5, <2>1, <2>2 DEF TypeOK, input, Completed, Lit
  <2>4. StageOK'
    BY <1>1, <1>3, <1>5 DEF StageOK
  <2> QED
    BY <1>1, <1>4, <2>1, <2>3, <2>4 DEF SoundInv, TypeInv, FoundInv, InLanguage, input
<1>6. CASE pc' = "done"
  <2>1. n = Len(word) /\ n' = n /\ found' = Accepting'
    BY <1>6 DEF LeavePosition
  <2>2. Accepting' => Accepting
    BY <1>1, <2>1 DEF Accepting, input
  <2>3. InLanguage' = InLanguage
    BY <1>1 DEF InLanguage, input
  <2> QED BY <1>4, <1>6, <2>1, <2>2, <2>3, AcceptingSound DEF FoundInv
<1> QED
  BY <1>5, <1>6 DEF LeavePosition

\* The start is the one of Earley.
LEMMA StartCollected ==
  ASSUME GuardsKeepNullables, CollectedInit
  PROVE  CollectedInv
BY InitSound DEF CollectedInit, CollectedInv, FoundInv, SoundInv, Init

\* Every step keeps the chart and the answer sound.
LEMMA StepCollected ==
  ASSUME EofIsNoCharacter, GuardsKeepNullables, CollectedInv, [CollectedNext]_CollectedVars
  PROVE  CollectedInv'
<1>1. CASE Plain
  BY <1>1, StepSound, StepFound DEF Plain, CollectedInv, SoundInv
<1>2. CASE FullRound
  <2>1. SoundInv'
    BY <1>2, FullRoundSound DEF CollectedInv, FullRound
  <2>2. FoundInv'
    BY <1>2 DEF FullRound, CollectedInv, FoundInv, InLanguage, input
  <2> QED BY <2>1, <2>2 DEF CollectedInv, SoundInv
<1>3. CASE LeavePosition
  BY <1>3, LeavePositionSound DEF CollectedInv, LeavePosition
<1>4. CASE pc = "done" /\ UNCHANGED vars
  BY <1>4 DEF CollectedInv, ChartSound, Backed, IsCc, FoundInv, InLanguage, vars
<1> QED
  BY <1>1, <1>2, <1>3, <1>4, CollectedSteps

\* The chart is sound with the collector, too, whatever it counts and with
\* every lag.
THEOREM CollectedChartSound ==
  ASSUME EofIsNoCharacter, GuardsKeepNullables
  PROVE  CollectedSpec => []ChartSound
<1>1. CollectedInv => ChartSound
  BY DEF CollectedInv
<1> QED
  BY StartCollected, StepCollected, <1>1, PTL DEF CollectedSpec

\* With the collector a member may be lost, but no other input is accepted.
THEOREM CollectedAcceptsOnlyMembers ==
  ASSUME EofIsNoCharacter, GuardsKeepNullables
  PROVE  CollectedSpec => []AcceptsOnlyMembers
<1>1. CollectedInv => AcceptsOnlyMembers
  BY DEF CollectedInv, FoundInv, AcceptsOnlyMembers
<1> QED
  BY StartCollected, StepCollected, <1>1, PTL DEF CollectedSpec

\* A parse without the collector is a parse of Earley.
THEOREM CollectorOffIsEarley == CollectedSpec /\ ~On => Spec
<1>1. CollectedInit => Init
  BY DEF CollectedInit
<1>2. ~On /\ [CollectedNext]_CollectedVars => ~On' /\ [Next]_vars
  BY DEF On, CollectedNext, FullRound, LeavePosition, Collect, CollectedVars, collector
<1> QED
  BY <1>1, <1>2, PTL DEF CollectedSpec, Spec

-------------------------------------------------------------------------------
(***************************************************************************)
(* What the theorems about completeness assume of the grammars.            *)
(***************************************************************************)
SpansAreLeast == \A g \in Grammars, w \in Words : LeastSpans(g, w)

EmptySpansAreNullable == \A g \in Grammars, w \in Words : NullablesTell(g, w)

(***************************************************************************)
(* Completeness.  What a handler owes for an item is paid when the item    *)
(* leaves the snapshot, and nothing that was added to the chart, to t, to  *)
(* the waiting items or to the class items is taken back while a position  *)
(* is processed.                                                           *)
(***************************************************************************)
Chart == S \cup t

\* tcur at position i, and what predict and scan_cc_function decide by it
ChAt(i) == IF i < Len(word) THEN word[i + 1] ELSE Eof

CanStart(p, i) ==
  p.body # <<>> =>
    LET l == p.body[1]
    IN  /\ l \in Chars => l = ChAt(i)
        /\ l \in gram.eofs => ChAt(i) = Eof
        /\ l \in DOMAIN gram.classes => ChAt(i) \in gram.classes[l]

AcceptsAt(l, i) == IF l \in gram.eofs THEN ChAt(i) = Eof ELSE ChAt(i) \in gram.classes[l]

ClassItem(l, i) == Item(ClassProd(l, ChAt(i)), i, IF ChAt(i) = Eof THEN i ELSE i + 1, 1)

\* the items no handler has to see again
Handled == {x \in S : x.set < n} \cup (done \ snapshot)

Predicted(x) ==
  Lit(x) \in gram.nts /\ ~IsCc(gram, Lit(x)) =>
    /\ Productions(Lit(x)) # {} => x \in cache
    /\ \A p \in Productions(Lit(x)) :
         CanStart(p, x.set) => Item(p, x.set, x.set, 0) \in Chart

Scanned(x) ==
  Lit(x) \notin gram.nts /\ Lit(x) = ChAt(x.set) => Advance(x, x.set + 1) \in S

ScannedCc(x) ==
  IsCc(gram, Lit(x)) /\ AcceptsAt(Lit(x), x.set) =>
    x \in cache /\ ClassItem(Lit(x), x.set) \in S

HandledInv == \A x \in Handled : ~Completed(x) => Predicted(x) /\ Scanned(x) /\ ScannedCc(x)

Waits(w, x) == w.set = x.from /\ Lit(w) = x.prod.head

\* a completed item has advanced what waits for it
Carried(x) == \A w \in cache : Waits(w, x) => Advance(w, x.set) \in Chart

CompletedInv == \A x \in Handled : Completed(x) /\ x.from # x.set => Carried(x)

MemoInv ==
  \A m \in memo : Lit(m[2]) = m[1].prod.head => Advance(m[2], m[1].set) \in Chart

\* an item waits for eof at the end of the input only, and the eof item that
\* completes later still is in c
ParkedInv ==
  \A w \in cache : Lit(w) \in gram.eofs =>
    /\ ChAt(w.set) = Eof
    /\ ClassItem(Lit(w), w.set) \in c \/ Advance(w, w.set) \in Chart

StartInv == \A p \in Productions(gram.start) : Item(p, 0, 0, 0) \in Chart

NullInv == \A x \in Chart : ~Completed(x) /\ Lit(x) = Null => Skip(x, 1) \in Chart

\* a round takes up all of S[n]; only a class that accepts the end of the
\* input puts another item there
TakenInv ==
  pc # "round" \/ t # {} =>
    \A x \in S : x.set = n =>
      x \in done \/ (Completed(x) /\ x.from = x.set /\ IsCc(gram, x.prod.head))

RevisitInv == \A x \in done : MustRevisit(x) => x \in revisit

AheadInv ==
  /\ \A w \in cache : w.set <= n
  /\ \A x \in S : x.set = n + 1 => x.from <= n

\* only a scan leaves a nullable literal unskipped, and then the item waits
\* before its literal can complete with an empty span
Unskipped(w) ==
  w.set = n /\ ~Completed(w) /\ Lit(w) \in nullables /\ Skip(w, 1) \notin Chart

CompletedHere(X) ==
  \E z \in S : z.set = n /\ z.from = n /\ Completed(z) /\ z.prod.head = X

UnskippedInv ==
  \A w \in Chart : Unskipped(w) => w \in S /\ (CompletedHere(Lit(w)) => w \in cache)

WorkInv ==
  /\ TypeInv
  /\ nullables = NullablesOf(gram.nts, gram.prods)
  /\ HandledInv /\ CompletedInv /\ MemoInv /\ ParkedInv /\ StartInv /\ NullInv
  /\ TakenInv /\ RevisitInv /\ AheadInv /\ UnskippedInv

\* The items add() puts into t: x is there afterwards, and so is the skip
\* over each nullable literal on the way.
LEMMA SkipZero ==
  ASSUME TypeOK, NEW x \in Items
  PROVE  Skip(x, 0) = x
<1>1. x = [prod |-> x.prod, from |-> x.from, set |-> x.set, dot |-> x.dot]
      /\ x.dot + 0 = x.dot
  BY BodyFacts DEF Items
<1> QED
  BY <1>1 DEF Skip, Item

LEMMA AddedHolds ==
  ASSUME TypeOK, NEW x \in Items
  PROVE  x \in S \cup t \cup Added(x)
<1>1. SUFFICES ASSUME x \notin S \cup t PROVE x \in Added(x)
  OBVIOUS
<1>2. Skip(x, 0) = x
  BY SkipZero
<1>3. 0 \in 0..(Len(x.prod.body) - x.dot)
  BY BodyFacts
<1>4. /\ \A q \in 0..0 : Skip(x, q) \notin S \cup t
      /\ \A q \in 0..0 : q < 0 => Nullable(Skip(x, q))
  BY <1>1, <1>2
<1> QED
  BY <1>2, <1>3, <1>4 DEF Added

LEMMA AddedSkips ==
  ASSUME TypeOK, NEW x \in Items, NEW y \in Added(x), Nullable(y)
  PROVE  Skip(y, 1) \in S \cup t \cup Added(x)
<1>1. PICK k \in 0..(Len(x.prod.body) - x.dot) :
        /\ y = Skip(x, k)
        /\ \A q \in 0..k : Skip(x, q) \notin S \cup t
        /\ \A q \in 0..k : q < k => Nullable(Skip(x, q))
  BY DEF Added
<1>2. x.dot \in Nat /\ Len(x.prod.body) \in Nat /\ x.dot <= Len(x.prod.body)
  BY BodyFacts
<1>3. y.prod = x.prod /\ y.dot = x.dot + k /\ y.from = x.from /\ y.set = x.set
  BY <1>1 DEF Skip, Item
<1>4. y.dot # Len(x.prod.body)
  BY <1>3 DEF Nullable, Completed
<1>5. k + 1 \in 0..(Len(x.prod.body) - x.dot)
  BY <1>1, <1>2, <1>3, <1>4
<1>6. (x.dot + k) + 1 = x.dot + (k + 1)
  BY <1>2
<1>7. Skip(y, 1) = Skip(x, k + 1)
  BY <1>3, <1>6 DEF Skip
<1>8. SUFFICES ASSUME Skip(x, k + 1) \notin S \cup t
      PROVE  Skip(x, k + 1) \in Added(x)
  BY <1>7
<1>9. \A q \in 0..(k + 1) : q \in 0..k \/ q = k + 1
  BY <1>1
<1>10. \A q \in 0..(k + 1) : Skip(x, q) \notin S \cup t
  BY <1>1, <1>8, <1>9
<1>11. \A q \in 0..(k + 1) : q < k + 1 => Nullable(Skip(x, q))
  <2> SUFFICES ASSUME NEW q \in 0..(k + 1), q < k + 1 PROVE Nullable(Skip(x, q))
    OBVIOUS
  <2>1. q \in 0..k /\ (q < k \/ q = k)
    BY <1>1
  <2> QED BY <1>1, <2>1
<1> QED
  BY <1>5, <1>10, <1>11 DEF Added

\* The same for the items of a call that adds several.
LEMMA AddedAllFacts ==
  ASSUME TypeOK, NEW X \in SUBSET Items
  PROVE  /\ X \subseteq S \cup t \cup AddedAll(X)
         /\ \A y \in AddedAll(X) :
              /\ y \in Items
              /\ \E x \in X : y.set = x.set
              /\ Nullable(y) => Skip(y, 1) \in S \cup t \cup AddedAll(X)
<1>1. \A x \in X : x \in S \cup t \cup Added(x) /\ Added(x) \subseteq AddedAll(X)
  BY AddedHolds DEF AddedAll
<1>2. ASSUME NEW y \in AddedAll(X)
      PROVE  /\ y \in Items
             /\ \E x \in X : y.set = x.set
             /\ Nullable(y) => Skip(y, 1) \in S \cup t \cup AddedAll(X)
  <2>1. PICK x \in X : y \in Added(x)
    BY DEF AddedAll
  <2>2. x \in Items
    OBVIOUS
  <2> QED BY <1>1, <2>1, <2>2, AddedFacts, AddedSkips
<1> QED
  BY <1>1, <1>2

\* A nullable symbol is the head of a production, and so no class and no eof.
LEMMA NullableHeads ==
  ASSUME NEW g \in Grammars, NEW X \in NullablesOf(g.nts, g.prods)
  PROVE  X \in g.nts /\ ~IsCc(g, X)
<1> DEFINE N == {p.head : p \in g.prods}
<1>1. N \subseteq g.nts /\ NullClosed(g.prods, N)
  BY GrammarFacts DEF NullClosed
<1>2. X \in N /\ X \in g.nts
  BY <1>1 DEF NullablesOf
<1> QED
  BY <1>2, GrammarFacts DEF IsCc

(***************************************************************************)
(* What a step between two positions may do: it only adds.                 *)
(***************************************************************************)
Grows ==
  /\ UNCHANGED input
  /\ S \subseteq S' /\ Chart \subseteq Chart' /\ cache \subseteq cache'

\* an item add() has put into t, and one a scan has put into the chart
InTurn(y) == y.set = n /\ (Nullable(y) => Skip(y, 1) \in Chart')

Ahead(y) ==
  \/ y.set = n + 1 /\ y.from <= n /\ y.dot >= 1
  \/ y.set = n /\ y.from = n /\ Completed(y) /\ IsCc(gram, y.prod.head)

Adds ==
  /\ Grows /\ n' = n
  /\ \A y \in t' \ t : InTurn(y)
  /\ \A y \in S' \ S : y \in Items /\ Ahead(y)
  /\ \A w \in cache' \ cache : w \in snapshot /\ w.set = n

\* complete() of an item of this position: what waits for it is advanced, and
\* the memo keeps its promise.
LEMMA CompletionAdds ==
  ASSUME TypeInv, MemoInv, NEW x \in S, x.set = n, Completion(x), UNCHANGED S
  PROVE  /\ Chart \subseteq Chart'
         /\ \A y \in t' \ t : InTurn(y)
         /\ \A w \in cache : Waits(w, x) => Advance(w, n) \in Chart'
         /\ \A m \in memo' : Lit(m[2]) = m[1].prod.head => Advance(m[2], m[1].set) \in Chart'
<1> DEFINE X == {Advance(w, x.set) : w \in Waiters(x)}
<1>1. TypeOK /\ x \in Items /\ n \in 0..Len(word) /\ cache \subseteq S /\ S \subseteq Items
  BY DEF TypeInv, TypeOK
<1>2. t' = t \cup Added(x) \cup AddedAll(X)
  BY DEF Completion
<1>3. Chart \subseteq Chart' /\ Added(x) \subseteq Chart' /\ AddedAll(X) \subseteq Chart'
  BY <1>2 DEF Chart
<1>4. ASSUME NEW w \in Waiters(x)
      PROVE  Advance(w, x.set) \in Items /\ Advance(w, x.set).set = n
  <2>1. w \in Items /\ ~Completed(w) /\ w.set <= n
    BY <1>1, BodyFacts DEF Waiters, TypeOK
  <2> QED BY <1>1, <2>1, AdvanceFacts
<1>5. X \in SUBSET Items /\ \A y \in X : y.set = n
  BY <1>4
<1>6. /\ X \subseteq Chart'
      /\ \A y \in AddedAll(X) : y.set = n /\ (Nullable(y) => Skip(y, 1) \in Chart')
  <2> HIDE DEF X
  <2> QED BY <1>1, <1>3, <1>5, AddedAllFacts DEF Chart
<1>7. \A y \in Added(x) : y.set = n /\ (Nullable(y) => Skip(y, 1) \in Chart')
  BY <1>1, <1>3, AddedFacts, AddedSkips DEF Chart
<1>8. \A y \in t' \ t : InTurn(y)
  BY <1>2, <1>6, <1>7 DEF InTurn
<1>9. ASSUME NEW w \in cache, Waits(w, x)
      PROVE  Advance(w, n) \in Chart'
  <2>1. CASE <<x, w>> \in memo
    <3>1. Advance(<<x, w>>[2], <<x, w>>[1].set) \in Chart
      BY <1>9, <2>1 DEF MemoInv, Waits
    <3> QED BY <1>3, <3>1
  <2>2. CASE <<x, w>> \notin memo
    <3>1. w \in Waiters(x)
      BY <1>1, <1>9, <2>2 DEF Waiters, Waits
    <3> QED BY <1>6, <3>1
  <2> QED BY <2>1, <2>2
<1>10. ASSUME NEW m \in memo', Lit(m[2]) = m[1].prod.head
       PROVE  Advance(m[2], m[1].set) \in Chart'
  <2>1. CASE m \in memo
    BY <1>3, <1>10, <2>1 DEF MemoInv
  <2>2. CASE m \notin memo
    <3>1. PICK w \in {v \in cache : v.set = x.from} : m = <<x, w>>
      BY <2>2 DEF Completion
    <3>2. m[1] = x /\ m[2] = w
      BY <3>1
    <3> QED BY <1>9, <1>10, <3>1, <3>2 DEF Waits
  <2> QED BY <2>1, <2>2
<1> QED
  BY <1>3, <1>8, <1>9, <1>10

LEMMA CompleteAdds ==
  ASSUME TypeInv, MemoInv, NEW x \in snapshot, Complete(x)
  PROVE  Adds /\ MemoInv'
<1>1. x \in S /\ x.set = n /\ Completion(x) /\ UNCHANGED <<input, n, S, cache>>
  BY DEF TypeInv, TypeOK, Complete
<1>2. Chart \subseteq Chart' /\ \A y \in t' \ t : InTurn(y)
  BY <1>1, CompletionAdds
<1>3. \A m \in memo' : Lit(m[2]) = m[1].prod.head => Advance(m[2], m[1].set) \in Chart'
  BY <1>1, CompletionAdds
<1> QED
  BY <1>1, <1>2, <1>3 DEF Adds, Grows, MemoInv, Lit, Advance

LEMMA ParkedAdds ==
  ASSUME TypeInv, MemoInv, NEW x \in c, CompleteParked(x)
  PROVE  Adds /\ MemoInv'
<1>1. x \in S /\ x.set = n /\ Completion(x) /\ UNCHANGED <<input, n, S, cache>>
  BY DEF TypeInv, TypeOK, CompleteParked
<1>2. Chart \subseteq Chart' /\ \A y \in t' \ t : InTurn(y)
  BY <1>1, CompletionAdds
<1>3. \A m \in memo' : Lit(m[2]) = m[1].prod.head => Advance(m[2], m[1].set) \in Chart'
  BY <1>1, CompletionAdds
<1> QED
  BY <1>1, <1>2, <1>3 DEF Adds, Grows, MemoInv, Lit, Advance

\* predict(x) adds what x predicts.
LEMMA PredictAdds ==
  ASSUME TypeInv, MemoInv, NEW x \in snapshot, Predict(x)
  PROVE  Adds /\ MemoInv' /\ Predicted(x)'
<1> DEFINE Q == {q \in Productions(Lit(x)) : FirstCanMatch(q)}
           X == {Item(p, n, n, 0) : p \in Q}
<1>1. /\ TypeOK /\ x \in S /\ x \in Items /\ x.set = n /\ n \in 0..Len(word)
      /\ gram \in Grammars
  BY DEF TypeInv, TypeOK
<1>2. t' = t \cup AddedAll(X) /\ UNCHANGED <<input, n, S, memo>>
  BY DEF Predict
<1>3. ASSUME NEW p \in gram.enabled
      PROVE  Item(p, n, n, 0) \in Items /\ Item(p, n, n, 0).set = n
  <2>1. Len(p.body) \in Nat
    BY <1>1, GrammarFacts
  <2> QED BY <1>1, <2>1 DEF Item, Items
<1>4. X \in SUBSET Items /\ \A y \in X : y.set = n
  BY <1>3 DEF Productions
<1>5. /\ X \subseteq S \cup t \cup AddedAll(X)
      /\ \A y \in AddedAll(X) :
           y.set = n /\ (Nullable(y) => Skip(y, 1) \in S \cup t \cup AddedAll(X))
  <2> HIDE DEF X
  <2> QED BY <1>1, <1>4, AddedAllFacts
<1>6. Chart \subseteq Chart' /\ X \subseteq Chart' /\ \A y \in t' \ t : InTurn(y)
  <2> HIDE DEF X
  <2> QED BY <1>2, <1>5 DEF Chart, InTurn
<1>7. cache \subseteq cache' /\ cache' \subseteq cache \cup {x}
  BY DEF Predict
<1>8. Adds
  BY <1>1, <1>2, <1>6, <1>7 DEF Adds, Grows
<1>9. MemoInv'
  BY <1>2, <1>6 DEF MemoInv, Lit, Advance
<1>10. ASSUME NEW p \in Productions(Lit(x)), CanStart(p, n)
       PROVE  Item(p, n, n, 0) \in Chart'
  <2>1. FirstCanMatch(p)
    BY <1>10 DEF FirstCanMatch, CanStart, Ch, ChAt
  <2> QED BY <1>6, <2>1
<1>11. Productions(Lit(x)) # {} => x \in cache'
  BY DEF Predict
<1>12. /\ \A p : CanStart(p, n)' = CanStart(p, n)
       /\ Productions(Lit(x))' = Productions(Lit(x))
       /\ \A p : Item(p, n, n, 0)' = Item(p, n, n, 0)
       /\ x.set' = n
  BY <1>1, <1>2 DEF CanStart, ChAt, Productions, Lit, Item, input
<1>13. \A p \in Productions(Lit(x))' : CanStart(p, x.set)' => Item(p, x.set, x.set, 0)' \in Chart'
  BY <1>1, <1>2, <1>10 DEF CanStart, ChAt, Productions, Lit, Item, input
<1> QED
  BY <1>1, <1>8, <1>9, <1>11, <1>12, <1>13 DEF Predicted

LEMMA HandledTypes ==
  ASSUME TypeInv, NEW x \in snapshot, Process(x), UNCHANGED input
  PROVE  \A y \in S' : y \in Items
<1>1. TypeInv'
  BY ProcessTypes
<1>2. Items' = Items
  BY DEF Items, ClassProds, input
<1> QED
  BY <1>1, <1>2 DEF TypeInv, TypeOK

\* scan(x) puts the advanced item in the next set of the chart.
LEMMA ScanAdds ==
  ASSUME TypeInv, MemoInv, NEW x \in snapshot, Scan(x)
  PROVE  Adds /\ MemoInv' /\ Scanned(x)' /\ S' \ S \subseteq {Advance(x, n + 1)}
<1>1. /\ TypeOK /\ x \in S /\ x \in Items /\ x.set = n /\ n \in 0..Len(word)
      /\ gram \in Grammars /\ x.dot \in Nat /\ x.from <= n
  BY BodyFacts DEF TypeInv, TypeOK
<1>2. UNCHANGED <<input, n, t, cache, memo>>
      /\ S' = IF Lit(x) = Ch THEN S \cup {Advance(x, n + 1)} ELSE S
  BY DEF Scan
<1>3. /\ Advance(x, n + 1).set = n + 1 /\ Advance(x, n + 1).from <= n
      /\ Advance(x, n + 1).dot >= 1
  BY <1>1 DEF Advance, Item
<1>4. \A y \in S' : y \in Items
  BY <1>2, HandledTypes DEF Process
<1>5. Adds
  BY <1>2, <1>3, <1>4 DEF Adds, Grows, Chart, Ahead
<1>6. MemoInv'
  BY <1>2 DEF MemoInv, Lit, Advance, Chart
<1>7. Scanned(x)'
  BY <1>1, <1>2 DEF Scanned, ChAt, Ch, Lit, Advance, Item, input
<1> QED
  BY <1>2, <1>5, <1>6, <1>7

\* scan_cc_function(x) puts the class in the chart and x among the waiting.
LEMMA ScanCcAdds ==
  ASSUME TypeInv, MemoInv, NEW x \in snapshot, ScanCc(x)
  PROVE  /\ Adds /\ MemoInv' /\ ScannedCc(x)'
         /\ c \subseteq c'
         /\ x \in cache' /\ Lit(x) \in gram.eofs =>
              x \in cache \/ (ChAt(n) = Eof /\ ClassItem(Lit(x), n) \in c')
<1> DEFINE k == ClassItem(Lit(x), n)
<1>1. /\ TypeOK /\ x \in S /\ x \in Items /\ x.set = n /\ n \in 0..Len(word)
      /\ gram \in Grammars
  BY DEF TypeInv, TypeOK
<1>2. UNCHANGED <<input, n, t, memo>> /\ IsCc(gram, Lit(x))
  BY DEF ScanCc
<1>3. k = Item(ClassProd(Lit(x), Ch), n, IF Ch = Eof THEN n ELSE n + 1, 1)
  BY DEF ClassItem, ChAt, Ch
<1>4. IF CcAccepts(Lit(x))
      THEN /\ cache' = cache \cup {x} /\ S' = S \cup {k}
           /\ c' = IF Lit(x) \in gram.eofs THEN c \cup {k} ELSE c
      ELSE UNCHANGED <<cache, S, c>>
  BY <1>3 DEF ScanCc
<1>5. CcAccepts(Lit(x)) <=> AcceptsAt(Lit(x), n)
  BY DEF CcAccepts, AcceptsAt, ChAt, Ch
<1>6. Ahead(k)
  <2>1. /\ k.prod.head = Lit(x) /\ k.dot = 1 /\ k.from = n /\ Len(k.prod.body) = 1
        /\ k.set = n \/ k.set = n + 1
    BY <1>3 DEF Item, ClassProd
  <2> HIDE DEF k
  <2> QED BY <1>1, <1>2, <2>1 DEF Ahead, Completed
<1>7. \A y \in S' : y \in Items
  BY <1>2, HandledTypes DEF Process
<1> HIDE DEF k
<1>8. Adds
  BY <1>1, <1>2, <1>4, <1>6, <1>7 DEF Adds, Grows, Chart
<1>9. MemoInv'
  BY <1>2, <1>4 DEF MemoInv, Lit, Advance, Chart
<1>10. AcceptsAt(Lit(x), n)' = AcceptsAt(Lit(x), n) /\ ClassItem(Lit(x), n)' = k
  BY <1>2 DEF AcceptsAt, ChAt, Lit, ClassItem, ClassProd, Item, input, k
<1>11. ScannedCc(x)'
  BY <1>1, <1>2, <1>4, <1>5, <1>10 DEF ScannedCc, k, input, ClassItem, ClassProd, Item, ChAt, AcceptsAt, Lit
<1> QED
  BY <1>4, <1>5, <1>8, <1>9, <1>11 DEF k, AcceptsAt

(***************************************************************************)
(* What was paid for an item stays paid.                                   *)
(***************************************************************************)
Paid(x) == ~Completed(x) => Predicted(x) /\ Scanned(x) /\ ScannedCc(x)

LEMMA PaidStays ==
  ASSUME Grows, NEW x, Paid(x)
  PROVE  Paid(x)'
<1>1. gram' = gram /\ word' = word
  BY DEF Grows, input
<1>2. /\ \A p, i : CanStart(p, i)' <=> CanStart(p, i)
      /\ \A l, i : AcceptsAt(l, i)' <=> AcceptsAt(l, i)
      /\ \A l, i : ClassItem(l, i)' = ClassItem(l, i)
      /\ \A l : Productions(l)' = Productions(l)
      /\ \A i : ChAt(i)' = ChAt(i)
  BY <1>1 DEF CanStart, AcceptsAt, ClassItem, ClassProd, Item, Productions, ChAt
<1>3. Completed(x)' = Completed(x) /\ Lit(x)' = Lit(x)
  BY DEF Completed, Lit
<1>4. CASE Completed(x)
  BY <1>3, <1>4 DEF Paid
<1>5. CASE ~Completed(x)
  <2>1. Predicted(x)'
    BY <1>1, <1>2, <1>5 DEF Paid, Predicted, Grows, Lit
  <2>2. Scanned(x)'
    BY <1>1, <1>2, <1>5 DEF Paid, Scanned, Grows, Lit, Advance
  <2>3. ScannedCc(x)'
    BY <1>1, <1>2, <1>5 DEF Paid, ScannedCc, Grows, Lit
  <2> QED BY <2>1, <2>2, <2>3 DEF Paid
<1> QED
  BY <1>4, <1>5

LEMMA HandledStays ==
  ASSUME HandledInv, Grows, \A y \in Handled' : y \in Handled \/ Paid(y)'
  PROVE  HandledInv'
<1>1. ASSUME NEW y \in Handled' PROVE Paid(y)'
  <2>1. CASE y \in Handled
    <3>1. Paid(y)
      BY <2>1 DEF HandledInv, Paid
    <3> QED BY <3>1, PaidStays
  <2> QED BY <1>1, <2>1
<1> QED
  BY <1>1 DEF HandledInv, Paid

\* The start items, the null literals and the two bounds, while a position
\* is processed.
LEMMA AddsKeep ==
  ASSUME WorkInv, Adds
  PROVE  StartInv' /\ NullInv' /\ AheadInv'
<1>1. TypeInv /\ TypeOK /\ gram' = gram /\ nullables' = nullables /\ n' = n /\ n \in Nat
  BY InputAssumption DEF WorkInv, TypeInv, TypeOK, Adds, Grows, input
<1>2. StartInv'
  BY <1>1 DEF WorkInv, StartInv, Adds, Grows, Productions, Item
<1>3. ASSUME NEW y \in Chart', ~Completed(y), Lit(y) = Null
      PROVE  Skip(y, 1) \in Chart'
  <2>1. CASE y \in Chart
    BY <1>3, <2>1 DEF WorkInv, NullInv, Adds, Grows
  <2>2. CASE y \in t' \ t
    BY <1>3, <2>2 DEF Adds, InTurn, Nullable
  <2>3. CASE y \in S' \ S
    <3>1. y \in Items /\ y.dot >= 1
      BY <1>1, <1>3, <2>3 DEF Adds, Ahead
    <3>2. /\ y.prod \in gram.enabled /\ y.dot \in Nat /\ Len(y.prod.body) \in Nat
          /\ y.dot < Len(y.prod.body)
      BY <1>1, <1>3, <3>1, BodyFacts DEF Completed
    <3>3. y.prod \in gram.prods /\ y.prod.body \in Seq(Lits(gram))
      BY <1>1, <3>2, GrammarFacts DEF TypeOK
    <3>4. y.dot + 1 \in DOMAIN y.prod.body /\ y.prod.body[y.dot + 1] = Null
      BY <1>3, <3>2, <3>3 DEF Lit
    <3>5. Len(y.prod.body) = 1
      BY <1>1, <3>3, <3>4, InputAssumption DEF IsGrammar, TypeOK
    <3> QED BY <3>1, <3>2, <3>5
  <2> QED BY <2>1, <2>2, <2>3 DEF Chart
<1>4. NullInv'
  BY <1>3 DEF NullInv, Completed, Lit, Skip, Item
<1>5. AheadInv'
  <2>1. \A w \in cache' : w.set <= n
    BY <1>1 DEF WorkInv, AheadInv, Adds
  <2>2. ASSUME NEW y \in S', y.set = n + 1 PROVE y.from <= n
    BY <1>1, <2>2 DEF WorkInv, AheadInv, Adds, Ahead
  <2> QED BY <1>1, <2>1, <2>2 DEF AheadInv
<1> QED
  BY <1>2, <1>4, <1>5

\* An item whose nullable literal is not skipped was so before, and no item
\* with an empty span of that literal has come since.
LEMMA AddsUnskipped ==
  ASSUME WorkInv, Adds
  PROVE  UnskippedInv'
<1>1. /\ TypeInv /\ TypeOK /\ gram' = gram /\ nullables' = nullables /\ n' = n
      /\ n \in Nat /\ gram \in Grammars
  BY InputAssumption DEF WorkInv, TypeInv, TypeOK, Adds, Grows, input
<1>2. SUFFICES ASSUME NEW w \in Chart', w.set = n, ~Completed(w), Lit(w) \in nullables,
                      Skip(w, 1) \notin Chart'
      PROVE  w \in S' /\ (CompletedHere(Lit(w))' => w \in cache')
  BY <1>1 DEF UnskippedInv, Unskipped, Completed, Lit, Skip, Item
<1>3. w \in Chart
  <2>1. w \notin t' \ t
    BY <1>2 DEF Adds, InTurn, Nullable
  <2>2. w \notin S' \ S
    BY <1>1, <1>2 DEF Adds, Ahead
  <2> QED BY <2>1, <2>2 DEF Chart
<1>4. Unskipped(w)
  BY <1>2 DEF Unskipped, Adds, Grows
<1>5. w \in S /\ (CompletedHere(Lit(w)) => w \in cache)
  BY <1>3, <1>4 DEF WorkInv, UnskippedInv
<1>6. ASSUME CompletedHere(Lit(w))'
      PROVE  CompletedHere(Lit(w))
  <2>1. PICK z \in S' : z.set = n /\ z.from = n /\ Completed(z) /\ z.prod.head = Lit(w)
    BY <1>1, <1>6 DEF CompletedHere, Completed, Lit
  <2>2. ~IsCc(gram, z.prod.head)
    BY <1>1, <1>2, <2>1, NullableHeads DEF WorkInv
  <2>3. z \in S
    BY <1>1, <2>1, <2>2 DEF Adds, Ahead
  <2> QED BY <2>1, <2>3 DEF CompletedHere
<1> QED
  BY <1>5, <1>6 DEF Adds, Grows

\* The completions that count are not disturbed by what starts to wait here.
LEMMA CarriedStays ==
  ASSUME WorkInv, Adds, NEW y \in Handled, Completed(y), y.from # y.set
  PROVE  Carried(y)'
<1>1. /\ TypeInv /\ TypeOK /\ n' = n /\ n \in Nat
  BY InputAssumption DEF WorkInv, TypeInv, TypeOK, Adds
<1>2. y \in S /\ y \in Items /\ y.set <= n
  BY <1>1, BodyFacts DEF Handled, TypeOK
<1>3. y.from < y.set /\ y.from \in Nat /\ y.set \in Nat
  BY <1>1, <1>2, BodyFacts
<1>4. Carried(y)
  BY DEF WorkInv, CompletedInv
<1>5. ASSUME NEW w \in cache', Waits(w, y)
      PROVE  Advance(w, y.set) \in Chart'
  <2>1. w \in cache
    BY <1>1, <1>2, <1>3, <1>5 DEF Adds, Waits
  <2> QED BY <1>4, <1>5, <2>1 DEF Carried, Adds, Grows
<1> QED
  BY <1>5 DEF Carried, Waits, Advance, Item, Lit

LEMMA ProcessWork ==
  ASSUME WorkInv, NEW x \in snapshot, Process(x)
  PROVE  WorkInv'
<1>1. /\ TypeInv /\ TypeOK /\ MemoInv /\ HandledInv /\ CompletedInv /\ ParkedInv
      /\ TakenInv /\ RevisitInv /\ n \in Nat /\ gram \in Grammars
  BY InputAssumption DEF WorkInv, TypeInv, TypeOK
<1>2. /\ UNCHANGED <<input, n, done, revisit, pc>>
      /\ pc = "process" /\ snapshot' = snapshot \ {x}
  BY DEF Process, Complete, Predict, Scan, ScanCc, Handles
<1>3. x \in S /\ x \in Items /\ x.set = n /\ x \in done
  BY <1>1 DEF TypeOK
<1>4. Adds /\ MemoInv'
  BY <1>1, CompleteAdds, PredictAdds, ScanAdds, ScanCcAdds DEF Process
<1>5. TypeInv' /\ (nullables = NullablesOf(gram.nts, gram.prods))'
  BY <1>1, <1>2, ProcessTypes DEF WorkInv, input
<1>6. StartInv' /\ NullInv' /\ AheadInv' /\ UnskippedInv'
  BY <1>4, AddsKeep, AddsUnskipped
<1>7. Handled' \subseteq Handled \cup {x}
  <2>1. \A y \in S' : y.set < n => y \in S
    BY <1>1, <1>4 DEF Adds, Ahead
  <2> QED BY <1>2, <2>1 DEF Handled
<1>8. Paid(x)'
  <2>1. Completed(x)' = Completed(x) /\ Lit(x)' = Lit(x)
    BY DEF Completed, Lit
  <2>2. gram' = gram
    BY <1>2 DEF input
  <2>3. CASE Complete(x)
    BY <2>1, <2>3 DEF Complete, Paid
  <2>4. CASE Predict(x)
    <3>1. Predicted(x)'
      BY <1>1, <2>4, PredictAdds
    <3>2. Lit(x) \in gram.nts /\ ~IsCc(gram, Lit(x))
      BY <2>4 DEF Predict
    <3>3. Scanned(x)' /\ ScannedCc(x)'
      BY <2>2, <3>2 DEF Scanned, ScannedCc, Lit
    <3> QED BY <3>1, <3>3 DEF Paid
  <2>5. CASE Scan(x)
    <3>1. Scanned(x)'
      BY <1>1, <2>5, ScanAdds
    <3>2. Lit(x) \notin gram.nts /\ ~IsCc(gram, Lit(x))
      BY <1>1, <2>5, GrammarFacts DEF Scan, IsCc
    <3>3. Predicted(x)' /\ ScannedCc(x)'
      BY <2>2, <3>2 DEF Predicted, ScannedCc, Lit
    <3> QED BY <3>1, <3>3 DEF Paid
  <2>6. CASE ScanCc(x)
    <3>1. ScannedCc(x)'
      BY <1>1, <2>6, ScanCcAdds
    <3>2. Lit(x) \in gram.nts /\ IsCc(gram, Lit(x))
      BY <1>1, <2>6, GrammarFacts DEF ScanCc, IsCc
    <3>3. Predicted(x)' /\ Scanned(x)'
      BY <2>2, <3>2 DEF Predicted, Scanned, Lit
    <3> QED BY <3>1, <3>3 DEF Paid
  <2> QED BY <2>3, <2>4, <2>5, <2>6 DEF Process
<1>9. HandledInv'
  BY <1>1, <1>4, <1>7, <1>8, HandledStays DEF Adds
<1>10. CompletedInv'
  <2>1. ASSUME NEW y \in Handled', Completed(y), y.from # y.set PROVE Carried(y)'
    <3>1. CASE y \in Handled
      BY <2>1, <3>1, <1>4, CarriedStays
    <3>2. CASE y = x
      <4>1. Complete(x)
        BY <2>1, <3>2 DEF Process, Complete, Predict, Scan, ScanCc
      <4>2. Completion(x) /\ UNCHANGED <<S, cache>>
        BY <4>1 DEF Complete
      <4>3. \A w \in cache : Waits(w, x) => Advance(w, n) \in Chart'
        BY <1>1, <1>3, <4>2, CompletionAdds
      <4> QED BY <1>3, <3>2, <4>2, <4>3 DEF Carried, Waits, Advance, Item, Lit
    <3> QED BY <1>7, <2>1, <3>1, <3>2
  <2> QED BY <2>1 DEF CompletedInv, Completed
<1>11. ParkedInv'
  <2>1. ASSUME NEW w \in cache', Lit(w) \in gram.eofs
        PROVE  /\ ChAt(w.set) = Eof
               /\ ClassItem(Lit(w), w.set) \in c' \/ Advance(w, w.set) \in Chart'
    <3>1. c \subseteq c'
      BY ScanCcAdds, <1>1 DEF Process, Complete, Predict, Scan
    <3>2. CASE w \in cache
      BY <1>1, <1>4, <2>1, <3>1, <3>2 DEF ParkedInv, Adds, Grows
    <3>3. CASE w \notin cache
      <4>1. CASE ScanCc(x)
        <5>1. w = x
          BY <3>3, <4>1, <2>1 DEF ScanCc
        <5> QED BY <1>1, <1>3, <2>1, <3>3, <4>1, <5>1, ScanCcAdds
      <4>2. CASE Predict(x)
        <5>1. w = x
          BY <3>3, <4>2, <2>1 DEF Predict
        <5> QED BY <2>1, <4>2, <5>1 DEF Predict, IsCc
      <4> QED BY <2>1, <3>3, <4>1, <4>2 DEF Process, Complete, Scan
    <3> QED BY <3>2, <3>3
  <2>2. gram' = gram /\ word' = word
    BY <1>2 DEF input
  <2> QED BY <2>1, <2>2 DEF ParkedInv, Lit, ClassItem, ClassProd, ChAt, Item, Advance
<1>12. TakenInv'
  <2>1. ASSUME NEW y \in S', y.set = n
        PROVE  y \in done \/ (Completed(y) /\ y.from = y.set /\ IsCc(gram, y.prod.head))
    <3>1. CASE y \in S
      BY <1>1, <1>2, <2>1, <3>1 DEF TakenInv
    <3>2. CASE y \notin S
      BY <1>1, <1>4, <2>1, <3>2 DEF Adds, Ahead
    <3> QED BY <3>1, <3>2
  <2> QED BY <1>2, <2>1 DEF TakenInv, input, Completed
<1>13. RevisitInv'
  BY <1>1, <1>2 DEF RevisitInv, MustRevisit, Completed
<1> QED
  BY <1>4, <1>5, <1>6, <1>9, <1>10, <1>11, <1>12, <1>13 DEF WorkInv

LEMMA ParkedWork ==
  ASSUME WorkInv, NEW x \in c, CompleteParked(x)
  PROVE  WorkInv'
<1>1. /\ TypeInv /\ TypeOK /\ MemoInv /\ HandledInv /\ CompletedInv /\ ParkedInv
      /\ TakenInv /\ RevisitInv /\ n \in Nat /\ gram \in Grammars
  BY InputAssumption DEF WorkInv, TypeInv, TypeOK
<1>2. /\ UNCHANGED <<input, n, S, cache, snapshot, done, revisit, pc>>
      /\ pc = "resolve" /\ c' = c \ {x} /\ Completion(x)
  BY DEF CompleteParked
<1>3. x \in S /\ x \in Items /\ x.set = n /\ Completed(x)
  BY <1>1 DEF TypeOK
<1>4. Adds /\ MemoInv'
  BY <1>1, ParkedAdds
<1>5. TypeInv' /\ (nullables = NullablesOf(gram.nts, gram.prods))'
  BY <1>1, <1>2, ParkedTypes DEF WorkInv, input
<1>6. StartInv' /\ NullInv' /\ AheadInv' /\ UnskippedInv'
  BY <1>4, AddsKeep, AddsUnskipped
<1>7. Handled' = Handled
  BY <1>2 DEF Handled
<1>8. HandledInv'
  BY <1>1, <1>4, <1>7, HandledStays DEF Adds
<1>9. CompletedInv'
  BY <1>4, <1>7, CarriedStays DEF CompletedInv, Completed
<1>10. ParkedInv'
  <2>1. ASSUME NEW w \in cache, Lit(w) \in gram.eofs
        PROVE  /\ ChAt(w.set) = Eof
               /\ ClassItem(Lit(w), w.set) \in c' \/ Advance(w, w.set) \in Chart'
    <3>1. CASE ClassItem(Lit(w), w.set) = x
      <4>1. x.prod.head = Lit(w) /\ x.from = w.set
        BY <3>1 DEF ClassItem, ClassProd, Item
      <4>2. \A v \in cache : Waits(v, x) => Advance(v, n) \in Chart'
        BY <1>1, <1>2, <1>3, CompletionAdds
      <4>3. ChAt(w.set) = Eof
        BY <1>1, <2>1 DEF ParkedInv
      <4>4. x.set = w.set
        BY <3>1, <4>3 DEF ClassItem, Item
      <4> QED BY <1>3, <4>1, <4>2, <4>3, <4>4 DEF Waits
    <3>2. CASE ClassItem(Lit(w), w.set) # x
      BY <1>1, <1>2, <1>4, <2>1, <3>2 DEF ParkedInv, Adds, Grows
    <3>3. ChAt(w.set) = Eof
      BY <1>1, <2>1 DEF ParkedInv
    <3> QED BY <3>1, <3>2, <3>3
  <2>2. gram' = gram /\ word' = word /\ cache' = cache
    BY <1>2 DEF input
  <2> QED BY <2>1, <2>2 DEF ParkedInv, Lit, ClassItem, ClassProd, ChAt, Item, Advance
<1>11. TakenInv' /\ RevisitInv'
  BY <1>1, <1>2 DEF TakenInv, RevisitInv, MustRevisit, Completed, input
<1> QED
  BY <1>4, <1>5, <1>6, <1>8, <1>9, <1>10, <1>11 DEF WorkInv

\* The head of a round: t moves into the chart, which loses nothing.
LEMMA BeginRoundWork ==
  ASSUME WorkInv, BeginRound
  PROVE  WorkInv'
<1>1. /\ TypeInv /\ TypeOK /\ n \in Nat /\ gram \in Grammars /\ snapshot = {}
      /\ pc = "round"
  BY InputAssumption DEF WorkInv, TypeInv, TypeOK, StageOK, BeginRound
<1>2. /\ UNCHANGED <<input, n, c, cache, memo>> /\ pc' = "process"
      /\ S' = S \cup t /\ t' = {} /\ Chart' = Chart
      /\ done' = {x \in S' : x.set = n}
      /\ snapshot' = revisit \cup (done' \ done)
      /\ revisit' = revisit \cup {x \in done' \ done : MustRevisit(x)}
  BY DEF BeginRound, Chart
<1>3. Grows /\ gram' = gram /\ word' = word /\ nullables' = nullables
  BY <1>2 DEF Grows, input
<1>4. TypeInv' /\ (nullables = NullablesOf(gram.nts, gram.prods))'
  BY <1>1, <1>3, LoopTypes DEF WorkInv
<1>5. Handled' \subseteq Handled
  BY <1>1, <1>2 DEF Handled, TypeOK
<1>6. HandledInv'
  BY <1>3, <1>5, HandledStays DEF WorkInv
<1>7. CompletedInv' /\ MemoInv' /\ ParkedInv' /\ StartInv' /\ NullInv'
  BY <1>2, <1>3, <1>5 DEF WorkInv, CompletedInv, MemoInv, ParkedInv, StartInv, NullInv,
     Completed, Lit, Carried, Waits, Advance, Item, Skip, ClassItem, ClassProd, ChAt,
     Productions
<1>8. TakenInv' /\ RevisitInv'
  BY <1>1, <1>2 DEF WorkInv, TakenInv, RevisitInv, MustRevisit, Completed
<1>9. AheadInv'
  BY <1>1, <1>2 DEF WorkInv, AheadInv, TypeOK
<1>10. UnskippedInv'
  <2>1. SUFFICES ASSUME NEW w \in Chart, Unskipped(w)
        PROVE  w \in S /\ (CompletedHere(Lit(w))' => w \in cache)
    BY <1>2, <1>3 DEF UnskippedInv, Unskipped, Completed, Lit, Skip, Item
  <2>2. w \in S /\ (CompletedHere(Lit(w)) => w \in cache)
    BY <2>1 DEF WorkInv, UnskippedInv
  <2>3. ASSUME CompletedHere(Lit(w))', ~CompletedHere(Lit(w)) PROVE w \in cache
    <3>1. PICK z \in S' : z.set = n /\ z.from = n /\ Completed(z) /\ z.prod.head = Lit(w)
      BY <1>2, <2>3 DEF CompletedHere, Completed, Lit
    <3>2. z \in t /\ z \in Items
      BY <1>1, <1>2, <2>3, <3>1 DEF CompletedHere, TypeOK
    <3>3. /\ w.set = n /\ ~Completed(w) /\ Lit(w) \in nullables
          /\ Lit(w) \in gram.nts /\ ~IsCc(gram, Lit(w))
      BY <1>1, <2>1, NullableHeads DEF Unskipped, WorkInv
    <3>4. z.prod \in gram.enabled
      BY <1>1, <3>1, <3>2, <3>3, BodyFacts
    <3>5. w \in done
      BY <1>1, <2>2, <3>2, <3>3 DEF WorkInv, TakenInv
    <3>6. Predicted(w)
      BY <1>1, <3>3, <3>5 DEF WorkInv, HandledInv, Handled
    <3> QED BY <3>1, <3>3, <3>4, <3>6 DEF Predicted, Productions
  <2> QED BY <2>2, <2>3
<1> QED
  BY <1>4, <1>6, <1>7, <1>8, <1>9, <1>10 DEF WorkInv

\* A position is left with all of its items handled, and the next one starts
\* with the items that were scanned into it.
LEMMA NextPositionWork ==
  ASSUME WorkInv, NextPosition
  PROVE  WorkInv'
<1>1. /\ TypeInv /\ TypeOK /\ n \in Nat /\ gram \in Grammars /\ snapshot = {}
      /\ pc = "advance" /\ t = {} /\ c = {}
  BY InputAssumption DEF WorkInv, TypeInv, TypeOK, StageOK, NextPosition
<1>2. /\ UNCHANGED <<input, S, t, c, cache, snapshot>> /\ pc' = "round"
      /\ n' = n + 1 /\ memo' = {} /\ done' = {} /\ revisit' = {} /\ Chart' = Chart
  BY DEF NextPosition, Chart
<1>3. Grows /\ gram' = gram /\ word' = word /\ nullables' = nullables
  BY <1>2 DEF Grows, input
<1>4. TypeInv' /\ (nullables = NullablesOf(gram.nts, gram.prods))'
  BY <1>1, <1>3, LoopTypes DEF WorkInv
<1>5. ASSUME NEW y \in Handled'
      PROVE  y \in S /\ (y \in Handled
                         \/ (Completed(y) /\ y.from = y.set /\ IsCc(gram, y.prod.head)))
  <2>1. y \in S /\ y.set \in Nat /\ y.set < n + 1
    BY <1>1, <1>2, <1>5, BodyFacts DEF Handled, TypeOK
  <2>2. CASE y.set < n
    BY <2>1, <2>2 DEF Handled
  <2>3. CASE y.set = n
    BY <1>1, <2>1, <2>3 DEF WorkInv, TakenInv, Handled
  <2> QED BY <1>1, <2>1, <2>2, <2>3
<1>6. HandledInv'
  <2>1. \A y \in Handled' : y \in Handled \/ Paid(y)'
    BY <1>5 DEF Paid, Completed
  <2> QED BY <1>3, <2>1, HandledStays DEF WorkInv
<1>7. CompletedInv'
  BY <1>2, <1>5 DEF WorkInv, CompletedInv, Completed, Lit, Carried, Waits, Advance, Item
<1>8. MemoInv' /\ ParkedInv' /\ StartInv' /\ NullInv' /\ TakenInv' /\ RevisitInv'
  BY <1>1, <1>2, <1>3 DEF WorkInv, MemoInv, ParkedInv, StartInv, NullInv, TakenInv,
     RevisitInv, Completed, Lit, Advance, Item, Skip, ClassItem, ClassProd, ChAt,
     Productions
<1>9. AheadInv'
  <2>1. \A w \in cache : w.set <= n + 1
    BY <1>1, BodyFacts DEF WorkInv, AheadInv, TypeOK
  <2>2. \A x \in S : x.set <= n + 1
    BY <1>1 DEF TypeOK
  <2>3. \A x \in S : x.set \in Nat
    BY <1>1, BodyFacts DEF TypeOK
  <2> QED BY <1>1, <1>2, <2>1, <2>2, <2>3 DEF AheadInv
<1>10. UnskippedInv'
  <2>1. SUFFICES ASSUME NEW w, CompletedHere(Lit(w))' PROVE FALSE
    BY <1>1, <1>2 DEF UnskippedInv, Chart
  <2>2. PICK z \in S : z.set = n + 1 /\ z.from = n + 1
    BY <1>2, <2>1 DEF CompletedHere
  <2> QED BY <1>1, <2>2 DEF WorkInv, AheadInv
<1> QED
  BY <1>4, <1>6, <1>7, <1>8, <1>9, <1>10 DEF WorkInv

LEMMA StandingWork ==
  ASSUME WorkInv, EndRound \/ EndResolve \/ Finish \/ UNCHANGED vars
  PROVE  WorkInv'
<1>1. /\ UNCHANGED <<input, n, S, t, c, cache, snapshot, done, revisit>>
      /\ gram' = gram /\ word' = word /\ nullables' = nullables /\ Chart' = Chart
      /\ memo' = memo \/ memo' = {}
      /\ pc # "round" \/ pc' = pc
  BY DEF EndRound, EndResolve, Finish, vars, input, Chart
<1>2. TypeInv' /\ (nullables = NullablesOf(gram.nts, gram.prods))'
  BY <1>1, LoopTypes DEF WorkInv
<1>3. HandledInv'
  BY <1>1, HandledStays DEF WorkInv, Grows, Handled
<1>4. /\ CompletedInv' /\ MemoInv' /\ ParkedInv' /\ StartInv' /\ NullInv'
      /\ TakenInv' /\ RevisitInv' /\ AheadInv'
  BY <1>1 DEF WorkInv, CompletedInv, MemoInv, ParkedInv, StartInv, NullInv, TakenInv,
     RevisitInv, AheadInv, Handled, MustRevisit, Completed, Lit, Carried, Waits, Advance,
     Item, Skip, ClassItem, ClassProd, ChAt, Productions
<1>5. UnskippedInv'
  BY <1>1 DEF WorkInv, UnskippedInv, Unskipped, CompletedHere, Completed, Lit, Skip, Item
<1> QED
  BY <1>2, <1>3, <1>4, <1>5 DEF WorkInv

LEMMA InitWork == Init => WorkInv
<1> SUFFICES ASSUME Init PROVE WorkInv
  OBVIOUS
<1>1. TypeInv /\ TypeOK
  BY InitTypes DEF TypeInv
<1>2. /\ gram \in Grammars /\ S = {} /\ cache = {} /\ memo = {} /\ done = {}
      /\ snapshot = {} /\ n = 0 /\ Chart = t
      /\ nullables = NullablesOf(gram.nts, gram.prods)
  BY DEF Init, Chart
<1> DEFINE K(p) == {m \in 0..Len(p.body) : \A q \in 1..m :
                      p.body[q] \in nullables \cup {Null}}
<1>3. t = UNION {{Skip(Item(p, 0, 0, 0), k) : k \in K(p)} : p \in Productions(gram.start)}
  BY DEF Init, Productions
<1>4. \A p \in Productions(gram.start) : Len(p.body) \in Nat
  BY <1>2, GrammarFacts DEF Productions
<1>5. \A p \in Productions(gram.start) : \A k \in K(p) :
        Skip(Item(p, 0, 0, 0), k) = Item(p, 0, 0, k)
  BY <1>4 DEF Skip, Item
<1>6. StartInv
  <2>1. ASSUME NEW p \in Productions(gram.start) PROVE Item(p, 0, 0, 0) \in t
    <3>1. 0 \in K(p)
      BY <1>4
    <3> QED BY <1>3, <1>5, <3>1
  <2> QED BY <1>2, <2>1 DEF StartInv
<1>7. ASSUME NEW y \in t, Nullable(y)
      PROVE  Skip(y, 1) \in t
  <2>1. PICK p \in Productions(gram.start) : \E k \in K(p) : y = Item(p, 0, 0, k)
    BY <1>3, <1>5
  <2>2. PICK k \in K(p) : y = Item(p, 0, 0, k)
    BY <2>1
  <2>3. y.prod = p /\ y.from = 0 /\ y.set = 0 /\ y.dot = k
    BY <2>2 DEF Item
  <2>4. k \in Nat /\ k # Len(p.body) /\ p.body[k + 1] \in nullables \cup {Null}
    BY <1>4, <1>7, <2>3 DEF Nullable, Completed, Lit
  <2>5. k + 1 \in K(p)
    <3>1. k + 1 \in 0..Len(p.body) /\ \A q \in 1..(k + 1) : q \in 1..k \/ q = k + 1
      BY <1>4, <2>4
    <3> QED BY <2>4, <3>1
  <2>6. Skip(y, 1) = Item(p, 0, 0, k + 1)
    BY <2>3 DEF Skip
  <2> QED BY <1>3, <1>5, <2>5, <2>6
<1>8. NullInv /\ UnskippedInv
  BY <1>2, <1>7 DEF NullInv, UnskippedInv, Unskipped, Nullable
<1>9. /\ HandledInv /\ CompletedInv /\ MemoInv /\ ParkedInv /\ TakenInv /\ RevisitInv
      /\ AheadInv
  BY <1>2 DEF HandledInv, CompletedInv, MemoInv, ParkedInv, TakenInv, RevisitInv,
     AheadInv, Handled
<1> QED
  BY <1>1, <1>2, <1>6, <1>8, <1>9 DEF WorkInv

LEMMA StepWork == WorkInv /\ [Next]_vars => WorkInv'
BY ProcessWork, ParkedWork, BeginRoundWork, NextPositionWork, StandingWork DEF Next, Stopped

\* What a round skips: an item that no round takes up again has nothing left
\* to add.
LEMMA SettledIsDone ==
  ASSUME WorkInv
  PROVE  SkippedRevisitIsNoOp
<1>1. /\ TypeInv /\ TypeOK /\ n \in Nat
  BY InputAssumption DEF WorkInv, TypeInv, TypeOK
<1>2. ASSUME NEW y \in Items, y \in Chart PROVE Added(y) = {}
  <2>1. Skip(y, 0) \in S \cup t
    BY <1>1, <1>2, SkipZero DEF Chart
  <2>2. \A k \in 0..(Len(y.prod.body) - y.dot) : 0 \in 0..k
    BY <1>1, BodyFacts
  <2> QED BY <2>1, <2>2 DEF Added
<1>3. SUFFICES ASSUME NEW x \in Settled
      PROVE  /\ Completed(x) => AddedAll({Advance(w, n) : w \in Waiters(x)}) = {}
             /\ ~Completed(x) /\ Lit(x) \in gram.nts /\ ~IsCc(gram, Lit(x)) =>
                  /\ Productions(Lit(x)) # {} => x \in cache
                  /\ AddedAll({Item(p, n, n, 0) :
                       p \in {q \in Productions(Lit(x)) : FirstCanMatch(q)}}) = {}
  BY DEF SkippedRevisitIsNoOp
<1>4. x \in Handled /\ x \in S /\ x \in Items /\ x.set = n /\ x \notin revisit
  BY <1>1 DEF Settled, Handled, TypeOK
<1>5. ASSUME Completed(x), NEW w \in Waiters(x) PROVE Added(Advance(w, n)) = {}
  <2>1. x.from # x.set
    BY <1>3, <1>4, <1>5 DEF WorkInv, RevisitInv, MustRevisit, Settled
  <2>2. Advance(w, n) \in Chart
    BY <1>4, <1>5, <2>1 DEF WorkInv, CompletedInv, Carried, Waiters, Waits
  <2>3. Advance(w, n) \in Items
    BY <1>1, <2>2 DEF Chart, TypeOK
  <2> QED BY <1>2, <2>2, <2>3
<1>6. ASSUME ~Completed(x), Lit(x) \in gram.nts, ~IsCc(gram, Lit(x))
      PROVE  /\ Productions(Lit(x)) # {} => x \in cache
             /\ \A p \in {q \in Productions(Lit(x)) : FirstCanMatch(q)} :
                  Added(Item(p, n, n, 0)) = {}
  <2>1. Predicted(x)
    BY <1>4, <1>6 DEF WorkInv, HandledInv
  <2>2. ASSUME NEW p \in Productions(Lit(x)), FirstCanMatch(p)
        PROVE  Added(Item(p, n, n, 0)) = {}
    <3>1. CanStart(p, n)
      BY <2>2 DEF FirstCanMatch, CanStart, Ch, ChAt
    <3>2. Item(p, n, n, 0) \in Chart
      BY <1>4, <1>6, <2>1, <3>1 DEF Predicted
    <3>3. Item(p, n, n, 0) \in Items
      BY <1>1, <3>2 DEF Chart, TypeOK
    <3> QED BY <1>2, <3>2, <3>3
  <2> QED BY <1>6, <2>1, <2>2 DEF Predicted
<1> QED
  BY <1>5, <1>6 DEF AddedAll

\* "Revisiting any other item is a no-op": whatever the grammar and the input,
\* an item that the rounds do not take up again would add nothing to the chart
\* and nothing to the waiting items.
THEOREM EarleySkippedRevisit == Spec => []SkippedRevisitIsNoOp
<1>1. Init => WorkInv
  BY InitWork
<1>2. WorkInv /\ [Next]_vars => WorkInv'
  BY StepWork
<1>3. WorkInv => SkippedRevisitIsNoOp
  BY SettledIsDone
<1> QED
  BY <1>1, <1>2, <1>3, PTL DEF Spec
-------------------------------------------------------------------------------
(***************************************************************************)
(* Empty spans.  A symbol that completes where it started also advances    *)
(* what starts to wait for it later, because such a symbol is nullable and *)
(* the item that waits for it has skipped it.                              *)
(***************************************************************************)
EmptyInv ==
  \A x \in Handled :
    Completed(x) /\ x.from = x.set /\ ~IsCc(gram, x.prod.head) => Carried(x)

CompleteInv == SoundInv /\ WorkInv /\ EmptyInv

\* The next literal of an item is a literal of an enabled production.
LEMMA WaitingLiteral ==
  ASSUME TypeOK, NEW w \in Items, ~Completed(w)
  PROVE  /\ w.prod \in gram.enabled
         /\ w.dot + 1 \in DOMAIN w.prod.body
         /\ w.prod.body[w.dot + 1] = Lit(w)
<1>1. /\ w.prod \in gram.enabled /\ w.prod.body \in Seq(Lits(gram))
      /\ w.dot \in Nat /\ w.dot <= Len(w.prod.body) /\ Len(w.prod.body) \in Nat
      /\ w.dot # Len(w.prod.body)
  BY BodyFacts DEF Completed
<1>2. w.dot + 1 \in 1..Len(w.prod.body)
  BY <1>1
<1> QED
  BY <1>1, <1>2 DEF Lit

\* A completed empty span of what an item waits for: the literal is nullable.
LEMMA EmptyIsNullable ==
  ASSUME EmptySpansAreNullable, SoundInv,
         NEW z \in S, Completed(z), z.from = z.set, ~IsCc(gram, z.prod.head),
         NEW w \in S, ~Completed(w), Lit(w) = z.prod.head
  PROVE  Lit(w) \in nullables
<1>1. /\ TypeOK /\ z \in Items /\ w \in Items /\ Backed(z)
      /\ gram \in Grammars /\ word \in Words /\ lang = Spans[gram][word]
      /\ nullables = NullablesOf(gram.nts, gram.prods)
  BY DEF SoundInv, TypeInv, TypeOK, ChartSound
<1>2. LitSpan(gram, word, lang, z.prod.head, z.from, z.from)
  BY <1>1, CompletedSpans
<1>3. z.prod \in gram.enabled /\ z.prod.head \in gram.nts
  BY <1>1, BodyFacts, GrammarFacts
<1>4. <<z.prod.head, z.from, z.from>> \in lang
  BY <1>1, <1>2, <1>3, GrammarFacts DEF LitSpan, IsCc
<1>5. z.from \in 0..Len(word)
  BY <1>1 DEF Items
<1> QED
  BY <1>1, <1>4, <1>5, WaitingLiteral DEF EmptySpansAreNullable, NullablesTell

LEMMA EmptyStays ==
  ASSUME EmptySpansAreNullable, CompleteInv, Adds, TypeInv', NEW y \in Handled,
         Completed(y), y.from = y.set, ~IsCc(gram, y.prod.head)
  PROVE  Carried(y)'
<1>1. /\ TypeInv /\ TypeOK /\ n' = n /\ n \in Nat /\ SoundInv /\ WorkInv
      /\ gram' = gram
  BY InputAssumption DEF CompleteInv, WorkInv, TypeInv, TypeOK, Adds, Grows, input
<1>2. y \in S /\ y \in Items /\ y.set <= n
  BY <1>1, BodyFacts DEF Handled, TypeOK
<1>3. Carried(y)
  BY DEF CompleteInv, EmptyInv
<1>4. ASSUME NEW w \in cache', Waits(w, y)
      PROVE  Advance(w, y.set) \in Chart'
  <2>1. CASE w \in cache
    BY <1>3, <1>4, <2>1 DEF Carried, Adds, Grows
  <2>2. CASE w \notin cache
    <3>1. w \in S /\ w.set = n /\ y.set = n /\ y.from = n /\ Lit(w) = y.prod.head
      BY <1>1, <1>4, <2>2 DEF Adds, Waits, TypeOK
    <3>2. ~Completed(w)
      BY DEF TypeInv, TypeOK, Completed
    <3>3. Lit(w) \in nullables
      BY <1>1, <1>2, <3>1, <3>2, EmptyIsNullable
    <3>4. CompletedHere(Lit(w))
      BY <1>2, <3>1 DEF CompletedHere
    <3>5. Skip(w, 1) \in Chart
      BY <1>1, <2>2, <3>1, <3>2, <3>3, <3>4 DEF WorkInv, UnskippedInv, Unskipped, Chart
    <3>6. Advance(w, y.set) = Skip(w, 1)
      BY <3>1 DEF Advance, Skip
    <3> QED BY <3>5, <3>6 DEF Adds, Grows
  <2> QED BY <2>1, <2>2
<1> QED
  BY <1>4 DEF Carried, Waits, Advance, Item, Lit

LEMMA StepEmpty ==
  ASSUME EmptySpansAreNullable, CompleteInv, [Next]_vars, WorkInv'
  PROVE  EmptyInv'
<1>1. /\ TypeInv /\ TypeInv' /\ TypeOK /\ MemoInv /\ EmptyInv /\ n \in Nat
      /\ WorkInv /\ gram \in Grammars
  BY InputAssumption DEF CompleteInv, WorkInv, TypeInv, TypeOK
<1>2. gram' = gram
  BY DEF Next, Process, Complete, Predict, Scan, ScanCc, CompleteParked, Stopped,
         BeginRound, EndRound, EndResolve, NextPosition, Finish, vars, input
<1>3. SUFFICES ASSUME NEW y \in Handled', Completed(y), y.from = y.set,
                      ~IsCc(gram, y.prod.head)
      PROVE  Carried(y)'
  BY <1>2 DEF EmptyInv, Completed, IsCc
<1>4. CASE \E x \in snapshot : Process(x)
  <2>1. PICK x \in snapshot : Process(x)
    BY <1>4
  <2>2. Adds
    BY <1>1, <2>1, CompleteAdds, PredictAdds, ScanAdds, ScanCcAdds DEF Process
  <2>3. n' = n /\ done' = done /\ snapshot' = snapshot \ {x} /\ x \in S /\ x.set = n
    BY <1>1, <2>1 DEF Process, Complete, Predict, Scan, ScanCc, Handles, TypeOK
  <2>4. \A v \in S' : v.set < n => v \in S
    BY <1>1, <2>2 DEF Adds, Ahead
  <2>5. y \in Handled \/ y = x
    BY <1>3, <2>3, <2>4 DEF Handled
  <2>6. CASE y \in Handled
    BY <1>1, <1>3, <2>2, <2>6, EmptyStays
  <2>7. CASE y = x
    <3>1. Complete(x)
      BY <1>3, <2>1, <2>7 DEF Process, Complete, Predict, Scan, ScanCc
    <3>2. Completion(x) /\ UNCHANGED <<S, cache>>
      BY <3>1 DEF Complete
    <3>3. \A w \in cache : Waits(w, x) => Advance(w, n) \in Chart'
      BY <1>1, <2>3, <3>2, CompletionAdds
    <3> QED BY <2>3, <2>7, <3>2, <3>3 DEF Carried, Waits, Advance, Item, Lit
  <2> QED BY <2>5, <2>6, <2>7
<1>5. CASE \E x \in c : CompleteParked(x)
  <2>1. PICK x \in c : CompleteParked(x)
    BY <1>5
  <2>2. Adds /\ Handled' = Handled
    BY <1>1, <2>1, ParkedAdds DEF CompleteParked, Handled
  <2> QED BY <1>1, <1>3, <2>2, EmptyStays
<1>6. CASE BeginRound \/ NextPosition \/ EndRound \/ EndResolve \/ Finish \/ UNCHANGED vars
  <2>1. cache' = cache /\ Chart' = Chart
    BY <1>6 DEF BeginRound, NextPosition, EndRound, EndResolve, Finish, vars, Chart
  <2>2. y \in Handled
    <3>1. CASE BeginRound
      BY <1>1, <1>3, <3>1 DEF BeginRound, Handled, TypeInv, TypeOK, StageOK
    <3>2. CASE NextPosition
      <4>1. /\ y \in S /\ y.set \in Nat /\ y.set < n + 1 /\ snapshot = {}
            /\ pc = "advance"
        BY <1>1, <1>3, <3>2, BodyFacts DEF NextPosition, Handled, TypeInv, TypeOK, StageOK
      <4> QED BY <1>1, <1>3, <4>1 DEF WorkInv, TakenInv, Handled
    <3>3. CASE EndRound \/ EndResolve \/ Finish \/ UNCHANGED vars
      BY <1>3, <3>3 DEF EndRound, EndResolve, Finish, vars, Handled
    <3> QED BY <1>6, <3>1, <3>2, <3>3
  <2>3. Carried(y)
    BY <1>1, <1>3, <2>2 DEF EmptyInv
  <2> QED BY <2>1, <2>3 DEF Carried, Waits, Advance, Item, Lit
<1> QED
  BY <1>4, <1>5, <1>6 DEF Next, Stopped

LEMMA InitComplete ==
  ASSUME GuardsKeepNullables, Init
  PROVE  CompleteInv
BY InitSound, InitWork DEF CompleteInv, EmptyInv, Handled, Init

LEMMA StepComplete ==
  ASSUME EofIsNoCharacter, GuardsKeepNullables, EmptySpansAreNullable,
         CompleteInv, [Next]_vars
  PROVE  CompleteInv'
BY StepSound, StepWork, StepEmpty DEF CompleteInv
-------------------------------------------------------------------------------
(***************************************************************************)
(* The chart at the end of a position is closed under the productions: the *)
(* triples it can make use of hold what a body matches, and so they hold   *)
(* every span, because the spans are the least such set.                   *)
(***************************************************************************)
Below == {r \in Nat \X Nat : r[1] < r[2]}

\* Induction over the natural numbers, for a set.
LEMMA NatSetInduction ==
  ASSUME NEW N, 0 \in N, \A k \in Nat : k \in N => k + 1 \in N
  PROVE  Nat \subseteq N
<1>1. IsWellFoundedOn(Below, Nat)
  BY NatLessThanWellFounded, Zenon DEF OpToRel, Below
<1>2. SUFFICES ASSUME Nat \ N # {} PROVE FALSE
  OBVIOUS
<1>3. Nat \ N \subseteq Nat
  OBVIOUS
<1>4. PICK m \in Nat \ N : \A k \in Nat \ N : ~(<<k, m>> \in Below)
  BY <1>1, <1>2, <1>3, WFMin, Zenon
<1>5. m \in Nat /\ m # 0 /\ m - 1 \in Nat /\ m - 1 < m /\ (m - 1) + 1 = m
  BY <1>4
<1>6. <<m - 1, m>> \in Below
  BY <1>5 DEF Below
<1> QED
  BY <1>4, <1>5, <1>6

Usable ==
  {r \in Triples(gram, word) :
     /\ ~IsCc(gram, r[1])
     /\ r[3] <= n => \A x \in S : x.set = r[2] /\ ~Completed(x) /\ Lit(x) = r[1]
                                    => Advance(x, r[3]) \in S}

Left == CompleteInv /\ pc \in {"advance", "done"}

LEMMA LeftFacts ==
  ASSUME Left
  PROVE  /\ TypeOK /\ TypeInv /\ WorkInv /\ SoundInv /\ EmptyInv
         /\ gram \in Grammars /\ word \in Words /\ lang = Spans[gram][word]
         /\ Len(word) \in Nat /\ n \in Nat /\ n <= Len(word)
         /\ Chart = S /\ c = {} /\ snapshot = {}
         /\ \A x \in S : x \in Items /\ x.set \in Nat
BY InputAssumption, BodyFacts DEF Left, CompleteInv, WorkInv, TypeInv, TypeOK, StageOK,
   SoundInv, Chart

\* Every item up to the position is handled, but for the end of the input.
LEMMA LeftHandled ==
  ASSUME Left, NEW x \in S, x.set <= n,
         ~Completed(x) \/ ~IsCc(gram, x.prod.head) \/ x.from # x.set
  PROVE  x \in Handled
<1>1. CASE x.set < n
  BY <1>1 DEF Handled
<1>2. CASE x.set = n
  BY <1>2, LeftFacts DEF WorkInv, TakenInv, Left, Handled
<1> QED
  BY <1>1, <1>2, LeftFacts

\* An item moves its dot over whatever its next literal matches.
LEMMA DotMoves ==
  ASSUME EofIsNoCharacter, Left, NEW y \in S, ~Completed(y),
         y.set <= n, NEW j \in 0..n, LitSpan(gram, word, Usable, Lit(y), y.set, j)
  PROVE  Advance(y, j) \in S
<1>1. /\ TypeOK /\ WorkInv /\ gram \in Grammars /\ word \in Words /\ y \in Items
      /\ Len(word) \in Nat /\ n \in Nat /\ n <= Len(word) /\ Chart = S /\ c = {}
      /\ y.set \in Nat /\ y.set <= n
  BY LeftFacts
<1>2. y \in Handled
  BY <1>1, LeftHandled
<1>3. Predicted(y) /\ Scanned(y) /\ ScannedCc(y)
  BY <1>1, <1>2 DEF WorkInv, HandledInv
<1>4. ASSUME j = y.set + 1, j <= Len(word)
      PROVE  ChAt(y.set) = word[j] /\ word[j] \in Chars /\ word[j] # Eof
  BY <1>1, <1>4, InputAssumption DEF ChAt
<1>5. CASE Lit(y) = Null /\ y.set = j
  <2>1. Skip(y, 1) \in S
    BY <1>1, <1>5 DEF WorkInv, NullInv
  <2> QED BY <1>5, <2>1 DEF Skip, Advance
<1>6. CASE Lit(y) \in Chars /\ j = y.set + 1 /\ j <= Len(word) /\ word[j] = Lit(y)
  <2>1. Lit(y) \notin gram.nts
    BY <1>1, <1>6, GrammarFacts
  <2> QED BY <1>3, <1>4, <1>6, <2>1 DEF Scanned
<1>7. CASE /\ Lit(y) \in DOMAIN gram.classes /\ j = y.set + 1 /\ j <= Len(word)
           /\ word[j] \in gram.classes[Lit(y)]
  <2> DEFINE k == ClassItem(Lit(y), y.set)
  <2>1. Lit(y) \notin gram.eofs /\ IsCc(gram, Lit(y)) /\ AcceptsAt(Lit(y), y.set)
    BY <1>1, <1>4, <1>7, GrammarFacts DEF IsCc, AcceptsAt
  <2>2. y \in cache /\ k \in S
    BY <1>3, <2>1 DEF ScannedCc
  <2>3. k.prod.head = Lit(y) /\ k.from = y.set /\ k.set = j /\ Completed(k)
    <3>1. k = Item(ClassProd(Lit(y), ChAt(y.set)), y.set, j, 1)
      BY <1>4, <1>7 DEF ClassItem
    <3> HIDE DEF k
    <3> QED BY <3>1 DEF Item, ClassProd, Completed
  <2> HIDE DEF k
  <2>4. k.from # k.set /\ k.set <= n
    BY <1>1, <1>7, <2>3
  <2>5. Carried(k)
    BY <1>1, <2>2, <2>3, <2>4, LeftHandled DEF WorkInv, CompletedInv
  <2> QED BY <1>1, <2>2, <2>3, <2>5 DEF Carried, Waits
<1>8. CASE Lit(y) \in gram.eofs /\ y.set = j /\ j = Len(word)
  <2>1. ChAt(y.set) = Eof /\ IsCc(gram, Lit(y)) /\ AcceptsAt(Lit(y), y.set)
    BY <1>1, <1>8 DEF ChAt, AcceptsAt, IsCc
  <2>2. y \in cache
    BY <1>3, <2>1 DEF ScannedCc
  <2> QED BY <1>1, <1>8, <2>2 DEF WorkInv, ParkedInv
<1>9. CASE <<Lit(y), y.set, j>> \in Usable
  BY <1>1, <1>9 DEF Usable
<1> QED
  BY <1>5, <1>6, <1>7, <1>8, <1>9 DEF LitSpan

\* From an item at the start of a body to the item behind any matched prefix.
LEMMA PrefixMoves ==
  ASSUME EofIsNoCharacter, Left, NEW p \in gram.enabled,
         NEW i \in 0..n, NEW j \in i..n, Item(p, i, i, 0) \in S,
         BodySpan(gram, word, Usable, p.body, Len(p.body), i, j)
  PROVE  Item(p, i, j, Len(p.body)) \in S
<1> DEFINE L == Len(p.body)
<1>1. L \in Nat /\ n \in Nat
  BY LeftFacts, GrammarFacts
<1>2. PICK f \in [0..L -> i..j] :
        /\ f[0] = i /\ f[L] = j
        /\ \A k \in 1..L : LitSpan(gram, word, Usable, p.body[k], f[k-1], f[k])
  BY DEF BodySpan
<1> DEFINE N == {d \in Nat : d <= L => Item(p, i, f[d], d) \in S}
<1>3. 0 \in N
  BY <1>2
<1>4. ASSUME NEW d \in Nat, d \in N PROVE d + 1 \in N
  <2>1. SUFFICES ASSUME d + 1 <= L PROVE Item(p, i, f[d + 1], d + 1) \in S
    OBVIOUS
  <2> DEFINE y == Item(p, i, f[d], d)
  <2>2. /\ y \in S /\ y.set = f[d] /\ y.prod = p /\ y.dot = d /\ y.from = i
        /\ d \in 0..L /\ d + 1 \in 1..L /\ (d + 1) - 1 = d /\ d + 1 \in 0..L
    BY <1>1, <1>4, <2>1 DEF Item
  <2>3. ~Completed(y) /\ Lit(y) = p.body[d + 1]
    BY <1>1, <2>1, <2>2 DEF Completed, Lit
  <2>4. LitSpan(gram, word, Usable, Lit(y), y.set, f[d + 1])
    BY <1>2, <2>2, <2>3
  <2>5. f[d] \in i..j /\ f[d + 1] \in i..j
    BY <1>2, <2>2
  <2>6. y.set <= n /\ f[d + 1] \in 0..n
    BY <1>1, <2>2, <2>5
  <2>7. Advance(y, f[d + 1]) \in S
    BY <2>2, <2>3, <2>4, <2>6, DotMoves
  <2> QED BY <2>2, <2>7 DEF Advance
<1>5. Nat \subseteq N
  <2> HIDE DEF N
  <2> QED BY <1>3, <1>4, NatSetInduction
<1> QED
  BY <1>1, <1>2, <1>5

\* Lookahead lets a production start where its body matches.
LEMMA MatchedCanStart ==
  ASSUME Left, NEW p \in gram.enabled, NEW i \in 0..Len(word), NEW j \in i..Len(word),
         BodySpan(gram, word, Usable, p.body, Len(p.body), i, j)
  PROVE  CanStart(p, i)
<1>1. /\ gram \in Grammars /\ word \in Words /\ Len(word) \in Nat
      /\ Len(p.body) \in Nat /\ p.body \in Seq(Lits(gram))
  BY LeftFacts, GrammarFacts
<1>2. SUFFICES ASSUME p.body # <<>>
      PROVE  LET l == p.body[1]
             IN  /\ l \in Chars => l = ChAt(i)
                 /\ l \in gram.eofs => ChAt(i) = Eof
                 /\ l \in DOMAIN gram.classes => ChAt(i) \in gram.classes[l]
  BY DEF CanStart
<1>3. Len(p.body) # 0
  BY <1>1, <1>2
<1>4. PICK f \in [0..Len(p.body) -> i..j] :
        f[0] = i /\ \A k \in 1..Len(p.body) :
                      LitSpan(gram, word, Usable, p.body[k], f[k-1], f[k])
  BY DEF BodySpan
<1>5. LitSpan(gram, word, Usable, p.body[1], i, f[1])
  <2>1. 1 \in 1..Len(p.body) /\ 1 - 1 = 0
    BY <1>1, <1>3
  <2> QED BY <1>4, <2>1
<1>6. /\ i + 1 <= Len(word) => ChAt(i) = word[i + 1]
      /\ i = Len(word) => ChAt(i) = Eof
  BY <1>1 DEF ChAt
<1>7. /\ gram.nts \cap (Chars \cup {Null, Eof}) = {}
      /\ \A k \in DOMAIN gram.classes : k \in gram.nts
      /\ \A k \in gram.eofs : k \in gram.nts /\ k \notin DOMAIN gram.classes
      /\ Null \notin Chars
  BY <1>1, GrammarFacts, InputAssumption
<1>8. <<p.body[1], i, f[1]>> \in Usable =>
        p.body[1] \in gram.nts /\ ~IsCc(gram, p.body[1])
  BY DEF Usable, Triples
<1> QED
  BY <1>5, <1>6, <1>7, <1>8 DEF LitSpan, IsCc

LEMMA UsableClosed ==
  ASSUME EofIsNoCharacter, Left
  PROVE  ClosedSpans(gram, word, Usable)
<1>1. /\ TypeOK /\ WorkInv /\ EmptyInv /\ gram \in Grammars /\ word \in Words
      /\ Len(word) \in Nat /\ n \in Nat /\ n <= Len(word) /\ Chart = S
  BY LeftFacts
<1>2. SUFFICES ASSUME NEW p \in gram.enabled,
                      NEW i \in 0..Len(word), NEW j \in i..Len(word),
                      BodySpan(gram, word, Usable, p.body, Len(p.body), i, j)
      PROVE  <<p.head, i, j>> \in Usable
  BY DEF ClosedSpans
<1>3. p.head \in gram.nts /\ ~IsCc(gram, p.head) /\ p \in Productions(p.head)
  BY <1>1, GrammarFacts DEF IsCc, Productions
<1>4. ASSUME j <= n, NEW x \in S, x.set = i, ~Completed(x), Lit(x) = p.head
      PROVE  Advance(x, j) \in S
  <2>1. i \in 0..n /\ j \in i..n
    BY <1>1, <1>4
  <2>2. x \in Handled
    BY <1>4, <2>1, LeftHandled
  <2>3. Predicted(x)
    BY <1>1, <1>4, <2>2 DEF WorkInv, HandledInv
  <2>4. x \in cache /\ Item(p, i, i, 0) \in S
    BY <1>1, <1>2, <1>3, <1>4, <2>3, MatchedCanStart DEF Predicted
  <2> DEFINE z == Item(p, i, j, Len(p.body))
  <2>5. z \in S
    BY <1>2, <2>1, <2>4, PrefixMoves
  <2>6. z.prod = p /\ z.from = i /\ z.set = j /\ Completed(z)
    BY DEF Item, Completed
  <2> HIDE DEF z
  <2>7. z \in Handled
    BY <1>3, <2>1, <2>5, <2>6, LeftHandled
  <2>8. Carried(z)
    BY <1>1, <1>3, <2>6, <2>7 DEF WorkInv, CompletedInv, EmptyInv
  <2> QED BY <1>1, <1>4, <2>4, <2>6, <2>8 DEF Carried, Waits
<1>5. <<p.head, i, j>> \in Triples(gram, word)
  BY <1>1, <1>2, <1>3 DEF Triples
<1> QED
  BY <1>3, <1>4, <1>5 DEF Usable

LEMMA SpansUsable ==
  ASSUME EofIsNoCharacter, SpansAreLeast, Left
  PROVE  lang \subseteq Usable
<1>1. Usable \in SUBSET Triples(gram, word)
  BY DEF Usable
<1> QED
  BY <1>1, LeftFacts, UsableClosed DEF SpansAreLeast, LeastSpans

LEMMA LeftComplete ==
  ASSUME EofIsNoCharacter, SpansAreLeast, CompleteInv
  PROVE  PositionComplete
<1>1. SUFFICES ASSUME Left, NEW x \in S, x.set <= n, ~Completed(x),
                      LitSpan(gram, word, lang, Lit(x), x.set, n)
      PROVE  Advance(x, n) \in S
  BY DEF PositionComplete, Left
<1>2. LitSpan(gram, word, Usable, Lit(x), x.set, n)
  BY <1>1, SpansUsable DEF LitSpan
<1>3. n \in 0..n
  BY <1>1, LeftFacts
<1> QED
  BY <1>1, <1>2, <1>3, DotMoves

\* A position is complete when it is left: every item whose next literal
\* derives a stretch of the input that ends there has been advanced over it.
\* Nothing is lost to lookahead, to the memo of complete(), to the items the
\* rounds skip or to the order they run in, as long as a symbol with an empty
\* span is nullable.
THEOREM EarleyPositionComplete ==
  ASSUME EofIsNoCharacter, GuardsKeepNullables, SpansAreLeast, EmptySpansAreNullable
  PROVE  Spec => []PositionComplete
<1>1. Init => CompleteInv
  BY InitComplete
<1>2. CompleteInv /\ [Next]_vars => CompleteInv'
  BY StepComplete
<1>3. CompleteInv => PositionComplete
  BY LeftComplete
<1> QED
  BY <1>1, <1>2, <1>3, PTL DEF Spec
-------------------------------------------------------------------------------
(***************************************************************************)
(* The answer.                                                             *)
(***************************************************************************)
LEMMA BodyWidens ==
  ASSUME NEW g, NEW w, NEW Q, NEW R, Q \subseteq R,
         NEW body, NEW d, NEW i, NEW j, BodySpan(g, w, Q, body, d, i, j)
  PROVE  BodySpan(g, w, R, body, d, i, j)
BY DEF BodySpan, LitSpan

\* A span is derived by a production: the spans that are, are closed.
LEMMA SpansAreDerived ==
  ASSUME SpansAreLeast, NEW g \in Grammars, NEW w \in Words, NEW r \in Spans[g][w]
  PROVE  \E p \in g.enabled :
           p.head = r[1] /\ BodySpan(g, w, Spans[g][w], p.body, Len(p.body), r[2], r[3])
<1> DEFINE R == Spans[g][w]
           Derived(q) == \E p \in g.enabled :
             p.head = q[1] /\ BodySpan(g, w, R, p.body, Len(p.body), q[2], q[3])
           Q == {q \in Triples(g, w) : q \in R /\ Derived(q)}
<1>1. ASSUME NEW p \in g.enabled, NEW i \in 0..Len(w), NEW j \in i..Len(w),
             BodySpan(g, w, Q, p.body, Len(p.body), i, j)
      PROVE  <<p.head, i, j>> \in Q
  <2>1. BodySpan(g, w, R, p.body, Len(p.body), i, j)
    <3>1. Q \subseteq R
      OBVIOUS
    <3> HIDE DEF Q, R
    <3> QED BY <1>1, <3>1, BodyWidens
  <2>2. <<p.head, i, j>> \in R
    BY <2>1, SpansAssumption
  <2>3. <<p.head, i, j>> \in Triples(g, w)
    BY GrammarFacts, InputAssumption DEF Triples
  <2> QED BY <2>1, <2>2, <2>3
<1>2. ClosedSpans(g, w, Q)
  BY <1>1 DEF ClosedSpans
<1>3. Q \in SUBSET Triples(g, w)
  OBVIOUS
<1>4. R \subseteq Q
  <2> HIDE DEF Q
  <2> QED BY <1>2, <1>3 DEF SpansAreLeast, LeastSpans
<1> QED
  BY <1>4

LEMMA AcceptingComplete ==
  ASSUME EofIsNoCharacter, SpansAreLeast, Left, n = Len(word), InLanguage
  PROVE  Accepting
<1>1. /\ WorkInv /\ gram \in Grammars /\ word \in Words /\ lang = Spans[gram][word]
      /\ n \in Nat /\ Chart = S
  BY LeftFacts
<1>2. PICK p \in gram.enabled :
        p.head = gram.start /\ BodySpan(gram, word, lang, p.body, Len(p.body), 0, n)
  BY <1>1, SpansAreDerived DEF InLanguage
<1>3. BodySpan(gram, word, Usable, p.body, Len(p.body), 0, n)
  BY <1>2, SpansUsable, BodyWidens
<1>4. Item(p, 0, 0, 0) \in S
  BY <1>1, <1>2 DEF WorkInv, StartInv, Productions
<1>5. 0 \in 0..n /\ n \in 0..n
  BY <1>1
<1> QED
  BY <1>2, <1>3, <1>4, <1>5, PrefixMoves DEF Accepting

AnswerInv == CompleteInv /\ FoundInv /\ AcceptsEveryMember

LEMMA InitAnswer ==
  ASSUME GuardsKeepNullables, Init
  PROVE  AnswerInv
BY InitComplete DEF AnswerInv, FoundInv, AcceptsEveryMember, Init

LEMMA StepAnswer ==
  ASSUME EofIsNoCharacter, GuardsKeepNullables, SpansAreLeast, EmptySpansAreNullable,
         AnswerInv, [Next]_vars
  PROVE  AnswerInv'
<1>1. CompleteInv'
  BY StepComplete DEF AnswerInv
<1>2. FoundInv'
  BY StepFound DEF AnswerInv, CompleteInv
<1>3. UNCHANGED input
  BY DEF Next, Process, Complete, Predict, Scan, ScanCc, CompleteParked, Stopped,
         BeginRound, EndRound, EndResolve, NextPosition, Finish, vars, input
<1>4. CASE Finish
  <2>1. Left /\ n = Len(word)
    BY <1>4 DEF Finish, Left, AnswerInv
  <2>2. InLanguage => Accepting
    BY <2>1, AcceptingComplete
  <2>3. InLanguage' = InLanguage
    BY <1>3 DEF InLanguage, input
  <2> QED BY <1>1, <1>2, <1>4, <2>2, <2>3 DEF Finish, AnswerInv, AcceptsEveryMember
<1>5. CASE ~Finish
  <2>1. pc' = "done" => pc = "done" /\ found' = found
    BY <1>5 DEF Next, Process, Complete, Predict, Scan, ScanCc, CompleteParked, Handles,
                Stopped, BeginRound, EndRound, EndResolve, NextPosition, vars
  <2> QED BY <1>1, <1>2, <1>3, <2>1 DEF AnswerInv, AcceptsEveryMember, InLanguage, input
<1> QED
  BY <1>4, <1>5

\* parse() reports found for every input that the enabled productions derive
\* from the start symbol.
THEOREM EarleyAcceptsEveryMember ==
  ASSUME EofIsNoCharacter, GuardsKeepNullables, SpansAreLeast, EmptySpansAreNullable
  PROVE  Spec => []AcceptsEveryMember
<1>1. Init => AnswerInv
  BY InitAnswer
<1>2. AnswerInv /\ [Next]_vars => AnswerInv'
  BY StepAnswer
<1>3. AnswerInv => AcceptsEveryMember
  BY DEF AnswerInv
<1> QED
  BY <1>1, <1>2, <1>3, PTL DEF Spec

\* The recogniser implements its specification: an initial state has no
\* answer, one step of the loop decides and decides by membership, and every
\* other step leaves the answer alone.
THEOREM EarleyImplementsRecognizer ==
  ASSUME EofIsNoCharacter, GuardsKeepNullables, SpansAreLeast, EmptySpansAreNullable
  PROVE  Spec => ImplementsRecognizer
<1>1. Init => AnswerInv
  BY InitAnswer
<1>2. AnswerInv /\ [Next]_vars => AnswerInv'
  BY StepAnswer
<1>3. Init => Abstract!Init
  BY DEF Init, Abstract!Init, Answer, InLanguage
<1>4. ASSUME AnswerInv, AnswerInv', [Next]_vars
      PROVE  [Abstract!Decide]_<<InLanguage, Answer>>
  <2>1. InLanguage' = InLanguage
    BY <1>4 DEF Next, Process, Complete, Predict, Scan, ScanCc, CompleteParked, Stopped,
       BeginRound, EndRound, EndResolve, NextPosition, Finish, vars, input, InLanguage
  <2>2. CASE Finish
    <3>1. pc # "done" /\ pc' = "done"
      BY <2>2 DEF Finish
    <3>2. found' <=> InLanguage
      BY <1>4, <2>1, <3>1 DEF AnswerInv, FoundInv, AcceptsEveryMember
    <3>3. Answer = "none" /\ Answer' = IF InLanguage THEN "accept" ELSE "reject"
      BY <3>1, <3>2 DEF Answer
    <3> QED BY <2>1, <3>3 DEF Abstract!Decide
  <2>3. CASE ~Finish
    <3>1. \/ pc # "done" /\ pc' # "done"
          \/ pc' = pc /\ found' = found
      BY <1>4, <2>3 DEF Next, Process, Complete, Predict, Scan, ScanCc, CompleteParked,
         Handles, Stopped, BeginRound, EndRound, EndResolve, NextPosition, vars
    <3> QED BY <2>1, <3>1 DEF Answer
  <2> QED BY <2>2, <2>3
<1> QED
  BY <1>1, <1>2, <1>3, <1>4, PTL DEF Spec, ImplementsRecognizer, Abstract!Spec
===============================================================================
