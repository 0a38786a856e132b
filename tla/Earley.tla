-------------------------------- MODULE Earley --------------------------------
(***************************************************************************)
(* The Earley recogniser of parser<C,T> (src/parser.tmpl.h) for grammars   *)
(* without conjunction and negation (any_conj is false), with the item     *)
(* collector off and no dynamic nonterminals: the configuration every      *)
(* plain context-free grammar runs in.                                     *)
(*                                                                         *)
(* One parse is modelled.  The grammar and the input are chosen in the     *)
(* initial state and never change, so one run covers many of both.  A      *)
(* handler call (predict, scan, scan_cc_function, complete) is one action; *)
(* the order in which a round handles its items, the insertion order of a  *)
(* hash set in the code, is left open.                                     *)
(***************************************************************************)
EXTENDS Naturals, Sequences

CONSTANTS
  Grammars,     \* the grammars to parse with
  Words,        \* the inputs, sequences of characters
  Chars,        \* the characters an input may hold
  Null,         \* the null literal
  Eof,          \* what input::tcur returns at the end of the input
  Spans         \* Spans[g][w]: the triples <<X, i, j>> with X =>* w[i+1..j]

(***************************************************************************)
(* A grammar: its start symbol, its nonterminals, its productions (G), the *)
(* ones the guards enable (ntsm), its character classes with the           *)
(* characters each accepts (cc_fns.fns) and its eof nonterminals (eof_fn). *)
(***************************************************************************)
Lits(g) == g.nts \cup Chars \cup {Null}

IsGrammar(g) ==
  /\ g.start \in g.nts
  /\ g.prods \subseteq [head : g.nts, body : Seq(Lits(g))]
  /\ g.enabled \subseteq g.prods
  /\ DOMAIN g.classes \subseteq g.nts
  /\ \A k \in DOMAIN g.classes : g.classes[k] \subseteq Chars \cup {Eof}
  /\ g.eofs \subseteq g.nts \ DOMAIN g.classes
  /\ \A p \in g.prods : p.head \notin g.eofs \cup DOMAIN g.classes
  /\ \A p \in g.prods : \A k \in DOMAIN p.body : p.body[k] = Null => Len(p.body) = 1
  /\ g.nts \cap (Chars \cup {Null, Eof}) = {}

ASSUME InputAssumption ==
  /\ Words \subseteq Seq(Chars)
  /\ Null \notin Chars \cup {Eof}
  /\ Eof \notin Chars
  /\ \A g \in Grammars : IsGrammar(g)

IsCc(g, l)   == l \in DOMAIN g.classes \cup g.eofs
ClassProd(k, ch) == [head |-> k, body |-> <<ch>>]

(***************************************************************************)
(* all_nulls and compute_nullables: the least set of nonterminals closed   *)
(* under "every literal of a body is null or nullable".                    *)
(***************************************************************************)
NullClosed(ps, N) ==
  \A p \in ps : (\A k \in DOMAIN p.body : p.body[k] \in N \cup {Null})
                  => p.head \in N

NullablesOf(nts, ps) ==
  {X \in nts : \A N \in SUBSET nts : NullClosed(ps, N) => X \in N}

(***************************************************************************)
(* The meaning of a literal and of a sequence of literals over the input:  *)
(* what they derive between two positions, when the nonterminals derive    *)
(* the spans R.                                                            *)
(***************************************************************************)
LitSpan(g, w, R, l, i, j) ==
  \/ l = Null /\ i = j
  \/ l \in Chars /\ j = i + 1 /\ j <= Len(w) /\ w[j] = l
  \/ l \in DOMAIN g.classes /\ j = i + 1 /\ j <= Len(w) /\ w[j] \in g.classes[l]
  \/ l \in g.eofs /\ i = j /\ j = Len(w)
  \/ <<l, i, j>> \in R

\* the first d literals of body derive w[i+1..j], cut at the positions f
BodySpan(g, w, R, body, d, i, j) ==
  \E f \in [0..d -> i..j] :
    /\ f[0] = i /\ f[d] = j
    /\ \A k \in 1..d : LitSpan(g, w, R, body[k], f[k-1], f[k])

ASSUME SpansAssumption ==
  \A g \in Grammars, w \in Words : \A p \in g.enabled :
    \A i \in 0..Len(w) : \A j \in i..Len(w) :
      BodySpan(g, w, Spans[g][w], p.body, Len(p.body), i, j)
        => <<p.head, i, j>> \in Spans[g][w]

(***************************************************************************)
(* What soundness needs of the grammars beyond their shape.  The code      *)
(* checks neither: with a decoder tcur returns the character 0 at the end  *)
(* of the input, which classes such as any accept, and the nullables come  *)
(* from every production, also from those a guard switches off.            *)
(***************************************************************************)
EofIsNoCharacter ==
  \A g \in Grammars : \A k \in DOMAIN g.classes : Eof \notin g.classes[k]

GuardsKeepNullables ==
  \A g \in Grammars : NullablesOf(g.nts, g.prods) = NullablesOf(g.nts, g.enabled)

(***************************************************************************)
(* What completeness needs.  A set of spans is closed when it holds what   *)
(* the productions derive from it; Spans is to be the least closed set.    *)
(* And the nullables are to tell every symbol that derives the empty word  *)
(* somewhere, as they do unless a nonterminal stands for the end of the    *)
(* input.  The code does not check that either.                            *)
(***************************************************************************)
ClosedSpans(g, w, R) ==
  \A p \in g.enabled : \A i \in 0..Len(w) : \A j \in i..Len(w) :
    BodySpan(g, w, R, p.body, Len(p.body), i, j) => <<p.head, i, j>> \in R

Triples(g, w) == g.nts \X (0..Len(w)) \X (0..Len(w))

LeastSpans(g, w) ==
  \A R \in SUBSET Triples(g, w) : ClosedSpans(g, w, R) => Spans[g][w] \subseteq R

NullablesTell(g, w) ==
  \A p \in g.enabled : \A k \in DOMAIN p.body : \A i \in 0..Len(w) :
    <<p.body[k], i, i>> \in Spans[g][w] => p.body[k] \in NullablesOf(g.nts, g.prods)

-------------------------------------------------------------------------------
VARIABLES
  gram,       \* the grammar
  nullables,  \* grammar::nullables, computed from every production
  word,       \* the input
  lang,       \* auxiliary: Spans[gram][word], which only the properties read
  n,          \* the position being processed
  S,          \* the chart; S[i] of the code holds the items x with x.set = i
  t,          \* the items added since the round began
  c,          \* the completed items parked until t is empty
  cache,      \* the waiting items, at position w.set under their next literal
  memo,       \* complete_memo: <<i, w>>, completion i has already advanced w
  snapshot,   \* the items this round has still to process
  done,       \* the items of S[n] that a round has taken up
  revisit,    \* revisit_: the completed items every round takes up again
  pc,         \* where the position loop is
  found       \* the answer, once pc = "done"

vars == <<gram, nullables, word, lang, n, S, t, c, cache, memo, snapshot, done,
          revisit, pc, found>>

input == <<gram, nullables, word, lang>>

\* item, without con: every production has one conjunct
Item(p, from, set, dot) == [prod |-> p, from |-> from, set |-> set, dot |-> dot]

Completed(x) == x.dot = Len(x.prod.body)
Lit(x)       == x.prod.body[x.dot + 1]
Nullable(x)  == ~Completed(x) /\ Lit(x) \in nullables \cup {Null}
Skip(x, k)   == Item(x.prod, x.from, x.set, x.dot + k)
Advance(w, set) == Item(w.prod, w.from, set, w.dot + 1)

\* tcur at the current position
Ch == IF n < Len(word) THEN word[n + 1] ELSE Eof

\* mutant: the chart is not searched, only t
AddedAgain(x) ==
  {Skip(x, k) : k \in {m \in 0..(Len(x.prod.body) - x.dot) :
    /\ \A q \in 0..m : Skip(x, q) \notin t
    /\ \A q \in 0..m : q < m => Nullable(Skip(x, q))}}

(***************************************************************************)
(* add(t, x): x and, as long as the next literal is nullable, x with the   *)
(* dot moved over it.  The recursion stops at an item the chart or t has.  *)
(***************************************************************************)
Added(x) ==
  {Skip(x, k) : k \in {m \in 0..(Len(x.prod.body) - x.dot) :
    /\ \A q \in 0..m : Skip(x, q) \notin S \cup t
    /\ \A q \in 0..m : q < m => Nullable(Skip(x, q))}}

AddedAll(X) == UNION {Added(x) : x \in X}

\* mutant: a start symbol completed from any position
AcceptingSuffix == \E p \in gram.enabled : \E i \in 0..n :
  /\ p.head = gram.start
  /\ Item(p, i, n, Len(p.body)) \in S

\* found: a completed production of the start symbol spans the input
Accepting == \E p \in gram.enabled :
  /\ p.head = gram.start
  /\ Item(p, 0, n, Len(p.body)) \in S

Init ==
  /\ gram \in Grammars /\ word \in Words /\ lang = Spans[gram][word]
  /\ nullables = NullablesOf(gram.nts, gram.prods)
  /\ n = 0 /\ pc = "round" /\ found = FALSE
  /\ S = {} /\ c = {} /\ cache = {} /\ memo = {}
  /\ snapshot = {} /\ done = {} /\ revisit = {}
  /\ t = UNION {{Skip(Item(p, 0, 0, 0), k) :
                   k \in {m \in 0..Len(p.body) : \A q \in 1..m :
                            p.body[q] \in nullables \cup {Null}}} :
                p \in {q \in gram.enabled : q.head = gram.start}}

\* mutant: only the symbols known to be nullable have empty spans
RevisitNullable(x) == Completed(x) /\ x.from = n /\ x.prod.head \in nullables

(***************************************************************************)
(* The head of a round: t moves into the chart, and the round takes up the *)
(* items of S[n] that no round has, with the items that need a revisit.    *)
(***************************************************************************)
MustRevisit(x) == Completed(x) /\ x.from = n

BeginRound ==
  /\ pc = "round"
  /\ S' = S \cup t /\ t' = {}
  /\ LET cur == {x \in S' : x.set = n}
     IN  /\ snapshot' = revisit \cup (cur \ done)
         /\ revisit' = revisit \cup {x \in cur \ done : MustRevisit(x)}
         /\ done' = cur
  /\ pc' = "process"
  /\ UNCHANGED <<input, n, c, cache, memo, found>>

Handles(x) == pc = "process" /\ x \in snapshot /\ snapshot' = snapshot \ {x}

\* mutant: the waiting items of the position, whatever they wait for
WaitersOfAny(x) == {w \in cache : w.set = x.from /\ w \in S /\ <<x, w>> \notin memo}

(***************************************************************************)
(* complete(x): every waiting item that x has not advanced yet moves its   *)
(* dot over the head of x.                                                 *)
(***************************************************************************)
Waiters(x) == {w \in cache : /\ w.set = x.from /\ Lit(w) = x.prod.head
                             /\ w \in S /\ <<x, w>> \notin memo}

Completion(x) ==
  /\ t' = t \cup Added(x) \cup AddedAll({Advance(w, x.set) : w \in Waiters(x)})
  /\ memo' = memo \cup {<<x, w>> : w \in {v \in cache : v.set = x.from}}

Complete(x) ==
  /\ Handles(x)
  /\ Completed(x)
  /\ Completion(x)
  /\ UNCHANGED <<input, n, S, c, cache, done, revisit, pc, found>>

(***************************************************************************)
(* predict(x): one-character lookahead drops the productions that start    *)
(* with a terminal or a class the current character cannot satisfy.        *)
(***************************************************************************)
FirstCanMatch(p) ==
  p.body # <<>> =>
    LET l == p.body[1]
    IN  /\ l \in Chars => l = Ch
        /\ l \in gram.eofs => Ch = Eof
        /\ l \in DOMAIN gram.classes => Ch \in gram.classes[l]

Productions(l) == {p \in gram.enabled : p.head = l}

Predict(x) ==
  /\ Handles(x)
  /\ ~Completed(x) /\ Lit(x) \in gram.nts /\ ~IsCc(gram, Lit(x))
  /\ cache' = IF Productions(Lit(x)) = {} THEN cache ELSE cache \cup {x}
  /\ t' = t \cup AddedAll({Item(p, n, n, 0) :
                            p \in {q \in Productions(Lit(x)) : FirstCanMatch(q)}})
  /\ UNCHANGED <<input, n, S, c, memo, done, revisit, pc, found>>

(***************************************************************************)
(* scan(x): a matched terminal puts the advanced item directly into the    *)
(* next set of the chart, without skipping nullable literals.              *)
(***************************************************************************)
Scan(x) ==
  /\ Handles(x)
  /\ ~Completed(x) /\ Lit(x) \notin gram.nts
  /\ S' = IF Lit(x) = Ch THEN S \cup {Advance(x, n + 1)} ELSE S
  /\ UNCHANGED <<input, n, t, c, cache, memo, done, revisit, pc, found>>

(***************************************************************************)
(* scan_cc_function(x): a completed production of the class goes into the  *)
(* chart, in the next set, or in this one at the end of the input.  Only   *)
(* an eof nonterminal is also parked in c.                                 *)
(***************************************************************************)
CcAccepts(l) == IF l \in gram.eofs THEN Ch = Eof ELSE Ch \in gram.classes[l]

ScanCc(x) ==
  /\ Handles(x)
  /\ ~Completed(x) /\ IsCc(gram, Lit(x))
  /\ IF CcAccepts(Lit(x))
     THEN LET k == Item(ClassProd(Lit(x), Ch), n,
                        IF Ch = Eof THEN n ELSE n + 1, 1)
          IN  /\ cache' = cache \cup {x}
              /\ S' = S \cup {k}
              /\ c' = IF Lit(x) \in gram.eofs THEN c \cup {k} ELSE c
     ELSE UNCHANGED <<cache, S, c>>
  /\ UNCHANGED <<input, n, t, memo, done, revisit, pc, found>>

Process(x) == Complete(x) \/ Predict(x) \/ Scan(x) \/ ScanCc(x)

(***************************************************************************)
(* The tail of a round: with t empty the parked items complete.  Their     *)
(* groups hold one positive conjunct each, so resolve_conjunctions keeps   *)
(* them all.                                                               *)
(***************************************************************************)
EndRound ==
  /\ pc = "process" /\ snapshot = {}
  /\ pc' = IF t = {} THEN "resolve" ELSE "round"
  /\ UNCHANGED <<input, n, S, t, c, cache, memo, snapshot, done, revisit, found>>

CompleteParked(x) ==
  /\ pc = "resolve" /\ x \in c
  /\ Completion(x)
  /\ c' = c \ {x}
  /\ UNCHANGED <<input, n, S, cache, snapshot, done, revisit, pc, found>>

EndResolve ==
  /\ pc = "resolve" /\ c = {}
  /\ pc' = IF t = {} THEN "advance" ELSE "round"
  /\ UNCHANGED <<input, n, S, t, c, cache, memo, snapshot, done, revisit, found>>

(***************************************************************************)
(* The end of a position, and the end of the input.                        *)
(***************************************************************************)
NextPosition ==
  /\ pc = "advance" /\ n < Len(word)
  /\ n' = n + 1 /\ memo' = {} /\ done' = {} /\ revisit' = {} /\ pc' = "round"
  /\ UNCHANGED <<input, S, t, c, cache, snapshot, found>>

Finish ==
  /\ pc = "advance" /\ n = Len(word)
  /\ found' = Accepting
  /\ memo' = {} /\ pc' = "done"
  /\ UNCHANGED <<input, n, S, t, c, cache, snapshot, done, revisit>>

\* the parse has its answer
Stopped == pc = "done" /\ UNCHANGED vars

Next ==
  \/ BeginRound \/ EndRound \/ EndResolve \/ NextPosition \/ Finish
  \/ \E x \in snapshot : Process(x)
  \/ \E x \in c : CompleteParked(x)
  \/ Stopped

Spec == Init /\ [][Next]_vars

\* the parser is one loop on one thread: it does not stop while it can step
FairSpec == Spec /\ WF_vars(Next)

-------------------------------------------------------------------------------
(***************************************************************************)
(* Properties.                                                             *)
(***************************************************************************)
ClassProds == {ClassProd(k, ch) : k \in DOMAIN gram.classes \cup gram.eofs,
                                  ch \in Chars \cup {Eof}}

Items ==
  {x \in [prod : gram.enabled \cup ClassProds,
          from : 0..Len(word), set : 0..Len(word), dot : Nat] :
     /\ x.from <= x.set /\ x.dot <= Len(x.prod.body)
     /\ x.prod \notin gram.enabled => x.dot = 1}

\* The types of the variables.  An item ends at most one position ahead, and
\* an item in t or c always belongs to the position being processed.
TypeOK ==
  /\ gram \in Grammars /\ word \in Words /\ nullables \subseteq gram.nts
  /\ n \in 0..Len(word)
  /\ S \subseteq Items /\ t \subseteq Items /\ c \subseteq S
  /\ \A x \in S : x.set <= n + 1
  /\ \A x \in t \cup c : x.set = n
  /\ \A x \in c : Completed(x)
  /\ cache \subseteq S /\ memo \subseteq S \X cache
  /\ \A w \in cache : ~Completed(w) /\ Lit(w) \in gram.nts
  /\ snapshot \subseteq done /\ revisit \subseteq done
  /\ done \subseteq {x \in S : x.set = n}
  /\ pc \in {"round", "process", "resolve", "advance", "done"}
  /\ found \in BOOLEAN

(***************************************************************************)
(* Soundness.  Whatever order the handlers run in, with the nullable       *)
(* shortcut, the lookahead and the class productions: the literals before  *)
(* the dot of every item derive the input between from and set.            *)
(***************************************************************************)
Backed(x) ==
  IF IsCc(gram, x.prod.head)
  THEN x.dot = 1 /\ LitSpan(gram, word, lang, x.prod.head, x.from, x.set)
  ELSE /\ x.prod \in gram.enabled
       /\ BodySpan(gram, word, lang, x.prod.body, x.dot, x.from, x.set)

ChartSound == \A x \in S \cup t : Backed(x)

(***************************************************************************)
(* Completeness.  When a position is left, every item whose next literal   *)
(* derives a stretch of the input that ends there has been advanced over   *)
(* it: nothing was lost to lookahead, to the memo of complete() or to the  *)
(* items the rounds skip.                                                  *)
(***************************************************************************)
PositionComplete ==
  pc \in {"advance", "done"} =>
    \A x \in S : x.set <= n /\ ~Completed(x)
                 /\ LitSpan(gram, word, lang, Lit(x), x.set, n) =>
      Advance(x, n) \in S

(***************************************************************************)
(* The answer, one direction at a time: an accepted input belongs to the   *)
(* language of the enabled productions, and an input that belongs to it is *)
(* accepted.                                                               *)
(***************************************************************************)
InLanguage == <<gram.start, 0, Len(word)>> \in lang

AcceptsOnlyMembers == pc = "done" /\ found => InLanguage

AcceptsEveryMember == pc = "done" /\ InLanguage => found

(***************************************************************************)
(* "Revisiting any other item is a no-op": an item a round does not take   *)
(* up again would add nothing to the chart if it were handled once more.   *)
(***************************************************************************)
Settled == done \ (snapshot \cup revisit)

SkippedRevisitIsNoOp ==
  pc \in {"process", "resolve", "advance"} =>
    \A x \in Settled :
      /\ Completed(x) => AddedAll({Advance(w, n) : w \in Waiters(x)}) = {}
      /\ ~Completed(x) /\ Lit(x) \in gram.nts /\ ~IsCc(gram, Lit(x)) =>
           /\ Productions(Lit(x)) # {} => x \in cache
           /\ AddedAll({Item(p, n, n, 0) :
                p \in {q \in Productions(Lit(x)) : FirstCanMatch(q)}}) = {}

(***************************************************************************)
(* The recogniser answers, and answers whether the start symbol derives    *)
(* the whole input: it implements Recognizer.                              *)
(***************************************************************************)
Answer == IF pc = "done" THEN (IF found THEN "accept" ELSE "reject") ELSE "none"

Abstract == INSTANCE Recognizer WITH
  answer <- Answer

ImplementsRecognizer == Abstract!Spec

\* Every parse ends: the rounds of a position stop adding items, whatever
\* cycles and nullable recursion the grammar has.
ParseReturns == Abstract!Answers
===============================================================================
