---------------------------- MODULE EarleyBoolean -----------------------------
(***************************************************************************)
(* The Earley recogniser of parser<C,T> (src/parser.tmpl.h) for Boolean    *)
(* grammars: productions with several conjuncts, some of them negated      *)
(* (any_conj is true).  The item collector is off and there are neither    *)
(* dynamic nonterminals nor character classes; those are in Earley and     *)
(* DynamicGrammar.                                                         *)
(*                                                                         *)
(* A completed conjunct is parked.  When a round adds nothing, the parked  *)
(* items of one production and origin are decided as a group: a group that *)
(* fails is retracted, with all that was derived from it, and a retracted  *)
(* item is never added again.                                              *)
(***************************************************************************)
EXTENDS Naturals, Sequences, FiniteSets

CONSTANTS
  Grammars,     \* the grammars to parse with
  Words,        \* the inputs, sequences of characters
  Chars,        \* the characters an input may hold
  Null,         \* the null literal
  Eof,          \* what input::tcur returns at the end of the input
  Spans         \* Spans[g][w]: the triples <<X, i, j>> with X =>* w[i+1..j]

(***************************************************************************)
(* A grammar as the constructor of grammar leaves it: its start symbol,    *)
(* its nonterminals and its productions, whose numbers order the groups.   *)
(* The constructor replaces a negated conjunct by a nonterminal for it.    *)
(***************************************************************************)
Literals(con) == {con.body[k] : k \in DOMAIN con.body}

Conjuncts(g) == [neg : BOOLEAN, body : Seq(g.nts \cup Chars \cup {Null})]

IsGrammar(g) ==
  /\ g.start \in g.nts /\ g.nts \cap (Chars \cup {Null, Eof}) = {}
  /\ g.prods \in Seq([head : g.nts, conjs : Seq(Conjuncts(g))])
  /\ \A p \in DOMAIN g.prods :
       /\ g.prods[p].conjs # << >>
       /\ \A k \in DOMAIN g.prods[p].conjs :
            LET con == g.prods[p].conjs[k]
            IN  /\ Null \in Literals(con) => Len(con.body) = 1
                /\ con.neg => Len(con.body) = 1 /\ Literals(con) \subseteq g.nts
  /\ \E p \in DOMAIN g.prods : Len(g.prods[p].conjs) > 1

ASSUME InputAssumption ==
  /\ Words \subseteq Seq(Chars)
  /\ Null \notin Chars \cup {Eof} /\ Eof \notin Chars
  /\ \A g \in Grammars : IsGrammar(g)

Bodies(g) == UNION {{[head |-> g.prods[p].head, body |-> g.prods[p].conjs[k].body] :
                       k \in DOMAIN g.prods[p].conjs} : p \in DOMAIN g.prods}

(***************************************************************************)
(* compute_nullables: a head is nullable as soon as one of its conjuncts,  *)
(* negated ones included, holds null or nullable literals only.            *)
(***************************************************************************)
NullablesOf(g) ==
  {X \in g.nts : \A N \in SUBSET g.nts :
     (\A b \in Bodies(g) : (\A k \in DOMAIN b.body : b.body[k] \in N \cup {Null})
                             => b.head \in N) => X \in N}

(***************************************************************************)
(* The meaning of a literal, of the first d literals of a conjunct and of  *)
(* a production over the input, when the nonterminals derive the spans R   *)
(* and a negated conjunct is read in the spans Q.                          *)
(***************************************************************************)
LitSpan(w, R, l, i, j) ==
  \/ l = Null /\ i = j
  \/ l \in Chars /\ j = i + 1 /\ j <= Len(w) /\ w[j] = l
  \/ <<l, i, j>> \in R

BodySpan(w, R, body, d, i, j) ==
  \E f \in [0..d -> i..j] :
    /\ f[0] = i /\ f[d] = j
    /\ \A k \in 1..d : LitSpan(w, R, body[k], f[k-1], f[k])

ProdSpan(w, R, Q, p, i, j) ==
  \A k \in DOMAIN p.conjs :
    LET con == p.conjs[k]
    IN  IF con.neg THEN ~BodySpan(w, Q, con.body, Len(con.body), i, j)
                   ELSE BodySpan(w, R, con.body, Len(con.body), i, j)

\* the spans solve the grammar read as equations (R is Spans[g][w])
ASSUME SpansAssumption ==
  \A g \in Grammars, w \in Words : \A R \in {Spans[g][w]} :
    R = {s \in g.nts \X (0..Len(w)) \X (0..Len(w)) :
           /\ s[2] <= s[3]
           /\ \E p \in DOMAIN g.prods :
                g.prods[p].head = s[1] /\ ProdSpan(w, R, R, g.prods[p], s[2], s[3])}

-------------------------------------------------------------------------------
VARIABLES
  gram,       \* the grammar
  nullables,  \* grammar::nullables
  word,       \* the input
  lang,       \* auxiliary: Spans[gram][word], which only the properties read
  n,          \* the position being processed
  S,          \* the chart; S[i] of the code holds the items x with x.set = i
  U,          \* the retracted items, which add() refuses
  t,          \* the items added since the round began
  c,          \* the completed items parked until t is empty
  parked,     \* the items of the groups still to decide (ps in the code)
  cache,      \* the waiting items, at position w.set under their next literal
  memo,       \* complete_memo: <<i, w>>, completion i has already advanced w
  forward,    \* forward_deps: <<x, y>>, y came from the uncompleted item x
  deps,       \* completion_deps: <<k, y>>, y came from a completion of key k
  counted,    \* counted_completions, which completion_count counts by key
  snapshot,   \* the items this round has still to process
  done,       \* the items of S[n] that a round has taken up
  revisit,    \* revisit_: the completed items every round takes up again
  full,       \* reprocess_epoch_ differs from the epoch of the last round
  pc,         \* where the position loop is
  found       \* the answer, once pc = "done"

input == <<gram, nullables, word, lang>>
chart == <<S, U, t, c, parked>>
waits == <<cache, memo>>
origins == <<forward, deps, counted>>
rounds == <<snapshot, done, revisit, full>>

vars == <<input, n, chart, waits, origins, rounds, pc, found>>

Item(p, con, from, set, dot) ==
  [prod |-> p, con |-> con, from |-> from, set |-> set, dot |-> dot]

Conjunct(x)    == gram.prods[x.prod].conjs[x.con]
Nt(x)        == gram.prods[x.prod].head
Negative(x)    == Conjunct(x).neg
Conjunctive(x) == Len(gram.prods[x.prod].conjs) > 1
Completed(x)   == x.dot = Len(Conjunct(x).body)
Lit(x)         == Conjunct(x).body[x.dot + 1]
Nullable(x)    == ~Completed(x) /\ Lit(x) \in nullables \cup {Null}
Skip(x, k)     == [x EXCEPT !.dot = @ + k]
Advance(w, set) == [w EXCEPT !.dot = @ + 1, !.set = set]
Key(x)         == <<Nt(x), x.from, x.set>>

Ch == IF n < Len(word) THEN word[n + 1] ELSE Eof

-------------------------------------------------------------------------------
(***************************************************************************)
(* add(t, x): x and, as long as the next literal is nullable, x with the   *)
(* dot moved over it.  The recursion stops at an item that was retracted   *)
(* or that the chart or t has.                                             *)
(***************************************************************************)
\* mutant: the retracted items are not looked up
KnownHere(x) == x \in S \cup t

\* mutant: the chart is not searched
KnownThisRound(x) == x \in U \cup t

Known(x) == x \in U \cup S \cup t

Added(x) ==
  {Skip(x, k) : k \in {m \in 0..(Len(Conjunct(x).body) - x.dot) :
    /\ \A q \in 0..m : ~Known(Skip(x, q))
    /\ \A q \in 0..m : q < m => Nullable(Skip(x, q))}}

AddedAll(X) == UNION {Added(x) : x \in X}

\* the nullable steps between items that are added together
NullSteps(X) == {s \in X \X X : Nullable(s[1]) /\ s[2] = Skip(s[1], 1)}

\* found: every conjunct of a production of the start symbol is decided for it
Accepting == \E p \in DOMAIN gram.prods :
  /\ gram.prods[p].head = gram.start
  /\ \A k \in DOMAIN gram.prods[p].conjs :
       LET con == gram.prods[p].conjs[k]
       IN  (Item(p, k, 0, n, Len(con.body)) \in S) # con.neg

\* the items of a production at a position, and how their dots may start
Fresh(p, i) == {Item(p, k, i, i, 0) : k \in DOMAIN gram.prods[p].conjs}

Init ==
  /\ gram \in Grammars /\ word \in Words /\ lang = Spans[gram][word]
  /\ nullables = NullablesOf(gram)
  /\ n = 0 /\ pc = "round" /\ found = FALSE
  /\ S = {} /\ U = {} /\ c = {} /\ parked = {}
  /\ LET starts == UNION {Fresh(p, 0) : p \in {q \in DOMAIN gram.prods :
                                                 gram.prods[q].head = gram.start}}
     IN  t = UNION {{Skip(x, k) : k \in {m \in 0..Len(Conjunct(x).body) :
                       \A q \in 0..m : q < m => Nullable(Skip(x, q))}} : x \in starts}
  /\ forward = NullSteps(t)
  /\ cache = {} /\ memo = {} /\ deps = {} /\ counted = {}
  /\ snapshot = {} /\ done = {} /\ revisit = {} /\ full = FALSE

(***************************************************************************)
(* The head of a round.  A retraction makes the next round take up every   *)
(* item again; a completed conjunct is taken up in every round, so that    *)
(* its whole group is parked when the groups are decided.                  *)
(***************************************************************************)
MustRevisit(x) == Completed(x) /\ (x.from = n \/ Conjunctive(x))

BeginRound ==
  /\ pc = "round"
  /\ S' = S \cup t /\ t' = {}
  /\ LET cur  == {x \in S' : x.set = n}
         old  == IF full THEN {} ELSE done
         kept == IF full THEN {} ELSE revisit
     IN  /\ snapshot' = kept \cup (cur \ old)
         /\ revisit' = kept \cup {x \in cur \ old : MustRevisit(x)}
         /\ done' = cur
  /\ full' = FALSE /\ pc' = "process"
  /\ UNCHANGED <<input, n, U, c, parked, waits, origins, found>>

Handles(x) == pc = "process" /\ x \in snapshot /\ snapshot' = snapshot \ {x}

(***************************************************************************)
(* complete(x), once x is decided: every waiting item that x has not       *)
(* advanced yet moves its dot over the head of x.  A completed positive    *)
(* conjunct is parked in the set sink stands for, which is t itself after  *)
(* the groups were decided; its origins are always recorded, those of an   *)
(* item that is added only if it is new.  An item that is new both by a    *)
(* completion and by a nullable step has the origin that came first.       *)
(***************************************************************************)
Waiters(x) == {w \in cache : /\ w.set = x.from /\ Lit(w) = Nt(x)
                             /\ w \in S \cup U /\ <<x, w>> \notin memo}

Parks(j) == ~Negative(j) /\ Completed(j) /\ Conjunctive(j)

Completion(x, decided) ==
  LET ws     == Waiters(x)
      joined == {j \in {Advance(w, x.set) : w \in ws} : Parks(j)}
      direct == {j \in {Advance(w, x.set) : w \in ws} : ~Parks(j) /\ ~Known(j)}
      new    == AddedAll(direct)
      meets  == {y \in direct \cup joined : \E z \in new : <<z, y>> \in NullSteps(new)}
  IN  \E first \in SUBSET meets :
        LET moved == (direct \ first) \cup joined
        IN  /\ t' = t \cup new \cup Added(x) \cup (IF decided THEN joined ELSE {})
            /\ forward' = forward
                 \cup {<<w, Advance(w, x.set)>> : w \in
                         {v \in ws : v.set = x.set /\ Advance(v, x.set) \in moved}}
                 \cup {s \in NullSteps(new) : s[2] \in meets => s[2] \in first}
            /\ deps' = deps \cup {<<Key(x), y>> : y \in moved}
            /\ counted' = counted \cup {x}
            /\ memo' = memo \cup {<<x, w>> : w \in {v \in cache : v.set = x.from}}
            /\ c' = IF decided THEN c \ {x} ELSE c \cup joined

\* a completed conjunct waits for its group
Park(x) ==
  /\ Handles(x)
  /\ Completed(x) /\ Conjunctive(x)
  /\ c' = c \cup {x}
  /\ UNCHANGED <<input, n, S, U, t, parked, waits, origins, done, revisit, full, pc, found>>

Complete(x) ==
  /\ Handles(x)
  /\ Completed(x) /\ ~Conjunctive(x)
  /\ Completion(x, FALSE)
  /\ UNCHANGED <<input, n, S, U, parked, cache, done, revisit, full, pc, found>>

\* predict(x), with one-character lookahead on terminals
FirstCanMatch(x) ==
  LET b == Conjunct(x).body IN b # << >> /\ b[1] \in Chars => b[1] = Ch

Predict(x) ==
  /\ Handles(x)
  /\ ~Completed(x) /\ Lit(x) \in gram.nts
  /\ LET ps  == {p \in DOMAIN gram.prods : gram.prods[p].head = Lit(x)}
         new == AddedAll({y \in UNION {Fresh(p, n) : p \in ps} : FirstCanMatch(y)})
     IN  /\ cache' = IF ps = {} THEN cache ELSE cache \cup {x}
         /\ t' = t \cup new
         /\ forward' = forward \cup NullSteps(new)
  /\ UNCHANGED <<input, n, S, U, c, parked, memo, deps, counted, done, revisit,
                 full, pc, found>>

\* scan(x): into the next set of the chart, also when it was retracted there
Scan(x) ==
  /\ Handles(x)
  /\ ~Completed(x) /\ Lit(x) \notin gram.nts
  /\ LET y == Advance(x, n + 1)
     IN  IF Lit(x) = Ch /\ y \notin S
         THEN S' = S \cup {y} /\ forward' = forward \cup {<<x, y>>}
         ELSE UNCHANGED <<S, forward>>
  /\ UNCHANGED <<input, n, U, t, c, parked, waits, deps, counted, done, revisit,
                 full, pc, found>>

Process(x) == Park(x) \/ Complete(x) \/ Predict(x) \/ Scan(x)

EndRound ==
  /\ pc = "process" /\ snapshot = {}
  /\ IF t = {} THEN pc' = "groups" /\ parked' = c
               ELSE pc' = "round" /\ UNCHANGED parked
  /\ UNCHANGED <<input, n, S, U, t, c, waits, origins, rounds, found>>

-------------------------------------------------------------------------------
(***************************************************************************)
(* resolve_conjunctions: the parked items are decided group by group, by   *)
(* production and then by origin.                                          *)
(***************************************************************************)
Precedes(x, y) == x.prod < y.prod \/ (x.prod = y.prod /\ x.from <= y.from)

Group == {x \in parked : \A y \in parked : Precedes(x, y)}

StillCompleted(key) == \E x \in counted : Key(x) = key

\* mutant: only what the group itself parked is looked at
HoldsHere(group, k) == \E x \in group : x.con = k

\* a conjunct holds: a member of its group is parked or, for a negated
\* conjunct of one nonterminal, that nonterminal has completed
Holds(group, k) ==
  LET con == gram.prods[(CHOOSE x \in group : TRUE).prod].conjs[k]
  IN  \E x \in group :
        \/ x.con = k
        \/ /\ con.neg /\ Len(con.body) = 1 /\ con.body[1] \in gram.nts
           /\ StillCompleted(<<con.body[1], x.from, x.set>>)

Fails(group) ==
  LET p == gram.prods[(CHOOSE x \in group : TRUE).prod]
  IN  \E k \in DOMAIN p.conjs : p.conjs[k].neg = Holds(group, k)

(***************************************************************************)
(* retract_item and cascade_uncomplete: with an item of the chart go the   *)
(* items its own steps created, and, when the last completion of its key   *)
(* goes, the items that the completions of this key created.               *)
(***************************************************************************)
\* mutant: one lost completion takes what the others support
Touched(A) == {Key(x) : x \in A \cap counted}

Emptied(A) == {k \in {Key(x) : x \in A \cap counted} :
                 {x \in counted : Key(x) = k} \subseteq A}

\* mutant: the steps of the retracted items themselves are kept
CascadeDeps(R) ==
  R \cup {d[2] : d \in {e \in deps : e[1] \in Emptied(R \cap S)}}

Cascade(R) ==
  LET A == R \cap S
  IN  R \cup {d[2] : d \in {e \in forward : e[1] \in A}}
        \cup {d[2] : d \in {e \in deps : e[1] \in Emptied(A)}}

Retracted(X) ==
  LET f[k \in Nat] == IF k = 0 THEN X ELSE UNION {Cascade(R) : R \in {f[k-1]}}
  IN  f[Cardinality(forward) + Cardinality(deps)]

Retract(X) ==
  LET R == Retracted(X)
      A == R \cap S
  IN  /\ S' = S \ R /\ U' = U \cup R /\ c' = c \ R
      /\ cache' = cache \ A
      /\ memo' = {m \in memo : m[2] \notin A}
      /\ forward' = {d \in forward : d[1] \notin A}
      /\ deps' = {d \in deps : d[1] \notin Emptied(A)}
      /\ counted' = counted \ A
      /\ full' = TRUE

ResolveGroup ==
  /\ pc = "groups" /\ parked # {}
  /\ parked' = parked \ Group
  /\ IF Fails(Group) THEN Retract(Group)
                     ELSE UNCHANGED <<S, U, c, waits, origins, full>>
  /\ UNCHANGED <<input, n, t, snapshot, done, revisit, pc, found>>

EndGroups ==
  /\ pc = "groups" /\ parked = {}
  /\ pc' = "resolve"
  /\ UNCHANGED <<input, n, chart, waits, origins, rounds, found>>

\* what is still parked completes
CompleteParked(x) ==
  /\ pc = "resolve" /\ x \in c
  /\ Completion(x, TRUE)
  /\ UNCHANGED <<input, n, S, U, parked, cache, rounds, pc, found>>

EndResolve ==
  /\ pc = "resolve" /\ c = {}
  /\ pc' = IF t = {} THEN "advance" ELSE "round"
  /\ UNCHANGED <<input, n, chart, waits, origins, rounds, found>>

(***************************************************************************)
(* The end of a position forgets the origins, and the end of the input.    *)
(***************************************************************************)
NextPosition ==
  /\ pc = "advance" /\ n < Len(word)
  /\ n' = n + 1 /\ pc' = "round"
  /\ memo' = {} /\ forward' = {} /\ deps' = {} /\ counted' = {}
  /\ snapshot' = {} /\ done' = {} /\ revisit' = {} /\ full' = FALSE
  /\ UNCHANGED <<input, chart, cache, found>>

Finish ==
  /\ pc = "advance" /\ n = Len(word)
  /\ found' = Accepting /\ pc' = "done"
  /\ memo' = {} /\ forward' = {} /\ deps' = {} /\ counted' = {}
  /\ UNCHANGED <<input, n, chart, cache, rounds>>

Stopped == pc = "done" /\ UNCHANGED vars

Next ==
  \/ BeginRound \/ EndRound \/ ResolveGroup \/ EndGroups \/ EndResolve
  \/ NextPosition \/ Finish
  \/ \E x \in snapshot : Process(x)
  \/ \E x \in c : CompleteParked(x)
  \/ Stopped

Spec == Init /\ [][Next]_vars

FairSpec == Spec /\ WF_vars(Next)

-------------------------------------------------------------------------------
(***************************************************************************)
(* Properties.                                                             *)
(***************************************************************************)
IsItem(x) ==
  /\ x.prod \in DOMAIN gram.prods /\ x.con \in DOMAIN gram.prods[x.prod].conjs
  /\ x.set \in 0..Len(word) /\ x.from \in 0..x.set
  /\ x.dot \in 0..Len(Conjunct(x).body)

\* The types of the variables; what is parked or added belongs to the position
\* being processed, and what waits is in the chart.
TypeOK ==
  /\ \A x \in S \cup U \cup t \cup c \cup parked \cup counted : IsItem(x)
  /\ \A x \in S \cup U : x.set <= n + 1
  /\ \A x \in t \cup c \cup parked \cup counted : x.set = n
  /\ \A x \in c \cup parked \cup counted : Completed(x)
  /\ cache \subseteq S /\ \A m \in memo : m[2] \in cache
  /\ snapshot \subseteq done /\ revisit \subseteq done
  /\ parked # {} => pc = "groups"
  /\ full \in BOOLEAN /\ found \in BOOLEAN
  /\ pc \in {"round", "process", "groups", "resolve", "advance", "done"}

(***************************************************************************)
(* Retraction is final: an item that was taken back because its group      *)
(* failed, or because it was derived from such an item, does not come back *)
(* into the chart, by a scan or by another derivation (add, scan).  Only a *)
(* completed conjunct may: complete() parks it again without a look at U,  *)
(* and its group is then decided anew.                                     *)
(***************************************************************************)
RetractedStaysOut == \A x \in U \cap (S \cup t) : Parks(x)

(***************************************************************************)
(* When a position is left nothing in the chart rests on a conjunct that   *)
(* was taken back: the literals before every dot derive the input, in the  *)
(* Boolean meaning of the nonterminals, and a completed positive conjunct  *)
(* is there only if its whole production holds.                            *)
(***************************************************************************)
Supported(x) ==
  /\ BodySpan(word, lang, Conjunct(x).body, x.dot, x.from, x.set)
  /\ Completed(x) /\ ~Negative(x) =>
       ProdSpan(word, lang, lang, gram.prods[x.prod], x.from, x.set)

PositionSound ==
  pc \in {"advance", "done"} => \A x \in S : x.set <= n => Supported(x)

(***************************************************************************)
(* Nothing that holds was taken back: when a position is left, every item  *)
(* whose next literal derives a stretch of the input has been advanced     *)
(* over it, unless this completes a conjunct of a production that does not *)
(* hold there.                                                             *)
(***************************************************************************)
PositionComplete ==
  pc \in {"advance", "done"} =>
    \A x \in S : x.set <= n /\ ~Completed(x) =>
      \A j \in x.set..n : LitSpan(word, lang, Lit(x), x.set, j) =>
        LET y == Advance(x, j)
        IN  \/ y \in S
            \/ /\ Completed(y) /\ Conjunctive(y)
               /\ ~ProdSpan(word, lang, lang, gram.prods[y.prod], y.from, y.set)

(***************************************************************************)
(* A decided position holds what the input supports and nothing else: the  *)
(* retractions took all that rests on a failed group and no more           *)
(* (resolve_conjunctions, retract_item, cascade_uncomplete).               *)
(***************************************************************************)
PositionExact == PositionSound /\ PositionComplete

(***************************************************************************)
(* The recogniser answers, and answers whether the start symbol derives    *)
(* the whole input in the Boolean meaning of the grammar.                  *)
(***************************************************************************)
InLanguage == <<gram.start, 0, Len(word)>> \in lang

Answer == IF pc = "done" THEN (IF found THEN "accept" ELSE "reject") ELSE "none"

Abstract == INSTANCE Recognizer WITH answer <- Answer

ImplementsRecognizer == Abstract!Spec

\* Every parse ends, although a retraction starts the rounds again.
ParseReturns == Abstract!Answers

(***************************************************************************)
(* The answer, one direction at a time.  "It is required that both literal *)
(* sequences match the input to satisfy the rule", and when a negated one  *)
(* "matches, it does not satisfy the rule" (docs/tau_grammar_format.md).   *)
(***************************************************************************)
AcceptsEveryMember == pc = "done" /\ InLanguage => found

AcceptsOnlyMembers == pc = "done" /\ found => InLanguage
===============================================================================
