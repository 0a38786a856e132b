---------------------------- MODULE CharClasses ----------------------------
(***************************************************************************)
(* The character classes a grammar derives from its rules                  *)
(* (src/grammar.tmpl.h).  A rule that matches one character is scanned as a*)
(* class: the class remembers a production `A => ch` of each character it  *)
(* was asked for, one memory per state of the guards, and the tree of such *)
(* a character is built from the rule.                                     *)
(*                                                                         *)
(* A write of the guards, the switch, the start symbol, the classes, the   *)
(* dynamic alternatives or the excluded rules analyses the rules again.    *)
(* A production stands for its index.                                      *)
(***************************************************************************)
EXTENDS Integers, Sequences, SequencesExt, FiniteSetsExt, Functions

CONSTANTS
  Chars,       \* the characters of the input
  Nts,         \* the nonterminals
  Eof,         \* cc_fns.eof_fn, one of them
  Guards, None,
  Grammars,    \* their source and start, and what may grow in them: entries are
               \* pairs of a nonterminal and a text, parsers the children that
               \* a parser has in dynamic_grow_nts
  Starts,      \* the start symbols that are written
  ClassLists,  \* the values of char-classes: functions from names to characters
  MaxNodes,    \* the budget of a class: max_nodes
  MaxMade,     \* bound: the productions of classes
  MaxWord      \* bound: the length of the words that are compared

ASSUME SourceAssumption ==
  \A g \in Grammars :
    /\ \A p \in g.source :
         p.origin = "source" /\ \A c \in p.conjs : DOMAIN c.lits = 1..Len(c.lits)
    /\ \A e \in g.entries : e = <<e[1], e[2]>>

\* a name is no character, and a class is named by a nonterminal
ASSUME NamesAssumption ==
  IsFiniteSet(Nts) /\ Nts \cap Chars = {} /\ \A c \in ClassLists : DOMAIN c \subseteq Nts

ASSUME WordAssumption == MaxWord \in Nat \ {0}

VARIABLES
  grammar,
  enabled,   \* opt_.enabled_guards
  derive,    \* opt_.derive_char_classes
  start,
  cls,       \* cc_fns.fns of the predefined classes
  excluded,  \* cc_excluded_nts_
  host, live, known,  \* opt_.dynamic, the linked part and all of dynamic_
  parsers,   \* the parsers that were made, by their children
  fns,       \* cc_fns.fns of the derived classes
  active,    \* cc_active_guards_
  ps,        \* cc_fns.ps
  aside,     \* cc_ps_states_
  byChar,    \* cc_char_prods_
  made,      \* the productions `A => ch` of G
  unlinked,  \* cc_char_prod_ids_
  exprs,     \* cc_prod_exprs_: what each production accepts
  inner,     \* cc_inner_nts_
  linked     \* ntsm

settings == <<grammar, enabled, derive, start, cls, excluded, host, live, known, parsers>>
classes  == <<fns, active, ps, aside, exprs, inner>>
vars     == <<settings, classes, byChar, made, unlinked, linked>>

derived == DOMAIN fns

Prod(head, text, origin, copy) ==
  [head |-> head, conjs |-> {[neg |-> FALSE, lits |-> text]}, guard |-> None,
   origin |-> origin, copy |-> copy]

Alternative(e) == Prod(e[1], e[2], "dynamic", 0)
Heads(S)       == {e[1] : e \in S}

-----------------------------------------------------------------------------
(***************************************************************************)
(* The tables of the grammar.                                              *)
(***************************************************************************)
On(p) == p.guard = None \/ p.guard \in enabled

Source            == {p \in grammar.source : On(p)}
SourceOf(nt)      == {p \in Source : p.head = nt}
Symbols(p)        == UNION {Range(c.lits) : c \in p.conjs}
Positive(p)       == {c \in p.conjs : ~c.neg}

\* what the n-th round of a fixed point gives, from nothing; y is x, found once
Rounds(Step(_), n) ==
  LET f[k \in Nat] == IF k = 0 THEN {} ELSE UNION {Step(y) : y \in {f[k-1]}} IN f[n]

\* compute_nullables: over all productions, whatever their guard
NullablesOf(rules) ==
  LET Step(n) == {p.head : p \in {q \in rules :
                                     \E c \in q.conjs : Range(c.lits) \subseteq n}}
  IN  Rounds(Step, Cardinality(Nts))

Nullables == NullablesOf(grammar.source)

\* set_enabled_productions: what ntsm holds
Linkable == Source \cup {Alternative(e) : e \in live} \cup (made \ unlinked)

-----------------------------------------------------------------------------
(***************************************************************************)
(* single_char_rule: what is found out of a rule that matches exactly one  *)
(* character.  Its characters are those its predicate accepts, its guards  *)
(* those of the productions it was read from.                              *)
(***************************************************************************)
Leaf(cs) == [nodes |-> 1, guards |-> {}, chars |-> cs]

\* a literal is one character: a has the rules that were found out so far
IsLeaf(l)   == l \in Chars \/ (l \in DOMAIN cls /\ l \notin excluded \cup {Eof})
Found(a)    == {r.nt : r \in a}
Known(a, l) == IsLeaf(l) \/ l \in Found(a)

Info(a, l) ==
  CASE l \in Chars      -> Leaf({l})
    [] l \in DOMAIN cls -> Leaf(cls[l])
    [] OTHER            -> CHOOSE r \in a : r.nt = l

\* the rule itself allows a class
Walkable(nt) ==
  /\ nt \notin excluded \cup DOMAIN cls \cup {start}
  /\ nt \notin Heads(host) \cup Heads(known)
  /\ SourceOf(nt) # {}
  /\ \A p \in SourceOf(nt) : Positive(p) # {} /\ \A c \in p.conjs : Len(c.lits) = 1

\* A defect the checks look for: the negated conjuncts are skipped.
AcceptsPositive(a, p) ==
  {ch \in Chars : \A c \in Positive(p) : ch \in Info(a, c.lits[1]).chars}

\* what a production accepts: all its conjuncts
Accepts(a, p) ==
  {ch \in Chars : \A c \in p.conjs : ch \in Info(a, c.lits[1]).chars <=> ~c.neg}

GuardsOf(a, nt) ==
  ({p.guard : p \in SourceOf(nt)} \ {None})
    \cup UNION {Info(a, l).guards : l \in UNION {Symbols(p) : p \in SourceOf(nt)}}

SumOf(f) == FoldFunction(LAMBDA x, y : x + y, 0, f)

NodesOf(a, nt) ==
  1 + SumOf([p \in SourceOf(nt) |->
               1 + SumOf([c \in p.conjs |->
                            Info(a, c.lits[1]).nodes + (IF c.neg THEN 1 ELSE 0)])])

SingleCharRule(a, nt) ==
  [nt |-> nt, nodes |-> NodesOf(a, nt), guards |-> GuardsOf(a, nt),
   chars |-> UNION {Accepts(a, p) : p \in SourceOf(nt)}]

Ready(rules, a) == {nt \in rules : \A p \in SourceOf(nt) : \A l \in Symbols(p) : Known(a, l)}

\* a rule on a cycle is never found out
AnalysisOf(rules) ==
  LET Step(a) == {r \in {SingleCharRule(a, nt) : nt \in Ready(rules, a)} : r.nodes =< MaxNodes}
  IN  Rounds(Step, Cardinality(Nts))

Walkables == {nt \in Nts \ Nullables : Walkable(nt)}

(***************************************************************************)
(* classify_cc_walk.                                                       *)
(***************************************************************************)
Users(nt) == {p.head : p \in {q \in Source : nt \in Symbols(q)}}

\* marked as failed: a predefined class has no mark of its own
Rejected(a, nt) == ~Known(a, nt)

\* accepted, and used by a rule that is not
DerivedOf(a) == {nt \in Found(a) : \E u \in Users(nt) : Rejected(a, u)}
\* accepted, and used by accepted rules only
InnerOf(a)   == {nt \in Found(a) : Users(nt) # {}} \ DerivedOf(a)

-----------------------------------------------------------------------------
(***************************************************************************)
(* apply_derived_char_classes.  kept: the memories that are set aside, with*)
(* those of the classes that were active; cache: what is in cc_fns.ps.     *)
(***************************************************************************)
NoCache  == [nt \in Nts |-> << >>]
NoMemory == [gs \in SUBSET Guards |-> << >>]

\* A defect the checks look for: the memory of the class goes on.
GoOn(cache, kept, nt, guards) == cache[nt]

\* the memory a derived class begins with
Resume(cache, kept, nt, guards) ==
  IF guards \in DOMAIN kept[nt] THEN kept[nt][guards] ELSE << >>

OutcomeOf(a) ==
  LET now   == IF derive THEN DerivedOf(a) ELSE {}
      below == IF derive THEN InnerOf(a) ELSE {}
  IN  [fns    |-> [nt \in now |-> Info(a, nt).chars],
       active |-> [nt \in now |-> Info(a, nt).guards],
       inner  |-> below,
       exprs  |-> [p \in {q \in Source : q.head \in now \cup below} |-> Accepts(a, p)]]

\* the one outcome of the analysis under the settings
Outcomes == {OutcomeOf(a) : a \in {AnalysisOf(rules) : rules \in {Walkables}}}

ApplyDerivedCharClasses(kept, cache) ==
  /\ \E new \in Outcomes' :
         /\ fns' = new.fns /\ active' = new.active
         /\ inner' = new.inner /\ exprs' = new.exprs
         /\ ps' = [nt \in Nts |->
                     IF nt \in DOMAIN new.fns
                     THEN Resume(cache, kept, nt, new.active[nt]) ELSE cache[nt]]
  /\ aside' = kept
  /\ linked' = Linkable'

\* the memories of the active classes, under the guards they belong to
SetAside ==
  [nt \in Nts |->
     IF nt \in derived
     THEN [aside[nt] EXCEPT ![active[nt]] = ps[nt]] ELSE aside[nt]]

\* set_enabled_productions, after a write of what it reads
Rebuild == UNCHANGED <<byChar, made, unlinked>> /\ ApplyDerivedCharClasses(SetAside, ps)

-----------------------------------------------------------------------------
(***************************************************************************)
(* The writes of the host, between parses.                                 *)
(***************************************************************************)
\* set_enabled_productions, productions_enable, productions_disable
SetEnabledProductions(gs) ==
  /\ enabled' = gs
  /\ UNCHANGED <<grammar, derive, start, cls, excluded, host, live, known, parsers>>
  /\ Rebuild

DeriveCharClasses(b) ==
  /\ derive' = b
  /\ UNCHANGED <<grammar, enabled, start, cls, excluded, host, live, known, parsers>>
  /\ Rebuild

\* the hook of the option start
WriteStart(s) ==
  /\ start' = s
  /\ UNCHANGED <<grammar, enabled, derive, cls, excluded, host, live, known, parsers>>
  /\ Rebuild

\* drop_char_class_caches
Dropped == [nt \in Nts |-> NoMemory]

\* the hook of char-classes; the value of the codec has no derived class
WriteClasses(c) ==
  /\ cls' = c
  /\ unlinked' = unlinked \cup made
  /\ UNCHANGED <<grammar, enabled, derive, start, excluded, host, live, known, parsers>>
  /\ UNCHANGED <<byChar, made>>
  /\ ApplyDerivedCharClasses(Dropped, NoCache)

\* add_dynamic of one value
AddDynamic(e) ==
  /\ e \notin host
  /\ host' = host \cup {e} /\ live' = live \cup {e} /\ known' = known \cup {e}
  /\ UNCHANGED <<grammar, enabled, derive, start, cls, excluded, parsers>>
  /\ Rebuild

\* apply_dynamic_values: the option dynamic is written without a value
ClearDynamic ==
  /\ host # {}
  /\ host' = {} /\ live' = live \ host
  /\ UNCHANGED <<grammar, enabled, derive, start, cls, excluded, known, parsers>>
  /\ Rebuild

\* prepare, set_dynamic_grow: a parser with children excludes them
NewParser(children) ==
  /\ parsers' = parsers \cup {children} /\ excluded' = children
  /\ UNCHANGED <<grammar, enabled, derive, start, cls, host, live, known>>
  /\ Rebuild

(***************************************************************************)
(* A parse.                                                                *)
(***************************************************************************)
\* add_dynamic_production_from or sync_dynamic_context: a child of a parser
\* grows; nothing is analysed
Grow(e) ==
  /\ e[1] \in UNION parsers /\ e \notin live
  /\ live' = live \cup {e} /\ known' = known \cup {e}
  /\ linked' = linked \cup {Alternative(e)}
  /\ UNCHANGED <<grammar, enabled, derive, start, cls, excluded, host, parsers>>
  /\ UNCHANGED <<classes, byChar, made, unlinked>>

\* rollback_dynamic
Retire ==
  /\ live # host
  /\ live' = host
  /\ linked' = linked \ {Alternative(e) : e \in live \ host}
  /\ UNCHANGED <<grammar, enabled, derive, start, cls, excluded, host, known, parsers>>
  /\ UNCHANGED <<classes, byChar, made, unlinked>>

Copies(nt, ch) == {d \in made : d.head = nt /\ d.conjs = {[neg |-> FALSE, lits |-> <<ch>>]}}
NewCopy(nt, ch) == Prod(nt, <<ch>>, "class", Cardinality(Copies(nt, ch)) + 1)

Remember(f, nt, ch, p) ==
  [f EXCEPT ![nt] = [c \in DOMAIN @ \cup {ch} |-> IF c = ch THEN p ELSE @[c]]]

\* add_char_class_production: a derived class shares one production per
\* character, and never links it
AddCharClassProduction(nt, ch) ==
  IF nt \in derived /\ ch \in DOMAIN byChar[nt]
  THEN /\ ps' = Remember(ps, nt, ch, byChar[nt][ch])
       /\ UNCHANGED <<byChar, made, unlinked, linked>>
  ELSE /\ Cardinality(made) < MaxMade
       /\ LET p == NewCopy(nt, ch)
          IN  /\ made' = made \cup {p} /\ ps' = Remember(ps, nt, ch, p)
              /\ IF nt \in derived
                 THEN /\ byChar' = Remember(byChar, nt, ch, p)
                      /\ unlinked' = unlinked \cup {p} /\ UNCHANGED linked
                 ELSE linked' = linked \cup {p} /\ UNCHANGED <<byChar, unlinked>>

Predicate(nt) == IF nt \in derived THEN fns[nt] ELSE cls[nt]

\* get_char_class_production returns one
Scans(nt, ch) == ch \in DOMAIN ps[nt] \/ ch \in Predicate(nt)

\* scan_cc_function at a waiting item
ScanCcFunction(nt, ch) ==
  /\ nt \in (derived \cup DOMAIN cls) \ {Eof}
  /\ ch \notin DOMAIN ps[nt] /\ Scans(nt, ch)
  /\ AddCharClassProduction(nt, ch)
  /\ UNCHANGED <<settings, fns, active, aside, exprs, inner>>

-----------------------------------------------------------------------------
\* A grammar is built with no guard, no dynamic value and the switch on.
Init ==
  /\ grammar \in Grammars
  /\ enabled = {} /\ derive = TRUE /\ start = grammar.start
  /\ cls \in ClassLists /\ excluded = {} /\ host = {} /\ live = {} /\ known = {} /\ parsers = {}
  /\ aside = [nt \in Nts |-> NoMemory] /\ ps = NoCache /\ byChar = NoCache
  /\ made = {} /\ unlinked = {}
  /\ \E new \in Outcomes :
         fns = new.fns /\ active = new.active /\ inner = new.inner /\ exprs = new.exprs
  /\ linked = Linkable

Next ==
  \/ \E gs \in SUBSET Guards : SetEnabledProductions(gs)
  \/ \E b \in BOOLEAN : DeriveCharClasses(b)
  \/ \E s \in Starts : WriteStart(s)
  \/ \E c \in ClassLists : WriteClasses(c)
  \/ \E e \in grammar.entries : AddDynamic(e) \/ Grow(e)
  \/ ClearDynamic \/ Retire
  \/ \E children \in grammar.parsers : NewParser(children)
  \/ \E nt \in Nts, ch \in Chars : ScanCcFunction(nt, ch)

Spec == Init /\ [][Next]_vars

-----------------------------------------------------------------------------
(***************************************************************************)
(* The words that rules derive when the nonterminals of leaf are classes:  *)
(* a conjunct is negated by what its words are in the round before, so the *)
(* rounds are exact when no negation is on a cycle.  A class takes one more.*)
(***************************************************************************)
Words == UNION {[1..n -> Chars] : n \in 0..MaxWord}

\* sem: pairs of a nonterminal and a word it derives
Of(sem, l) == IF l \in Nts THEN {x[2] : x \in {y \in sem : y[1] = l}} ELSE {<<l>>}

Spelled(sem, lits) ==
  LET f[k \in 0..Len(lits)] ==
        IF k = 0 THEN {<<>>}
        ELSE {u \o v : u \in f[k-1], v \in Of(sem, lits[k])} \cap Words
  IN  f[Len(lits)]

Derives(sem, p, w) == \A c \in p.conjs : w \in Spelled(sem, c.lits) <=> ~c.neg

\* leaf: pairs of a class and a character
Reading(rules, names, leaf, sem) ==
  {<<x[1], <<x[2]>> >> : x \in leaf} \cup
  UNION {{<<p.head, w>> : w \in {v \in Words : Derives(sem, p, v)}} :
           p \in {q \in rules : q.head \notin names}}

\* the rules as they are, without a derived class
Plain(sem) ==
  Reading(Source \cup {Alternative(e) : e \in live}, DOMAIN cls,
          {x \in (DOMAIN cls) \X Chars : x[2] \in cls[x[1]]}, sem)

\* what the recogniser reads: it scans a class and predicts every other rule
Scanned(sem) ==
  LET names == derived \cup DOMAIN cls
  IN  Reading(linked, names, {x \in names \X Chars : Scans(x[1], x[2])}, sem)

Meaning == Rounds(Plain, Cardinality(Nts) + 1)
Reads   == Rounds(Scanned, Cardinality(Nts) + 1)

(***************************************************************************)
(* Every nonterminal matches what it matches without derived classes: in   *)
(* every order of guards, switches, starts, class lists, alternatives and  *)
(* scans no remembered character, no production that is left in the index  *)
(* and no rule that is a class too many or too long changes it             *)
(* (apply_derived_char_classes, get_char_class_production).                *)
(***************************************************************************)
AsRules == Reads = Meaning

\* derived_class_packs of a character
Packs(nt, ch) ==
  UNION {{c.lits[1] : c \in Positive(p)} : p \in {q \in SourceOf(nt) : ch \in exprs[q]}}

\* the same by the meaning of the rules
Derivations(nt, ch) ==
  UNION {{c.lits[1] : c \in Positive(p)} :
           p \in {q \in SourceOf(nt) : Derives(Meaning, q, <<ch>>)}}

(***************************************************************************)
(* The tree of a character of a class is the tree without the class, down  *)
(* to a predefined class or the character: each rule on the way has a      *)
(* recipe of its own (derived_class_packs, uses_derived_recipe).           *)
(***************************************************************************)
RecipesExact ==
  \A nt \in derived \cup inner, ch \in Chars :
    /\ Packs(nt, ch) = Derivations(nt, ch)
    /\ Packs(nt, ch) \subseteq Chars \cup DOMAIN cls \cup derived \cup inner

(***************************************************************************)
(* What a class remembers it accepts: no memory outlives the rules, the    *)
(* guards or the class list it was filled under (get_char_class_production,*)
(* apply_derived_char_classes).                                            *)
(***************************************************************************)
MemoryFits ==
  /\ \A nt \in Nts \cap derived : DOMAIN ps[nt] \subseteq fns[nt]
  /\ \A nt \in Nts \cap DOMAIN cls : DOMAIN ps[nt] \subseteq cls[nt]

(***************************************************************************)
(* A production that a derived class shares between the states of the      *)
(* guards is in no index that predict() reads, and the memory of a class   *)
(* holds productions of its own characters only.                           *)
(***************************************************************************)
NeverLinked ==
  /\ linked \cap unlinked = {}
  /\ \A nt \in Nts \cap derived : Range(ps[nt]) \subseteq unlinked
  /\ \A nt \in Nts : \A ch \in DOMAIN ps[nt] : ps[nt][ch] \in Copies(nt, ch)
=============================================================================
