# Verification of the IDNI parser

TLA+ models of the IDNI parser library and of the `tgf serve` relay built on it, the TLC
runs that check them on small instances, and TLAPS proofs for every value of the constants.
Paths below are relative to the root of the repository. `PROJECT.json` maps each definition
to the lines it models.

## 1. The system

| part | state | operations | calls |
|---|---|---|---|
| Earley recogniser, `src/parser.tmpl.h`, `src/parser.h` | chart `S`, new items `t`, waiting items `cache`, `complete_memo`, `revisit_`, parked items `c` | `_parse` and its position loop; `predict`, `scan`, `scan_cc_function`, `complete`, `add` | grammar, input |
| Conjunction and negation, same files | groups in `c`, retracted items `U`, `forward_deps`, `completion_deps`, `completion_count` | `resolve_conjunctions`, `retract_item`, `cascade_uncomplete` | recogniser |
| Item collector, same files | `refi`, `gcready` | `remove_item`, the lagged drain of the loop | recogniser |
| Grammar tables, `src/grammar.tmpl.h` | `G`, `ntsm`, `guards`, `nullables`, class functions | construction, `set_enabled_productions`, `add_char_class_production`, `compute_nullables` | options |
| Dynamic grammar, `src/grammar.tmpl.h` | `dynamic_`, `dynamic_idx_`, `pending_`, `opt_.dynamic`, `dynamic_context::values` | `add_dynamic`, `apply_dynamic_values`, `add_dynamic_production_from`, `confirm_dynamic`, `commit_dynamic`, `rollback_dynamic`, `sync_dynamic_context` | recogniser (hook), options (write of `dynamic`) |
| Derived character classes, `src/grammar.tmpl.h` | `cc_fns`, memories by guard state `cc_ps_states_`, shared productions `cc_char_prods_`, `cc_char_prod_ids_`, predicates `cc_prod_exprs_` | `single_char_rule`, `classify_cc_walk`, `apply_derived_char_classes`, `add_char_class_production`, `derived_class_packs` | grammar (each rebuild), recogniser (scan), options (write of `char-classes`) |
| Input, `src/parser.h` | position, decoder, data or stream or memory map | `tcur`, `tnext`, `get_terminals` | recogniser |
| Forest, disambiguation, errors, `src/parser.tmpl.h`, `src/utility/forest.h` | packed nodes, ambiguity lists | `build_forest`, `build_bintree`, `found`, `get_error` | recogniser, result |
| Result and shaping, `src/parser_result.tmpl.h` | forest, chosen tree | trim, inline, shape, ambiguity queries | forest, tree |
| Hash-consed trees, `src/utility/tree.h` | the table of unique nodes, handles, caches | `get`, handles, `gc` | rewriter |
| Traversals and rewriting, `src/utility/tree_*.h`, `src/rewriting.h` | explicit stacks, memo tables | pre- and post-order with replacement, matching | tree |
| Options repository, `src/utility/options.h` | definitions, bound fields, subtrees | define, bind, unbind, set, reset, callbacks | grammar, parser, tool |
| Diagnostics and reports, `src/utility/diagnostics.h`, `src/utility/measure.h` | a tree of scoped entries | open, close, add, merge | everything |
| Relay `tgf serve`, `src/tgf/tgf_serve.cpp` | connections, sessions, descriptors of children, timers, logs | the Asio handlers | child processes (`src/tgf/tgf_json_api.cpp`), clients (`src/tgf/tgf_connect.cpp`) |
| TGF reader, generators, tool, REPL, formats | grammar text and parser sources | conversions of text | grammar, parser |
| Wrappers and data: memory maps, temporary files, paths, terminal, encodings, class tables | descriptors, tables | system calls and conversions | input, tool |

Interaction. A host builds a grammar and one or more parsers that share it. `parser::parse`
reads a `dynamic_context` into the grammar, runs the position loop over the input, may call a
host's grow hook from inside `scan` and `complete`, decides what the hook added and builds the
forest. All of it runs on one thread: what interleaves are handlers inside a parse, the order
of which comes from a hash set, and calls of several parsers and of the host between parses.
`tgf serve` runs one Asio loop: it forks one child for each session, forwards the lines of the
one client that is attached, and relays the answers; clients and children stall, fail and leave
at any time, and several timers race with them.

What is hard, by part:

* Recogniser: the answer must not depend on the order of a round; the shortcuts (nullable
  advance inside `add`, lookahead, memo of `complete`, items the rounds skip) must lose nothing;
  the rounds of a position must end with cycles and empty productions.
* Conjunction: retraction of what was built on a conjunct that failed, and its return.
* Collector: an item that is collected must not be needed again.
* Dynamic grammar: one table of four states that hosts, hooks, several parsers and several
  contexts change in any order; a second table (the option) and an index follow it.
* Derived classes: what a scan has remembered outlives the guards, the switch and the class list it
  was remembered under.
* Trees, options, diagnostics: references that survive collection, moves and merges.
* Relay: counts that several handlers keep, descriptors that a fork copies, timeouts that race
  with late answers, buffers at their limit, objects no pending handler holds.

`PROJECT.json` lists the hazards at their lines with the properties that cover them.

## 2. Plan

Written in this order; a later module uses the conventions of the earlier ones.

| module | what | state |
|---|---|---|
| `Earley` with `Recognizer`, `EarleyProofs` | the position loop and its abstract specification; soundness, completeness and the refinement proved | done |
| `Serve`, `ServeProofs` | connections, sessions and children of the relay, safety and liveness; its safety proved, the pauses included | done |
| `DynamicGrammar`, `DynamicGrammarProofs` | the four states of a dynamic value and the tables that follow it | done |
| `EarleyBoolean`, `EarleyBooleanProofs` | the loop with conjunction and negation; the types and the retractions proved | done |
| `HashConsTree`, `HashConsTreeProofs` | interning, handles, pauses, `gc` and the caches; proved for an orderly use | done |
| `Traversal` | the loops of the traversals against their recursion | done |
| `Morris`, `MorrisProofs` | the walk without a stack against the recursion, proved for every unshared tree | done |
| `Rewrite` | the passes of the rewriter and its fixed points, against rewriting by instances of the rules | done |
| `GrammarOptions`, `GrammarOptionsProofs` | the repository and the options of a grammar with their hooks; every invariant of its run proved | done |
| `Forest` | both tree builders over a complete chart and the forest read off a tree | done |
| `EarleyCollected`, `EarleyProofs` | the loop with the collector on; its soundness proved | done |
| `CharClasses`, `CharClassesProofs` | the analysis of single-character rules and what scans remember, against the language of the rules; the memories, the recipes and the meaning proved | done |
| `Shape` | trimming, inlining and the shaped tree, against a reference definition | open |
| `Reports` | scopes of diagnostics and measures that open, close and merge in every order | open |
| further proofs | `PositionExact` of `EarleyBoolean` | open |

Composition. `Earley` and `EarleyBoolean` implement `Recognizer`. `Serve` holds its children as far as the relay
sees them; the client of `tgf_connect.cpp` is to close it. `DynamicGrammar` leaves open when the
hook fires; composing it with `Earley` is left out, since a parse only reads the index.
`EarleyCollected` composes the collector with the handlers of `Earley`. `Forest` starts from the
complete chart that `Earley` ends with; `Traversal` and `Morris` walk the nodes of `HashConsTree` (`MCWalks` runs either), `Rewrite` takes the order of a unique visit from `Traversal`,
of which they need only that equal nodes have one address. `CharClasses` reads host values and grown
values as `DynamicGrammar` leaves them between parses, and holds only which of them are linked.

## 3. The modules

### Earley, Recognizer, EarleyInstances, MCEarley, MCEarleyFindings, EarleyProofs

One parse of one input. The grammar and the input are chosen in the initial state, so that one
run covers many of both. The variables are those of `parser::_parse`: `S` (one set, an item
carries its position), `t`, `c`, `cache`, `memo`, `snapshot`, `done` and `revisit`; `pc` is the
place in the loop. A call of `predict`, `scan`, `scan_cc_function` or `complete` on one item is
one action and does all that the call does, the recursion of `add` over nullable literals
included. The order of a round is open. `BeginRound`, `EndRound`, `EndResolve`, `NextPosition`
and `Finish` are the head and the tail of the loops.

What an item or a word derives is data of the model: `Spans` holds, for each grammar and word,
a set of triples closed under the enabled productions (`SpansAssumption`). The runs give it the
least such set, by iteration. The soundness proofs need only that it is closed, so they hold for the
least; the completeness proofs need that it is the least.

`Recognizer` is what `parse` promises: one answer that tells membership, in finite time.

Left out: dynamic values, measuring, debugging. A grammar without
conjunction takes exactly the modelled paths (`any_conj` is false); `EarleyBoolean` has the others.

### EarleyCollected

`Earley` with `parse_options::enable_gc`; `lag` is `gc_lag` or `NoLag`, chosen in the initial state,
so the runs of the recogniser have parses of both kinds. `refi` holds the counts, all of them
positive, and `gcready` the items that may go. Each handler is the handler of `Earley` with what it
does to these two (`Collect`). `remove_item` recurses over the items that wait; since an item is
removed once and each removal counts every waiting item down once, the recursion ends with the same
set whatever the order, and `Removed` is that set, reached in at most as many steps as items are
counted. With the collector a round takes up all of `S[n]`
(`FullRound`), and the end of a position takes out of the chart what is old enough
(`LeavePosition`). Of two waiting items that a nullable symbol sets apart, the one advanced second
may add nothing new; the order is that of a list filled in the order of a hash set, so `late` leaves
it open. Left out: binarized bodies, `fromS` (an index), conjunctions together with the collector.

### EarleyBoolean, MCEarleyBoolean, EarleyBooleanProofs

The same loop for a grammar with conjunctions. A production is a sequence of conjuncts, an item
says which one it is in (`con`). The grammar is as the constructor leaves it with
`transform_negation` on: a negated conjunct is one nonterminal of its own. Productions have
numbers because `resolve_conjunctions` decides its groups by number and then by origin.

New variables: `U` (retracted items, which `add` refuses), `forward` (`forward_deps`, as pairs),
`deps` (`completion_deps`, as pairs of a key and an item), `counted` (`counted_completions`; the
count of a key is how many of its members have that key), `parked` (what is left of the map `ps` of
`resolve_conjunctions`) and `full` (`reprocess_epoch_` differs from the round's). One group is one
step, `ResolveGroup`; a group that fails is retracted with everything the cascade reaches, which
`Retracted` computes as a closure: the recursion of the code takes an item out before it follows
the item's edges, so it ends with the same set. `counted` and `deps` then lose what the code erases.

An item that a round adds twice, over a completion and over a nullable symbol, has the edge of
whichever came first; the code's order is that of a hash set, and `first` in `Completion` leaves it
open.

The reference is the well-founded meaning: least spans with the negated conjuncts read in an
estimate, from below and from above in turn. `SpansAssumption` asks that the spans solve the
grammar read as equations, so a grammar whose negation is circular is refused.

`RetractedStaysOut` excepts what `Parks` accepts: `complete` parks a completed conjunct and puts it
into the chart without a look at `U` (`src/src/parser.tmpl.h:670`), so a conjunct that went with its
group returns when another production of its symbol completes. The grammar `Returns` of the run has
the case.

Left out: character classes, guards and `eof` (`Earley` has them), the collector, dynamic values.

### Serve, MCServe, ServeProofs

`conn` and `ses` are `serve_connection` and `serve_session`, `tracked` is `child_fds`, `report`
the log failure of the server's report. A handler of the loop is one action; the read handler of
a connection is split by lines (`OnRead`, `NextLine`, `EndChunk`), and nothing else runs before
its chunk ends (`rx`). The functions that handlers share (`Send`, `Close`, `UpdateReadState`,
`Shutdown`, ...) are operators from one state record to the next, so that a handler is the
composition that the code calls. `Becomes` ends a handler: a connection without a pending read,
write or timer is destroyed there, as the last `shared_ptr` to it goes.

Bytes are lines and a limit in bytes is a limit in lines; a chunk without a whole line changes
nothing here. A stop signal ends the loop (`Stop`); what is in the table then is shut down one
session after the other (`EndOfRun`), after which the server is at rest (`Stopped`). The kinds of
lines and the names of descriptors are apart from the names of connections and sessions
(`ServeAssumption`), which only keeps the values of the model apart. Time is `idle` and `silent` ("the timeout ago") and an armed timer may fire at any
time. Logging is on and an open log takes every write. A killed child dies within the grace it
gets. Answers are numbered by the requests they answer. Left out: the JSON text of a line, blank
lines, stderr of a child, session names, the Windows branch.

### DynamicGrammar, MCDynamicGrammar, DynamicGrammarProofs

An entry is a nonterminal with a text; `st`, `grownBy` and `confirmed` are the fields of
`dynamic_entry`, `linked` is what `ntsm` and `ntsm_by_nt` hold of the entry's production,
`pending` is `pending_`, `kept` is `opt_.dynamic`, `ctx` holds the contexts. A production index
never changes once given, so the entry stands for it; "none" is an entry without one yet. Host
calls happen between parses, as `docs/grammar.md` asks. A parse is `BeginParse`, then hook calls
and confirmations in any order, then `EndParse` or, for an input beyond the limit of an item,
`EndTooLong`. `grows` tells whether the parser of the open parse has a registered pair: one that
has none neither reads its context nor confirms.

### Forest, MCForest

Both builders start from a complete chart, given by the spans of the nonterminals. `job` is chosen
in the initial state: grammar, input, the order in which the chart lists productions, the path and
the options (`disambiguate`, `kept` for the nonterminals that keep their ambiguity, `binarize`).
The packs of a node (`SblChdForest`, `BinarizeComb`) read the chart only, so `packs` holds them from
the start. A literal is a sequence: one symbol, or for a temporary of `bin_tnt` the symbols it
stands for, which names it as the code's table does. `build_bintree` is its loop over frames
(`stack`, `visiting`; `Give` is the sink of a frame), `build_forest` its worklist (`work`, `forest`),
and `get_forest` of a result is the walk `Rebuilt`. What they are compared with is written from the
grammar: `Derived` and `TreesOf` cut a cyclic derivation where a node would be below itself.

### HashConsTree, MCHashConsTree, HashConsTreeProofs

`M` is the table: live addresses and their nodes. A freed address may be given to another node. A
`get` is a lookup and, when it misses, an insertion that looks again, with other threads between.
`handles`, `cache`, `depth` (`gc_pause_depth`) and `scopes` are the weak table, the memory slots, and
the pauses. `gc` is `GcEnter` and one sweep under the exclusive lock; the recursive mark with the
expand callbacks is a closure (`Survivors`). Which `tref` a thread may use is the precondition of
the library (`Usable`): what its handles reach, what it got under a pause, and for a single thread
what no `gc` of its own has swept. `Teams` says which threads there are and which of them collect;
`Orderly` teams have one collecting thread and nobody beside it, or no collector.

### Traversal, MCWalks

The four loops of `pre_order` and `post_order` (`traverse` and `const_traverse`), one iteration an
action: `stack`, `nxt` and `upos` are the code's, `memo` is the cache of a slot, `seen` the set of a
unique visit, `mode` what the member functions pass as template arguments and callbacks. Interned
nodes are equal when their addresses are, so a node stands for its `tref`. A second traversal may
run on the slot of the first. The reference is the same by recursion (`Transformed`, `Visited`).
Left out: callbacks that are given the parent, hooks, a traversal nested in a callback, and an
`up` callback that returns a null node in `until` mode.

### Morris, MCWalks, MorrisProofs

The walk of `tree_traversals_morris.tmpl.h` with its threads and its reversed chains; `links` are the
right and left links of the table as the walk writes them, `built` the links before it, with the
dummy above the root. The reference, `PostOrder`, is the recursion left, right, node, as a
function of the links that are left to follow. The instances are all tables over five addresses in
which links lead to larger addresses (so a node is interned after its children,
`ChildrenFirst`) and no two links lead to one node (`Unshared`), as the trees of the tests have it.

### Rewrite, MCRewrite

`apply_rule`, `fixpoint` and `apply_rule_guarded`. One call of a matcher (`pattern_matcher2`,
`pattern_matcher_guarded`) is one action, and so are the parts of the loop of `fixpoint`. `base` and
`changes` are the tables of the two matchers, `todo` what `search_unique` has still to visit. A tree
stands for its subtree whatever the right sibling, as the tables compare it. `Fits` and `Bindings`
are `match`: a capture takes the node as it was, and the other nodes are compared with what the pass
has made of them. The predicate `done` is the caller's, so it may say yes at the top of any pass.
The reference (`Steps`) is one instance of the pattern replaced by the same instance of the body,
found by trying every assignment of subtrees to the captures. `select_*`, `find_*`, `trim_top` and
`replace_if` are callbacks of the loops of `Traversal`; `apply_if`, which no test and no caller
instantiates, and the map and replace transformers are left out.

### GrammarOptions, MCGrammarOptions, GrammarOptionsProofs

The repository holds stored values; a bound option is a field of the grammar, seen through a codec
that may refuse. `Written` is a write with its hook and the hooks that the hook's own writes run.
A call that writes several options (`bind`, `parse_args`, `load_env`, `reset`, a move, a load) puts
its writes in `todo` and one step does one of them; no other call comes between, as on one thread.
The values of `argv` are written again after a load by a step of its own (`AgainNext`), which passes
over the options that are not the grammar's.
Left out: declarations and surfaces, help, the text of values, scopes of repositories and threads,
the switches of single productions, and the hooks of the parser's own options.

### CharClasses, MCCharClasses, CharClassesProofs

The grammar between parses and its scans. `linked` is the index `ntsm`; a production stands for its
number in `G`, and the productions of classes carry a count so that two of one character differ.
`fns`, `active`, `ps`, `aside` and `byChar` are `cc_fns`, `cc_active_guards_`, `cc_fns.ps`,
`cc_ps_states_` and `cc_char_prods_`; `made` and `unlinked` tell which productions belong to classes
and which of them are in `cc_char_prod_ids_`. The depth-first walk `single_char_rule` is the fixed
point `AnalysisOf`: a rule on a cycle fails whichever rule the walk enters first, so it is never
found out. Each write of the guards, the switch, the start symbol, `char-classes`, the host values or
the excluded rules ends in `ApplyDerivedCharClasses`, as each of them calls
`set_enabled_productions`. `Grow` and `Retire` are what parses add and take back without an
analysis. The reference, `Meaning`, is the language of the rules without any derived class; `Reads`
is the language of the index with the classes that scan.

Left out: the limit of depth besides the one of size, the reasons of the report and
`cc_rejects_by_negation` (a hint of the error message), which change no state; a scan of the class
of the end of the input; the early return of `derived_class_packs` for a node that is
disambiguated, which keeps the first pack of the same set.

## 4. The runs

| run | instance | what it shows |
|---|---|---|
| `earley` | eight grammars: ambiguous with null, a chain of nullables, unit cycle, character class, `eof` twice at one position, guards, a production that fails late, `eof` behind a recursion; all words of `a`, `b` up to three characters; five of the grammars also with the collector at lags 1 and 2 | `ChartSound`, `PositionComplete`, `SkippedRevisitIsNoOp` ("revisiting any other item is a no-op"), `ImplementsRecognizer`, `ParseReturns`, in every order of the handlers |
| `collected` | `S => 'a' T. T => X 'b' \| Y. Y => X. X => 'b' E 'a'. E => 'b' \| 'b' 'b'.`, words of five characters, collector on | violated: a member of the language is rejected |
| `boolean` | eight grammars: keyword exclusion, a conjunction beside plain productions, choice by priority, a negated conjunction that is decided late, two routes of which one is taken back, conjuncts derived again, a conjunct that comes back, nullable conjuncts; all words of `a`, `b` up to three characters | `RetractedStaysOut`, `PositionExact`, `ImplementsRecognizer`, `ParseReturns` with conjunction and negation, in every order of the handlers |
| `serve` | two clients, two sessions, five lines, limits of one or two lines | `OneClient`, `CountsExact`, `AnswersInOrder`, `ChildInheritsNothing`, `NeverStalled` |
| `serve_ends` | two clients, one session, three lines, fairness | `EndedLeaves`, `DrainingCloses`, `RequestsEnd` |
| `dynamic` | one `@dynamic` nonterminal, two texts, two pairs, two contexts | `TablesAgree`, `OwnContext`, `KeptIsHost`, `HostStays` |
| `tree` | three addresses, one value; one thread that collects, or two that build; two nested pauses, two cache entries | `Canonical`, `NoDangling`, `EntriesStay` |
| `walks` | every tree of three nodes and four larger ones that repeat subtrees; callbacks that rename, shrink, grow, give up; two traversals of one slot; or every unshared table over five addresses | `AsRecursion`, `MemoExact`; `AsPostOrder`, `ThreadsEnd` |
| `rewrite` | every tree of five nodes and six larger ones; twelve lists of rules and six guarded rules | `Derivable`, `NormalForm`, `Descends` |
| `options` | two grammars, one with profiles; two command lines, one environment, two commands | `VariantMatches`, `WriteTakes`, `MoveKeeps` |
| `classes` | five grammars over two characters: exclusion of a guarded rule, a guard that makes a rule a sequence, a rule that grows, rules on a cycle, nullable and too large; one guard, two starts, two class lists, three productions of classes, words up to two characters | `AsRules`, `RecipesExact` |
| `forest` | five grammars: three symbols, cycles through an empty rest, unit cycles, repetitions, competing bodies; inputs up to four characters; two orders of the chart; every option | `BintreeExact`, `ForestExact`, `RebuildsForest`, `Ends` |

Every property of a passing run has a mutant in `PROJECT.json`: a changed definition under which
the run finds the property violated.

Bounds. `earley`: three characters are enough for a symbol of every length to sit before, between
and after others, for two spans of one symbol to meet, and for items of three positions to wait;
each grammar is one shape of recursion or of emptiness and the orders of the handlers are all
tried. `boolean`: three characters let a group be decided at one position and used at the next; the
grammars are the shapes in which a retraction can take too much or too little (one route of two,
a second derivation of what went, an item whose support came at an earlier position). What goes
wrong beyond them is in section 6. The collector runs on the grammars with small charts: its full
rounds and its counts keep apart orders that otherwise meet. `serve`: `Conns` and `Sessions` bound what is accepted and started in a run, `MaxLines` the
lines of all clients. Five lines let one client start a session, send a request and quit, while the
other attaches and asks; limits of one and two lines make every pause and the full buffer happen.
The clients are alike and so are the sessions, hence the symmetry; the liveness run has none.
`dynamic`: two texts let one be claimed while the other is undecided, two contexts let one parser
take out what another put in, and a pair whose child is not the value's nonterminal is there.
`tree`: three addresses hold a chain, a node with one child twice and a freed address that is taken
again while a cache refers to its neighbour; two threads are enough for two insertions of one node.
`walks`: three nodes give every shape of child and sibling, the larger trees the repeated
subtrees and siblings that a memory needs; the second traversal finds what the first left.
A chain of right links of every length up to four is reversed below every place.
`rewrite`: five nodes nest two matches of every pattern and put a repeated capture beside a child that
changes; the lists hold rules that undo each other and rules whose last one leaves the tree alone.
`options`: each option has a value that fits and, where a codec refuses, one that does not; the
second grammar lacks the default start symbol and the profiles. `classes`: one guard gives a class two
memories, and three productions let a character be remembered in both, shared, and made stale by a
class list; two characters tell a class from its complement, and words of two a character from a
sequence. The budget is 10 nodes instead of 256, so that one of the rules is too large with the
guard and small enough without. `forest`: four characters let a body
of three symbols be cut in several ways below a node that is itself ambiguous.

Fairness. `FairSpec` of `Earley` and `EarleyBoolean` is weak fairness of the whole loop: one thread that does not stop
while it can step. `Serve!Fairness` asks that a read handler ends, that an armed timer fires, that
an answer in the pipe is read, that time passes and that the idle check runs: what the Asio loop
does. Nothing is asked of clients, children or the network, so they may hang for ever, and the
properties hold because of the timers. `serve_ends` therefore runs with both timeouts set; with
them off, `RequestsEnd` and `DrainingCloses` cannot be expected. `Forest` and `Morris` have weak fairness of
the next step: one loop on one thread.

Deadlock is checked except in `forest`, `walks` and `rewrite`, where the work ends, and in
`classes`, where a host may stop; a parse that
has its answer and a server that has stopped stutter by an explicit action.

## 5. The proofs

`EarleyProofs`, for every set of grammars, words and every closed `Spans`:

* `EarleyTypeOK`: `Spec => []TypeOK`. It needs `StageOK`: outside the processing of a round the
  snapshot is empty, and a position is left with `t` and `c` empty.
* `EarleyChartSound`: `Spec => []ChartSound`, from `EofIsNoCharacter` (no class accepts the
  sentinel of the end) and `GuardsKeepNullables` (the guards do not change the nullable symbols).
  Both are hypotheses of the theorem, not assumptions of the module: the code checks neither. With
  a decoder the end of the input is the character 0, which a class may accept (`input::tcur`), and
  `compute_nullables` reads the productions that guards switch off, too. The argument: an item
  is advanced over a literal only when the literal derives the span (`AdvanceSound`,
  `CompletedSpans`), over nullable ones because the closed `Spans` gives them the empty span
  (`NullableSpans`, from the least-set definition of `NullablesOf`), and the items of `t` and `c`
  are as good as those of `S`. `BodyStep`, `BodySkip`, `BodyZero` and `BodyEmpty` are the facts
  about cutting a span into the spans of a body.
* `EarleyAcceptsOnlyMembers`: what `found` accepts spans the whole input. From the former.
* `CollectedChartSound` and `CollectedAcceptsOnlyMembers`: the same for `CollectedSpec`, from the same
  two hypotheses and no assumption on the lag. Each step is a step of `Earley`, a full round or the
  end of a position (`CollectedSteps`), and the two that are the collector's own only repeat or take
  out items. So what is wrong with the collector, see `collected` below, is one-sided: a member may
  be lost, and nothing else is accepted. With the lag 0 the last position is left with an empty
  snapshot that the types of the loop do not foresee; there the invariant keeps the chart and the
  answer only.
* `CollectorOffIsEarley`: `CollectedSpec /\ ~On => Spec`, which makes the theorems about `Earley`
  theorems about the parses without a collector in the run.

`EarleyProofs` also has the other direction, for every set of grammars and words:

* `EarleySkippedRevisit`: `Spec => []SkippedRevisitIsNoOp`, from no hypothesis. The later rounds of a
  position take up the items whose nullable symbol is waited for, and the others of `done` are
  skipped. The invariant says what a handler owes for an item (`Predicted`, and its kin for scans and
  completions) and that it is paid when the item leaves the snapshot; nothing the chart, `t` and the
  waiting items have gained is taken back inside a position.
* `EarleyPositionComplete`: `Spec => []PositionComplete`. The spans that the chart can use
  (`Usable`) are closed when a position is left, so the least spans are among them. That a derivation
  is used bottom-up is the one induction: it is carried by `SpansAreLeast` (the spans of a grammar
  and a word are in each closed set), and for positions and literals by the well-founded least number.
* `EarleyAcceptsEveryMember`, and with the soundness above `EarleyImplementsRecognizer`: an initial
  state has no answer, `Finish` decides by membership, every other step stutters.

Their hypotheses: the two of `EarleyChartSound`; `SpansAreLeast`, which is what the reference
language is; and `EmptySpansAreNullable`: a symbol that derives an empty stretch is nullable. The
last one fails only for a symbol that is emptied by `eof` alone; without it the property may fail,
see `MCEarleyEndTwice.cfg` in section 6. The module of the run states that all its grammars have the
first two (`SoundGrammars`), that all but the two whose nonterminals derive `eof` have the last
(`CompleteGrammars`; on those two the properties are only model-checked), and that on two grammars and
short words the spans are the least of all closed sets (`SpansAreLeastOnShortWords`). TLC evaluates
the three.

`EarleyBooleanProofs`, for every set of grammars with conjunctions, from `InputAssumption` (the
grammars are of the form the constructor gives them): `BooleanTypeOK` and `BooleanRetracted` (`Spec => []RetractedStaysOut`). By itself the
property says nothing of items that are about to be added. What may be added belongs to the
position or to the next one; an item of the next position comes from the scan of one item, its
origin (`OriginInv`), and once it is retracted that one is, too (`ScannedInv`), so that it is not
scanned again. `RoundInv` keeps a round from working on an item that was retracted while it waited
(`full` says that a retraction makes the next round take up everything). The closure `Retracted`
is a recursive function of the number of steps; `EnoughSteps` (the items of a grammar and an input
are finitely many, so that number is one) and `Iteration` let `RetractedReached` follow it step by
step.

`DynamicGrammarProofs`, for every set of nonterminals, texts, pairs and contexts, from
`DynamicAssumption` alone. The conjunction of the invariants is inductive as it stands, and none
of `PendingExact`, `LinkedIsLive` and `OwnContext` is alone: a context is read over an index, so
the index must be exact, and what a claim takes off the list must be what is in state pending.
`DynamicTypeOK`, `DynamicTablesAgree` and `DynamicOwnContext` are its parts;
`DynamicKeptIsHost` says that what the option lists is live, and `DynamicHostStays` is the action
property, one step for each action.

`HashConsTreeProofs`, for every set of addresses, values and shapes, from `Orderly` (a thread that
collects has no other beside it): `NothingDangles`, `Interned` and the action property `MemosLast`.
The inductive invariant `IInv` adds to the two that the node a thread is about to insert has live
children (`WantLive`), that a thread inside `gc` is alone and has no pause open (`EnteredAlone`) and
that the pauses of a single thread are all that are counted (`DepthExact`): each is what a step in
the middle of `get` or `gc` relies on. `SurvivorsClosed` is the one fact about the mark: what
survives has its children and the values of its keys. `Orderly` cannot be dropped, see
`MCHashConsTreeRace.cfg` below.

`ServeProofs`, for every set of connections and sessions and every limit, from `ServeAssumption`:
`TypesHold`, `OneClientHolds`, `CountsHold`, `OrderHolds`, `InheritsHold`. The invariant `IInv` is stated for
a world, the record that the functions of the code pass on (`Good`), so each function has one lemma
(`CloseGood`, `SendGood`, `AttachGood`, ...) and a handler is proved as the code composes it.
`Good` adds to the properties what they lean on. A session with a client has nothing in its buffer
(`Kept`): otherwise an answer sent to the client would overtake buffered ones. A connection that is
not open has no session (`Linked`): otherwise an accepted one would be linked from the start. A
session that was never started owes nothing. The counts and the order are one fact about each session record: what
the child owes (`Owing`) and the buffer before it (`Pending`) hold consecutive numbers that start at `given`;
`KeptAsked`, `KeptAnswered`, `KeptSent`, `KeptBuffered` and `KeptEmptied` say that a request, an answer of the
child, its delivery, its buffering and an attach keep it so, and `Answered` and `Taken` are the
facts about sequences beneath.

`NeverStalledHolds` rests on `FlowInv`: a client that is paused has no room, a client that is not
read from is paused, except the one whose chunk is handled, and a connection that is not accepted
yet is not paused. Making room is what could break it, so each function of the code is shown to
leave no client worse off (`Eases`: whoever is paused afterwards has no room, whoever was read from
or paused still is); an answer of the child and the end of a write do make room, and `UpdateReadState` after them
settles the one client concerned (`ReadStateIs`), since a session has at most one (`Linked`).

`GrammarOptionsProofs`, for every set of grammars, inputs and command lines, from
`GrammarsAssumption` (a file selects a profile as the hooks do, its profiles are as the codec lets
them through, and its start symbol is one of its own): `SelectionAgrees`. `Written` keeps
`Matches` for each option, and a step writes one option or takes another grammar.
With `InputsAssumption` (the mark of an option that is not stored is no value of one), `WritesTake` and
`MovesKeep`. The invariant `KeepsInv` says how far a call has come: the options that are bound are a
first part of the order of binding and the rest of it is the next steps (`BoundInv`), a `set` has
its one write before it or behind it (`SetInv`), and a move has bound its first `k` options with the
values they had while the others are still stored as they were (`MoveInv`). A move keeps the
profile because the profiles come before the profile in that order and no two profiles share their
guards (`AreProfiles`): the write of the guards finds the one that was selected.

`CharClassesProofs`, for every set of grammars, class lists and guards, from `SourceAssumption` (the
productions of a grammar's text are marked as such): `RememberedNeverLinked`. The argument does not
look into the analysis: whatever it takes for a class, each memory of a derived class, active, set
aside or shared, holds productions of its own characters that `cc_char_prod_ids_` keeps out of the
index (`Memories`), a linked class production is one of a predefined class that no write of the
class list has made stale (`LinkedApart`), and a production that is appended is a new one
(`Numbered`, from the cardinality of the ones before it). None of the three is inductive alone: a
production made for a derived class must not be one that is linked already.

`MemoriesFit` (`Spec => []MemoryFits`: a class accepts what it remembers) does look into it, and takes
`NamesAssumption` besides (finitely many nonterminals, none of them a character, and classes are named
by them) and that the literals of a conjunct are a list. A memory that was set aside comes back after
any number of writes, under whatever else is enabled by then, keyed only by the guards the class was
read from. So what it may hold is said without an analysis: `Accepted(nt, gs, cs)` has a derivation of
`nt` from the productions of `gs` alone. A rule has one such set (`AcceptedOnce`, by induction over
the lengths of two derivations), and what the analysis finds under any enabled guards is that set
for the guards it names (`AnalysisAccepted`: the rounds of the analysis, thinned to the rules that
need no other guards, are a derivation). `MemInv` then says that each memory, active or set aside,
holds accepted characters only, and is inductive with `IInv`. No run lists `MemoryFits`; TLC
checked it on the instance of `classes` before it was proved.

`RecipesHold` (`Spec => []RecipesExact`) and `ClassesKeepMeaning` are about what the analysis finds, and
take `WordAssumption` (a word may have one character). Its rounds only add rules (`RoundsGrow`), and
what a round finds is exact in the words of the rules one round later (`StepExact`, `MeaningGood`): a
rule that is walked into has no dynamic alternative, one positive conjunct at least and one literal in
each, so its words are single characters, those that `Accepts` computes (`ProdExact`). A recipe then
goes to the literals that the derivation goes to (`RecipesRight`). For a set of words that is a solution of the
rules with the classes or without them, each round of the analysis is exact in the set itself
(`PlainGood`, `ScannedGood`), so both readings step alike from it (`SameStep`): the solutions are the
same ones, hence the least one, too. The invariant `Settled` says that the classes are those of the settings
although `Grow` and `Retire` analyse nothing, and that the index is what a rebuild would make
it. It needs the one hypothesis that is not about data, `OneParser`: the parsers of a grammar
that let anything grow let the same nonterminals grow. Without it what grows need not be what is excluded, and
the result is false (`MCCharClassesParsers.cfg` below). TLC checked `Settled` on the instance of
`classes` before it was proved. `AsRules` compares the two languages after the same number of rounds,
which is more than equal solutions: a class is read in one round where its rules take several,
so it holds where the rounds reach the fixed point, as on the instance, and stays with TLC.

`MorrisProofs`, for every set of nodes and tables, from `NodesAssumption` and `TablesAssumption`:
`WalksInOrder`, `Spec => []AsPostOrder`, under `AllTrees`: the tables are `ChildrenFirst`, which is how
nodes are interned, and `Unshared` with the dummy on top. The second cannot be dropped, see
`MCWalksShared.cfg` below; the code does not check it. The argument goes by places, the numbers of the
nodes in the order of the recursion. A subtree is an interval of places that ends at its top, and the
chain of right links from a left child is an interval that ends at that child, its bottom first. The
walk comes to each node with a left child twice. The first time (`First`) nothing of its left
subtree is visited, and a thread is written at the bottom of the chain below it; the second time (`Back`)
it came over that thread, the left subtree is visited but for that chain, and the chain is
reversed and turned back (`Reversing`, `Visiting`). `IInv` has one part for each kind of moment; each
part says which places are visited, which threads stand, and that all other links are as
built. TLC checked `IInv` on the instance before it was proved. With the guard of `Seek` dropped, or
a chain that is not turned back, the steps about them fail, as they must.
That the walk ends is liveness (`ThreadsEnd`) and stays with TLC.

The inductive invariants of the retractions, the options and the pauses were checked by TLC on the
instances of the runs before they were proved.
What a step of a proof needs by induction over the natural numbers is drawn from the least element
of a set of them, which needs no theorem with an operator for a parameter.

Only model-checked: `PositionExact` and the refinement of `EarleyBoolean`, completeness with the collector,
`Traversal`, `Rewrite` and `Forest`, `LoadForgets` of `GrammarOptions` (a fold), `AsRules` of
`CharClasses` (a number of rounds), and all liveness, which is beyond this prover, as
ENABLED and the value of a recursive definition for every input are. `Forest`, `Traversal` and
`Rewrite` use recursive operators, so no theorem is stated over them; the reference language
of the runs is one too, in `EarleyInstances` and `MCEarleyBoolean`, which no proof uses.

## 6. What the runs found

One run, `collected`, ends in a violation, quoted against the comment it departs from in
`PROJECT.json`. A prediction counts one for each production, but each item a production grows into
counts every waiting item down when it fails. A production that fails behind a short symbol and
lives behind a long one takes out the item that waits for it, and the input is rejected. The
parser built from the source rejects `abbba`, too, with the collector on and any lag. The
grammars of `earley` have no such production.

Further configurations are kept beside the runs. Each states one property that the code departs
from (two in the second row), but for the last row:

| configuration, module | what it shows |
|---|---|
| `MCEarleyEndTwice.cfg`, `MCEarleyFindings` | An item that starts to wait in the last round of a position, for a symbol whose empty span has completed before, is never advanced: `start => 'a' b b. b => eof.` rejects `a`. |
| `MCBooleanDeparts.cfg`, `MCEarleyBoolean` | `AcceptsEveryMember` on `S => X & Y. Y => B & C.` All groups with a parked item are decided as soon as a round finds nothing new. A group that waits for a conjunct which is itself a conjunction fails then and is retracted for good, although the inner group completes in the same call: a member is rejected. `AcceptsOnlyMembers` on `S => X 'b' \| 'b' 'b' & X. X => ~'a'.` Only a production with more than one conjunct is decided as a group; a single negated conjunct completes like a plain one. TLC shows both with `-continue`. |
| `MCForestBinarized.cfg`, `MCForest` | `SplitsRules`: `build_bintree` finds no completed item for a temporary of a binarized body, so it becomes a leaf and the symbols below it are missing. |
| `MCServeLost.cfg`, `MCServe` | A paused client with nothing queued is destroyed without its close; its descriptor stays listed. |
| `MCServeLog.cfg`, `MCServe` | A detach is written to a log that is closed, and reported as a failure. |
| `MCDynamicGrammarHost.cfg`, `MCDynamicGrammar` | `add_dynamic` of a committed value makes it the host's without recording it in the option; the next write of the option retires it. |
| `MCDynamicGrammarApart.cfg`, `MCDynamicGrammar` | A parser without a registered pair does not read its context, so it matches what another parse left. |
| `MCGrammarOptionsArgs.cfg`, `MCGrammarOptions` | `parse_args` checks every option against the values before it writes one: a line that replaces the profiles and selects one that is gone then fails half-way, and what was written stays. |
| `MCHashConsTreeRace.cfg`, `MCHashConsTree` | `PausedStay`: a `gc` that has passed the test of the pause depth sweeps what another thread gets under a pause that it opened since. |
| `MCRewriteGuarded.cfg`, `MCRewrite` | `Derivable` with a guard that refuses: `src/src/utility/tree_rewriter.inc.h:272` says the matcher "matches only when structural pattern matches AND guard(env, n) returns true", but at each node the table is copied anew from the unguarded matcher, so a refusal lasts for the last node only: `f(X) => X` with a guard that refuses all takes `f(f(a))` to `f(a)`. The tests have trees of one match. |
| `MCWalksShared.cfg`, `MCWalks` | With a node that stands in two places the walk visits a wrong sequence: its threads are the right links of shared nodes. |
| `MCCharClassesParsers.cfg`, `MCCharClasses` | `AsRules` with two parsers of one grammar whose growing rules differ: the second one's `exclude_from_char_classes` replaces what the first one excluded, so a rule that the first one grows becomes a class and its grown values are not matched. |
| `MCGrammarOptionsLoad.cfg`, `MCGrammarOptions` | `LoadForgets` holds: a load leaves nothing of the grammar before it. |

Further departures are known from the same code and are in no configuration:

* An item that two groups share is retracted with the first of them that fails, and
  `compute_nullables` takes a production for nullable as soon as one of its conjuncts is.
* With the lag 0 the collector takes an item out before its character class completes.
* Two repetitions side by side (`'a'+ 'a'+` on `aaa`) make an ambiguity of equal alternatives, once
  their helpers are flattened; `count_trees` counts both, while the comment at
  `src/src/parser_result.tmpl.h:84` speaks of distinct parse trees.
* A cycle is cut where a node would be below itself: `start => start start | 'a' | null.` on `a` has
  a tree without the character.
* Binarized, the builders prefer another tree than with the whole bodies, and they disambiguate the
  temporaries of a nonterminal whose ambiguity is to be kept.
* `trim_top` stops below a node it has trimmed, so a matching node under one of the children that stay
  is not deleted ("delete all top nodes that satisfy a predicate", `src/src/utility/tree_rewriter.inc.h`).
* Rules that undo each other within one pass (`a => b`, `b => a`) end `fixpoint` on a tree to which both
  apply.
* `gc(keep)` returns early under a pause and leaves `keep` as it was; the mark recurses as deep as
  the tree.
* A reset of `start` to a default that is no symbol of the grammar fails without a report.
* Switching single productions changes the enabled guards without selecting the profile again.

## 7. Not modelled

Planned: the open rows of section 2. In the modelled parts, section 3 says what each module leaves
out. Left out for good: generated parsers and class tables (data), terminal and REPL (layout),
syntax highlighting and the parser generator (text), memory maps, temporary files and paths (a
system call and its diagnostic), build files, editors, the WebAssembly terminal, examples.
