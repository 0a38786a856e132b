-------------------------------- MODULE Forest --------------------------------
(***************************************************************************)
(* What the parser makes of the chart of a recognised input                *)
(* (src/parser.tmpl.h): build_bintree builds one tree with the frames of   *)
(* an explicit stack, build_forest a map from a node to its packs with a   *)
(* worklist.  A pack is a sequence of child nodes, one for each symbol of  *)
(* a body, or two when bodies are binarized.                               *)
(*                                                                         *)
(* The chart is given by Spans, the spans the nonterminals have            *)
(* (module Earley): a pack is made of completed items only.                *)
(***************************************************************************)
EXTENDS Integers, Sequences, FiniteSets, SequencesExt, FiniteSetsExt

CONSTANTS
  Grammars,   \* [nts, start, ebnf, prods]: prods a sequence, indexed by id
  Words,      \* a grammar's inputs that it recognises
  Spans,      \* Spans[g][w]: <<n, i, j>>, the completed items of the chart
  Modes,      \* [path, disambiguate, kept, binarize]
  Orders(_),  \* in which orders a set of the chart lists its productions
  Null        \* the literal null

VARIABLES
  job,       \* the grammar, the input, its chart and the order of items, the options
  packs,     \* of each node of the chart, in order: both builders read the
             \* chart only, which is complete, so they are worked out once
  stack,     \* the frames of build; the first stands for result
  visiting,  \* the nodes under construction
  work,      \* the stack of build_forest
  forest     \* the forest of build_forest

vars == <<job, packs, stack, visiting, work, forest>>

-------------------------------------------------------------------------------
(***************************************************************************)
(* Nodes.  The literal of a node is a sequence: of one symbol, or for a    *)
(* temporary of the symbols of a body that it stands for (bin_tnt).        *)
(***************************************************************************)
Node(lit, from, to) == [lit |-> lit, from |-> from, to |-> to]
Tree(n, kids)       == [node |-> n, kids |-> kids]
Leaf(n)             == Tree(n, <<>>)
Amb(n)              == Node(<<"__AMB__">>, n.from, n.to)

Gram       == job.gram
Prods      == DOMAIN Gram.prods
Body(p)    == Gram.prods[p].body
Temp(n)    == Len(n.lit) > 1
IsNt(n)    == Temp(n) \/ n.lit[1] \in Gram.nts
IsEbnf(n)  == ~Temp(n) /\ n.lit[1] \in Gram.ebnf
Root       == Node(<<Gram.start>>, 0, Len(job.word))

\* check_allowed
Allowed(n) == job.disambiguate /\ (Temp(n) \/ n.lit[1] \notin job.kept)

Spanned(l, i, j) ==
  \/ l = Null /\ i = j
  \/ l \notin Gram.nts /\ j = i + 1 /\ job.word[j] = l
  \/ <<l, i, j>> \in job.chart

\* a set of packs in the one order of pnodes_set
InOrder(qs) == FoldSet(LAMBDA q, s : Append(s, q), <<>>, qs)

\* the items of a set that stand behind the first k symbols of a body
RECURSIVE PrefixSpanned(_, _, _)
PrefixSpanned(body, i, j) ==
  IF body = <<>> THEN i = j
  ELSE \E v \in i..j : Spanned(Last(body), v, j) /\ PrefixSpanned(Front(body), i, v)

-------------------------------------------------------------------------------
(***************************************************************************)
(* The packs of an item.                                                   *)
(***************************************************************************)
\* sbl_chd_forest: from the last symbol to the first
RECURSIVE SblChdForest(_, _, _)
SblChdForest(body, from, xto) ==
  IF body = <<>> THEN IF xto = from THEN {<<>>} ELSE {}
  ELSE UNION {{Append(q, Node(<<Last(body)>>, v, xto)) : q \in SblChdForest(Front(body), from, v)} :
                v \in {v \in from..xto : Spanned(Last(body), v, xto)}}

\* binarize_comb: the last symbol and what is before it
BinarizeComb(body, from, to) ==
  LET left  == Front(body)
      right == {v \in from..to : Spanned(Last(body), v, to)}
  IN  IF Len(body) = 1 THEN {<<Node(body, v, to)>> : v \in right \cap {from}}
      ELSE {<<Node(left, from, v), Node(<<Last(body)>>, v, to)>> :
              v \in {v \in right : PrefixSpanned(left, from, v)}}

ItemPacks(body, n) ==
  IF job.binarize THEN BinarizeComb(body, n.from, n.to) ELSE SblChdForest(body, n.from, n.to)

\* a completed item of the chart whose head is the node's literal
Completed(n) ==
  SelectSeq(job.order, LAMBDA p : n.lit = <<Gram.prods[p].head>>
                                  /\ PrefixSpanned(Body(p), n.from, n.to))

\* an item under the key of the node in sorted_citem: a temporary's item
\* stands behind the symbols of the temporary
Sorted(n) ==
  IF Temp(n)
  THEN SelectSeq(job.order, LAMBDA p : Len(Body(p)) > Len(n.lit)
                                       /\ SubSeq(Body(p), 1, Len(n.lit)) = n.lit)
  ELSE Completed(n)

SortedPacks(p, n) ==
  ItemPacks(IF Temp(n) THEN n.lit ELSE Body(p), n)

(***************************************************************************)
(* pick_best: among the packs those with the shortest first child, among   *)
(* these those with the shortest second child, and so on.                  *)
(***************************************************************************)
Span(n) == n.to - n.from

RECURSIVE Narrow(_, _)
Narrow(cand, k) ==
  IF Cardinality(cand) = 1 \/ \E q \in cand : Len(q) < k THEN cand
  ELSE Narrow({q \in cand : \A r \in cand : Span(q[k]) <= Span(r[k])}, k + 1)

\* mutant: the shortest last child first
PickLast(qs) ==
  CHOOSE q \in qs : \A r \in qs : Span(Last(q)) <= Span(Last(r))

PickBest(qs) == CHOOSE q \in Narrow(qs, 1) : TRUE

(***************************************************************************)
(* The packs of a node.  Both builders take those of every item, or of the *)
(* item with the smallest production that has any.                         *)
(***************************************************************************)
\* collect_packs
CollectPacks(n) ==
  IF Allowed(n)
  THEN FoldLeft(LAMBDA best, p :
                  LET found == ItemPacks(Body(p), n)
                  IN  IF p >= best.prod \/ found = {} THEN best
                      ELSE [prod |-> p, found |-> found],
                [prod |-> Len(Gram.prods) + 1, found |-> {}], Completed(n)).found
  ELSE UNION {ItemPacks(Body(p), n) : p \in ToSet(Completed(n))}

\* mutant: the packs of the production that comes last
GatheredLast(n) ==
  FoldLeft(LAMBDA amb, p : LET found == SortedPacks(p, n)
                           IN  IF Allowed(n) THEN IF found = {} THEN amb ELSE found
                               ELSE amb \cup found,
           {}, Sorted(n))

\* build_forest
Gathered(n) ==
  FoldLeft(LAMBDA amb, p :
             LET found == SortedPacks(p, n)
             IN  CASE ~Allowed(n) -> [amb EXCEPT !.found = @ \cup found]
                   [] Allowed(n) /\ found # {} /\ (amb.found = {} \/ amb.last > p) ->
                        [last |-> p, found |-> found]
                   [] OTHER -> amb,
           [last |-> 0, found |-> {}], Sorted(n)).found

\* the packs that become children, in order
Alternatives(n) ==
  LET found == IF job.path = "bintree" THEN CollectPacks(n) ELSE Gathered(n)
  IN  IF found # {} /\ Allowed(n) THEN <<PickBest(found)>> ELSE InOrder(found)

-------------------------------------------------------------------------------
(***************************************************************************)
(* build_bintree.                                                          *)
(***************************************************************************)
Frame(n, sink, flatten, amb, qs) ==
  [node |-> n, sink |-> sink, flatten |-> flatten, amb |-> amb, packs |-> qs,
   pi |-> 1, ei |-> 1, children |-> <<>>, alts |-> <<>>]

Bottom == Frame(Root, 1, FALSE, FALSE, <<>>)

Give(s, sink, t) == [s EXCEPT ![sink].children = Append(@, t)]

\* open_node, push_frame
OpenNode(s, n, sink) ==
  CASE packs[n] = <<>>   -> IF IsEbnf(n) THEN s ELSE Give(s, sink, Leaf(n))
    [] Len(packs[n]) = 1 -> Append(s, Frame(n, sink, IsEbnf(n), FALSE, packs[n]))
    [] OTHER             -> Append(s, Frame(n, sink, FALSE, TRUE, packs[n]))

Open(s, n, sink) ==
  /\ stack' = OpenNode(s, n, sink)
  /\ visiting' = visiting \cup (IF Len(stack') > Len(s) THEN {n} ELSE {})

Top     == Last(stack)
AtPack  == Top.pi <= Len(Top.packs)
Pack    == Top.packs[Top.pi]
AtChild == AtPack /\ Top.ei <= Len(Pack)
Child   == Pack[Top.ei]
Sink    == IF Top.flatten THEN Top.sink ELSE Len(stack)
Past    == [stack EXCEPT ![Len(stack)].ei = @ + 1]

\* what the node becomes once its packs are done
Made(f) ==
  CASE f.amb -> <<Tree(Amb(f.node), f.alts)>>
    [] ~f.amb /\ ~f.flatten -> <<Tree(f.node, f.children)>>
    [] OTHER -> <<>>

\* mutant: a node stays in visiting once it is built
Kept(f) == visiting
Rest(f) == visiting \ {f.node}

Bintree == job.path = "bintree" /\ UNCHANGED <<job, packs, work, forest>>

Start ==
  /\ Bintree
  /\ stack = <<>>
  /\ Open(<<Bottom>>, Root, 1)

BuildTerminal ==
  /\ Bintree /\ Len(stack) > 1 /\ AtChild
  /\ ~IsNt(Child)
  /\ stack' = Give(Past, Sink, Leaf(Child))
  /\ UNCHANGED visiting

\* a node that is its own ancestor becomes a leaf
BuildVisiting ==
  /\ Bintree /\ Len(stack) > 1 /\ AtChild
  /\ IsNt(Child) /\ Child \in visiting
  /\ stack' = IF IsEbnf(Child) THEN Past ELSE Give(Past, Sink, Leaf(Child))
  /\ UNCHANGED visiting

BuildOpen ==
  /\ Bintree /\ Len(stack) > 1 /\ AtChild
  /\ IsNt(Child) /\ Child \notin visiting
  /\ Open(Past, Child, Sink)

\* all children of a pack are built: the next pack
EndPack ==
  /\ Bintree /\ Len(stack) > 1 /\ AtPack /\ ~AtChild
  /\ stack' = [stack EXCEPT ![Len(stack)] =
                 IF @.amb THEN [@ EXCEPT !.pi = @ + 1, !.ei = 1, !.children = <<>>,
                                         !.alts = Append(@, Tree(Top.node, Top.children))]
                 ELSE [@ EXCEPT !.pi = @ + 1, !.ei = 1]]
  /\ UNCHANGED visiting

Close ==
  /\ Bintree /\ Len(stack) > 1 /\ ~AtPack
  /\ stack' = [Front(stack) EXCEPT ![Top.sink].children = @ \o Made(Top)]
  /\ visiting' = Rest(Top)

-------------------------------------------------------------------------------
(***************************************************************************)
(* build_forest.                                                           *)
(***************************************************************************)
\* mutant: only the packs of an ambiguous node are looked up
InForestSome(n) == n \in DOMAIN forest /\ Cardinality(forest[n]) > 1
InForest(n)     == n \in DOMAIN forest

BuildForest ==
  /\ job.path = "forest" /\ work # <<>>
  /\ LET n == Last(work)
     IN  IF ~IsNt(n) \/ InForest(n)
         THEN work' = Front(work) /\ UNCHANGED forest
         ELSE /\ forest' = [m \in DOMAIN forest \cup {n} |->
                              IF m = n THEN ToSet(packs[n]) ELSE forest[m]]
              /\ work' = Front(work) \o Reverse(FlattenSeq(packs[n]))
  /\ UNCHANGED <<job, packs, stack, visiting>>

-------------------------------------------------------------------------------
Jobs ==
  UNION {{[gram |-> g, word |-> w, chart |-> Spans[g][w], order |-> o, path |-> m.path, kept |-> m.kept,
           disambiguate |-> m.disambiguate, binarize |-> m.binarize] :
            w \in Words[g], o \in Orders(g), m \in Modes} : g \in Grammars}

\* the temporaries of bin_tnt stand for the first symbols of a body
Temporaries ==
  IF job.binarize THEN UNION {{SubSeq(Body(p), 1, k) : k \in 2..(Len(Body(p)) - 1)} : p \in Prods}
  ELSE {}

ChartNodes ==
  {Node(lit, i, j) : lit \in {<<x>> : x \in Gram.nts} \cup Temporaries,
                     i \in 0..Len(job.word), j \in 0..Len(job.word)}

Init ==
  /\ job \in Jobs
  /\ packs = [n \in ChartNodes |-> Alternatives(n)]
  /\ stack = <<>>
  /\ visiting = {}
  /\ work = IF job.path = "forest" THEN <<Root>> ELSE <<>>
  /\ forest = << >>

Next ==
  \/ Start \/ BuildTerminal \/ BuildVisiting \/ BuildOpen \/ EndPack \/ Close
  \/ BuildForest

Fairness == WF_vars(Next)
Spec     == Init /\ [][Next]_vars /\ Fairness

Ended ==
  IF job.path = "bintree" THEN Len(stack) = 1 ELSE work = <<>>

-------------------------------------------------------------------------------
(***************************************************************************)
(* result::get_forest: the forest of a tree, by a walk that enters a node  *)
(* once.                                                                   *)
(***************************************************************************)
IsAmb(t) == t.node.lit = <<"__AMB__">>

\* mutant: an ambiguity node stands for itself
NodeAsIs(t) == t.node
\* child_pn: an ambiguity node stands for the node of its alternatives
NodeOf(t)   == IF IsAmb(t) THEN t.kids[1].node ELSE t.node
PackOf(t)   == [i \in DOMAIN t.kids |-> NodeOf(t.kids[i])]

RECURSIVE Walk(_, _)
\* enter, below a node that has its packs in f
Walk(f, ts) ==
  IF ts = <<>> THEN f
  ELSE LET t    == ts[1]
           alts == IF IsAmb(t) THEN t.kids ELSE <<t>>
           me   == alts[1].node
           new  == [n \in DOMAIN f \cup {me} |->
                      IF n = me THEN {PackOf(alts[i]) : i \in DOMAIN alts} ELSE f[n]]
       IN  IF ~IsNt(me) \/ me \in DOMAIN f THEN Walk(f, Tail(ts))
           ELSE Walk(new, FlattenSeq([i \in DOMAIN alts |-> alts[i].kids]) \o Tail(ts))

Rebuilt(t) == Walk(<< >>, <<t>>)

-------------------------------------------------------------------------------
(***************************************************************************)
(* What the packs and the tree of a node are.                              *)
(***************************************************************************)
\* the ways to cut the span of a node among the symbols of a body
Cuts(body, n) ==
  {c \in [0..Len(body) -> n.from..n.to] :
     /\ c[0] = n.from /\ c[Len(body)] = n.to
     /\ \A i \in 1..Len(body) : c[i - 1] <= c[i] /\ Spanned(body[i], c[i - 1], c[i])}

Derived(p, n) ==
  {[i \in 1..Len(Body(p)) |-> Node(<<Body(p)[i]>>, c[i - 1], c[i])] : c \in Cuts(Body(p), n)}

Deriving(n) == {p \in Prods : <<Gram.prods[p].head>> = n.lit /\ Derived(p, n) # {}}

\* q has a shorter child than r at the first place where they differ
Before(q, r) ==
  \E k \in DOMAIN q : /\ Span(q[k]) < Span(r[k])
                      /\ \A i \in 1..(k - 1) : Span(q[i]) = Span(r[i])

Chosen(n) ==
  IF Allowed(n) /\ Deriving(n) # {}
  THEN LET best == Derived(Min(Deriving(n)), n)
       IN  {q \in best : \A r \in best \ {q} : Before(q, r)}
  ELSE UNION {Derived(p, n) : p \in Deriving(n)}

RECURSIVE TreesOf(_, _)
\* what a node gives its parent, below the nodes above
TreesOf(n, above) ==
  LET qs      == InOrder(Chosen(n))
      Kids(q) == FlattenSeq([i \in DOMAIN q |-> TreesOf(q[i], above \cup {n})])
  IN  CASE ~IsNt(n) -> <<Leaf(n)>>
        [] IsNt(n) /\ (n \in above \/ qs = <<>>) -> IF IsEbnf(n) THEN <<>> ELSE <<Leaf(n)>>
        [] IsNt(n) /\ n \notin above /\ Len(qs) = 1 ->
             IF IsEbnf(n) THEN Kids(qs[1]) ELSE <<Tree(n, Kids(qs[1]))>>
        [] OTHER -> <<Tree(Amb(n), [i \in DOMAIN qs |-> Tree(n, Kids(qs[i]))])>>

(***************************************************************************)
(* The tree of build_bintree is the one the grammar defines: of the        *)
(* productions that derive a node the one with the smallest id, of its     *)
(* packs the one with the shortest first children, or all of them below an *)
(* ambiguity node; the helpers of repetitions give their children to the   *)
(* node that encloses them, and a node below itself is a leaf.  The frames *)
(* carry this in sinks, alternatives and visiting, and the order in which  *)
(* the chart lists its items does not show.                                *)
(***************************************************************************)
BintreeExact ==
  (job.path = "bintree" /\ Ended) => stack[1].children = TreesOf(Root, {})

(***************************************************************************)
(* What a pack of build_forest stands for once its temporaries are         *)
(* replaced by their packs.                                                *)
(***************************************************************************)
RECURSIVE Expanded(_)
Expanded(qs) ==
  UNION {IF q # <<>> /\ Temp(q[1])
         THEN {e \o Tail(q) : e \in Expanded(forest[q[1]])} ELSE {q} : q \in qs}

Nonterminals == {n \in DOMAIN forest : ~Temp(n)}

(***************************************************************************)
(* The forest of build_forest is closed, and a node's packs are those the  *)
(* grammar defines, or the one that build_bintree prefers.  Binarized, a   *)
(* node has at most two children, its temporaries stand for exactly the    *)
(* packs of the node, and a node that is disambiguated has one of the      *)
(* packs of the same production.                                           *)
(***************************************************************************)
ForestExact ==
  (job.path = "forest" /\ Ended) =>
    /\ Root \in DOMAIN forest
    /\ \A n \in DOMAIN forest : \A q \in forest[n] :
         /\ \A i \in DOMAIN q : IsNt(q[i]) => q[i] \in DOMAIN forest
         /\ job.binarize => Len(q) <= 2
    /\ \A n \in Nonterminals :
         IF job.binarize /\ job.disambiguate
         THEN /\ Expanded(forest[n]) # {}
              /\ Allowed(n) => /\ Cardinality(Expanded(forest[n])) = 1
                               /\ Expanded(forest[n]) \subseteq Derived(Min(Deriving(n)), n)
              /\ ~Allowed(n) => Expanded(forest[n]) \subseteq Chosen(n)
         ELSE Expanded(forest[n]) = Chosen(n)

(***************************************************************************)
(* The forest that get_forest makes of the tree of build_bintree has the   *)
(* packs the grammar defines, for the root and for every nonterminal in a  *)
(* pack, although the tree repeats nodes, cuts a node below itself and     *)
(* wraps ambiguous ones; helpers of repetitions are no longer in the tree. *)
(***************************************************************************)
RebuildsForest ==
  (job.path = "bintree" /\ Ended /\ Gram.ebnf = {}) =>
    LET f == Rebuilt(stack[1].children[1])
    IN  /\ Root \in DOMAIN f
        /\ \A n \in DOMAIN f : f[n] = Chosen(n)
        /\ \A n \in DOMAIN f : \A q \in f[n] : \A i \in DOMAIN q :
             IsNt(q[i]) => q[i] \in DOMAIN f

\* Both builders end, also where the chart has cycles.
Ends == <>Ended

RECURSIVE Nodes(_)
Nodes(t) == {t} \cup UNION {Nodes(t.kids[i]) : i \in DOMAIN t.kids}

(***************************************************************************)
(* A temporary that binarization puts into a tree has the symbols of its   *)
(* rule below it ("splits rules with more than two children nodes into     *)
(* multiple rules").                                                       *)
(***************************************************************************)
SplitsRules ==
  (job.path = "bintree" /\ Ended) =>
    \A t \in UNION {Nodes(stack[1].children[i]) : i \in DOMAIN stack[1].children} :
      Temp(t.node) => t.kids # <<>>
===============================================================================
