---------------------------- MODULE DynamicGrammar ----------------------------
(***************************************************************************)
(* The alternatives of @dynamic nonterminals (src/grammar.tmpl.h): what the*)
(* host adds, what the grow hook of a parse adds, and what a parse keeps   *)
(* of the latter in its dynamic_context.  Several parsers share the grammar*)
(* and parse one after the other; a parse is open between its first and its*)
(* last step, and the hook runs inside it.                                 *)
(*                                                                         *)
(* An entry is a nonterminal with a text.  The production index of an entry*)
(* never changes and is left out.                                          *)
(***************************************************************************)
CONSTANTS
  Nts,       \* the @dynamic nonterminals
  Texts,     \* the texts of their alternatives
  Pairs,     \* options::dynamic_grow_nts: <<parent, child>>
  Contexts,  \* the dynamic_context objects
  None

ASSUME DynamicAssumption == None \notin Contexts

Entries == Nts \X Texts

\* the pair of an alternative that no hook of the parser added
Outside(e) == <<None, e[1]>>
Tags == Pairs \cup ({None} \X Nts)

VARIABLES
  st,         \* dynamic_entry::st; "none" has no production yet
  grownBy,    \* dynamic_entry::grown_by
  confirmed,  \* the entries whose dynamic_entry::confirmed is set
  linked,     \* the entries whose production is in ntsm
  pending,    \* pending_
  kept,       \* opt_.dynamic
  ctx,        \* dynamic_context::values, by context
  run,        \* the context of the open parse, or None
  grows       \* whether its parser has a pair in dynamic_grow_nts

dynamic == <<st, grownBy, confirmed, linked, pending>>
vars == <<dynamic, kept, ctx, run, grows>>

States == {"none", "host", "committed", "pending", "retired"}

In(s)   == {e \in Entries : st[e] = s}
Lasting == In("host") \cup In("committed")

\* f with the value v on S
Put(f, S, v) == [e \in Entries |-> IF e \in S THEN v ELSE f[e]]

\* set_enabled_productions: every production but the retired ones
Relinked(f) == {e \in Entries : f[e] \notin {"none", "retired"}}

-------------------------------------------------------------------------------
(***************************************************************************)
(* The entries in S reach a lasting state: none of them stays undecided.   *)
(***************************************************************************)
\* mutant: they stay on the list of undecided ones
ClaimUndecided(S) ==
  /\ grownBy' = Put(grownBy, S, {}) /\ confirmed' = confirmed \ S
  /\ pending' = pending

Claim(S) ==
  /\ grownBy' = Put(grownBy, S, {}) /\ confirmed' = confirmed \ S
  /\ pending' = pending \ (S \cap In("pending"))

(***************************************************************************)
(* The host, between parses.                                               *)
(***************************************************************************)
\* mutant: an entry that is live already is left as it is
HostValuesNew(vs, f) ==
  LET new == vs \ {e \in Entries : f[e] \in {"host", "committed", "pending"}}
  IN  st' = Put(f, new, "host") /\ Claim(new)

\* f: the states the values are added to
HostValues(vs, f) ==
  LET new == vs \ {e \in Entries : f[e] = "host"}
  IN  st' = Put(f, new, "host") /\ Claim(new)

AddDynamic(vs) ==
  /\ run = None
  /\ kept' = kept \cup (vs \ Lasting)
  /\ HostValues(vs, st)
  /\ linked' = Relinked(st')
  /\ UNCHANGED <<ctx, run, grows>>

\* the option "dynamic" is written: a host value it lacks retires
ApplyDynamicValues(vs) ==
  /\ run = None
  /\ kept' = vs
  /\ HostValues(vs, Put(st, In("host") \ vs, "retired"))
  /\ linked' = Relinked(st')
  /\ UNCHANGED <<ctx, run, grows>>

\* a write of the guards, of the classes or of the start symbol
SetEnabledProductions ==
  /\ run = None
  /\ linked' = Relinked(st)
  /\ UNCHANGED <<st, grownBy, confirmed, pending, kept, ctx, run, grows>>

(***************************************************************************)
(* add_dynamic_production_from: from the hook for a pair, or from outside. *)
(***************************************************************************)
Grow(e, tag) ==
  /\ e \notin Lasting
  /\ IF e \in In("pending")
     THEN /\ grownBy' = [grownBy EXCEPT ![e] = @ \cup {tag}]
          /\ UNCHANGED <<st, confirmed, linked, pending>>
     ELSE /\ st' = Put(st, {e}, "pending") /\ grownBy' = Put(grownBy, {e}, {tag})
          /\ confirmed' = confirmed \ {e}
          /\ linked' = linked \cup {e} /\ pending' = pending \cup {e}
  /\ UNCHANGED <<kept, ctx, run, grows>>

AddOutside(e) == Grow(e, Outside(e))

FireDynamicGrow(e, pair) == run # None /\ grows /\ Grow(e, pair)

(***************************************************************************)
(* A parse.                                                                *)
(***************************************************************************)
\* mutant: what another context confirmed stays
SyncKeeps(k) ==
  LET add == ctx[k] \ Lasting
  IN  st' = Put(st, add, "committed") /\ Claim(add) /\ linked' = linked \cup add

SyncDynamicContext(k) ==
  LET gone == In("committed") \ ctx[k]
      add  == ctx[k] \ Lasting
  IN  /\ st' = Put(Put(st, gone, "retired"), add, "committed")
      /\ Claim(add)
      /\ linked' = (linked \ gone) \cup add

BeginParse(k, g) ==
  /\ run = None
  /\ IF g THEN SyncDynamicContext(k) ELSE UNCHANGED dynamic
  /\ run' = k /\ grows' = g
  /\ UNCHANGED <<kept, ctx>>

\* an item of a registered parent completes over the text of its child
ConfirmDynamic(pair, text) ==
  /\ run # None /\ grows
  /\ confirmed' = confirmed \cup
       {e \in pending : e[2] = text /\ {pair, <<None, pair[2]>>} \cap grownBy[e] # {}}
  /\ UNCHANGED <<st, grownBy, linked, pending, kept, ctx, run, grows>>

\* mutant: a retired entry stays in the index
DecideUnlinkless(sure) ==
  /\ st' = Put(Put(st, pending, "retired"), sure, "committed")
  /\ grownBy' = Put(grownBy, pending, {}) /\ confirmed' = confirmed \ pending
  /\ linked' = linked
  /\ pending' = {}

\* the entries in sure are kept, every other pending one retires
Decide(sure) ==
  /\ st' = Put(Put(st, pending, "retired"), sure, "committed")
  /\ grownBy' = Put(grownBy, pending, {}) /\ confirmed' = confirmed \ pending
  /\ linked' = linked \ (pending \ sure)
  /\ pending' = {}

CommitDynamic ==
  LET sure == pending \cap confirmed
  IN  Decide(sure) /\ ctx' = [ctx EXCEPT ![run] = @ \cup sure]

RollbackDynamic == Decide({}) /\ UNCHANGED ctx

EndParse ==
  /\ run # None
  /\ CommitDynamic \/ RollbackDynamic
  /\ run' = None /\ grows' = FALSE
  /\ UNCHANGED kept

\* the input is longer than an item can hold: nothing is decided
EndTooLong ==
  /\ run # None
  /\ run' = None /\ grows' = FALSE
  /\ UNCHANGED <<dynamic, kept, ctx>>

Init ==
  /\ kept \in SUBSET Entries
  /\ st = [e \in Entries |-> IF e \in kept THEN "host" ELSE "none"]
  /\ grownBy = [e \in Entries |-> {}] /\ confirmed = {} /\ pending = {}
  /\ linked = kept
  /\ ctx \in [Contexts -> SUBSET Entries]
  /\ run = None
  /\ grows = FALSE

Next ==
  \/ \E vs \in SUBSET Entries : AddDynamic(vs) \/ ApplyDynamicValues(vs)
  \/ SetEnabledProductions
  \/ \E e \in Entries : AddOutside(e) \/ \E p \in Pairs : FireDynamicGrow(e, p)
  \/ \E k \in Contexts, g \in BOOLEAN : BeginParse(k, g)
  \/ \E p \in Pairs, t \in Texts : ConfirmDynamic(p, t)
  \/ EndParse \/ EndTooLong

Spec == Init /\ [][Next]_vars

-------------------------------------------------------------------------------
\* The tables hold entries and their fields have their types.
TypeOK ==
  /\ st \in [Entries -> States] /\ grownBy \in [Entries -> SUBSET Tags]
  /\ {confirmed, linked, pending, kept} \subseteq SUBSET Entries
  /\ ctx \in [Contexts -> SUBSET Entries]
  /\ run \in Contexts \cup {None} /\ grows \in BOOLEAN

\* The index predict() reads holds the alternatives that are not retired: no
\* order of adds, parses and rebuilds links a retired one or loses a live one
\* (link, retire, set_enabled_productions).
LinkedIsLive == linked = Relinked(st)

\* The list of undecided entries is the entries in state pending, and only they
\* carry parents and a confirmation: nothing a host or a context claimed is
\* decided again by a later parse (unpend, commit_dynamic, rollback_dynamic).
PendingExact ==
  /\ pending = In("pending")
  /\ confirmed \subseteq pending
  /\ \A e \in Entries : grownBy[e] # {} <=> e \in pending

\* The three tables of the entries agree: the states, the index, and the list of
\* undecided ones (link, retire, unpend).
TablesAgree == LinkedIsLive /\ PendingExact

\* What a parse with a registered pair can match is what the host gave, what its
\* own context holds and what is still undecided, and all of its context
\* (sync_dynamic_context, add_dynamic_production_from).
OwnContext ==
  run # None /\ grows =>
    /\ linked \subseteq In("host") \cup ctx[run] \cup pending
    /\ ctx[run] \subseteq linked

\* No parse and no context takes an alternative from the host: it goes only when
\* the option is written without it (rollback_dynamic, sync_dynamic_context).
HostStays ==
  [][\A e \in Entries : st[e] = "host" /\ st'[e] # "host" =>
       run = None /\ e \notin kept']_vars

\* An alternative the option lists is live, whatever was grown or confirmed of
\* the same text before (host_dynamic_values).
KeptIsHost == kept \subseteq In("host")

(***************************************************************************)
(* What the documentation says of it.                                      *)
(***************************************************************************)
\* The option records every value the host added.
HostsRecorded == In("host") \subseteq kept

\* No parse sees what a parse with another context confirmed.
ContextsApart ==
  run # None => linked \subseteq In("host") \cup ctx[run] \cup pending
===============================================================================
