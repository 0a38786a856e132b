------------------------- MODULE DynamicGrammarProofs -------------------------
(***************************************************************************)
(* The invariants of DynamicGrammar for every set of nonterminals, texts,  *)
(* pairs and contexts.  Inv is inductive as it stands: OwnContext needs the*)
(* index to be exact, and that needs the list of undecided entries exact.  *)
(***************************************************************************)
EXTENDS DynamicGrammar, TLAPS

Inv == TypeOK /\ LinkedIsLive /\ PendingExact /\ OwnContext /\ KeptIsHost

\* Every entry of the initial state is the host's or has no production.
LEMMA InitInv == ASSUME DynamicAssumption, Init PROVE Inv
<1>1. TypeOK
  BY DEF TypeOK, Init, States, In, Put, Entries
<1>2. LinkedIsLive
  BY DEF LinkedIsLive, Relinked, Init
<1>3. PendingExact
  BY DEF PendingExact, Init, In
<1>4. OwnContext /\ KeptIsHost
  BY DEF OwnContext, KeptIsHost, Init, In, DynamicAssumption
<1> QED  BY <1>1, <1>2, <1>3, <1>4 DEF Inv

\* The host claims entries: none of them stays undecided.
LEMMA AddDynamicInv ==
  ASSUME DynamicAssumption, Inv, NEW vs \in SUBSET Entries, AddDynamic(vs)
  PROVE  Inv'
<1> USE DEF AddDynamic, HostValues, Claim, Put, Inv
<1>1. TypeOK'
  BY DEF TypeOK, States, In, Put, Relinked
<1>2. LinkedIsLive'
  BY DEF LinkedIsLive, Relinked
<1>3. PendingExact'
  BY DEF PendingExact, TypeOK, In
<1>4. OwnContext' /\ KeptIsHost'
  BY DEF OwnContext, KeptIsHost, TypeOK, In, Lasting, PendingExact, DynamicAssumption, States
<1> QED  BY <1>1, <1>2, <1>3, <1>4

\* The option is written: an entry it lacks leaves the index.
LEMMA ApplyDynamicValuesInv ==
  ASSUME DynamicAssumption, Inv, NEW vs \in SUBSET Entries, ApplyDynamicValues(vs)
  PROVE  Inv'
<1> USE DEF ApplyDynamicValues, HostValues, Claim, Put, Inv
<1>1. TypeOK'
  BY DEF TypeOK, States, In, Put, Relinked
<1>2. LinkedIsLive'
  BY DEF LinkedIsLive, Relinked
<1>3. PendingExact'
  BY DEF PendingExact, TypeOK, In
<1>4. OwnContext' /\ KeptIsHost'
  BY DEF OwnContext, KeptIsHost, TypeOK, In, DynamicAssumption
<1> QED  BY <1>1, <1>2, <1>3, <1>4

LEMMA RebuildInv ==
  ASSUME Inv, SetEnabledProductions
  PROVE  Inv'
<1>1. linked' = linked /\ UNCHANGED <<st, grownBy, confirmed, pending, kept, ctx, run, grows>>
  BY DEF Inv, LinkedIsLive, SetEnabledProductions
<1> QED
  BY <1>1 DEF Inv, TypeOK, LinkedIsLive, Relinked, PendingExact, OwnContext, KeptIsHost, In

\* An entry that is added is pending, whatever it was before.
LEMMA GrowInv ==
  ASSUME DynamicAssumption, Inv, NEW e \in Entries, NEW tag \in Tags, Grow(e, tag)
  PROVE  Inv'
<1> USE DEF Grow, Put, Inv
<1>1. TypeOK'
  BY DEF TypeOK, States, In, Put
<1>2. LinkedIsLive'
  BY DEF LinkedIsLive, Relinked, TypeOK, In
<1>3. PendingExact'
  BY DEF PendingExact, TypeOK, In
<1>4. OwnContext'
  BY DEF OwnContext, TypeOK, In, PendingExact, Lasting
<1>5. KeptIsHost'
  BY DEF KeptIsHost, TypeOK, In, Lasting
<1> QED  BY <1>1, <1>2, <1>3, <1>4, <1>5

\* A parse that reads its context has exactly that context in the index.
LEMMA BeginParseInv ==
  ASSUME DynamicAssumption, Inv, NEW k \in Contexts, NEW g \in BOOLEAN, BeginParse(k, g)
  PROVE  Inv'
<1> USE DEF BeginParse, Inv
<1>1. CASE g
  <2> USE <1>1 DEF SyncDynamicContext, Claim, Put
  <2>1. TypeOK'
    BY DEF TypeOK, States, In, Put, Lasting
  <2>2. LinkedIsLive'
    BY DEF LinkedIsLive, Relinked, TypeOK, In, Lasting
  <2>3. PendingExact'
    BY DEF PendingExact, TypeOK, In, Lasting
  <2>4. OwnContext'
    BY <2>2, <2>3 DEF OwnContext, TypeOK, In, PendingExact, Lasting, LinkedIsLive, Relinked, States
  <2>5. KeptIsHost'
    BY DEF KeptIsHost, TypeOK, In, Lasting
  <2> QED  BY <2>1, <2>2, <2>3, <2>4, <2>5
<1>2. CASE ~g
  BY <1>2 DEF dynamic, TypeOK, LinkedIsLive, Relinked, PendingExact, OwnContext, KeptIsHost, In
<1> QED  BY <1>1, <1>2

LEMMA ConfirmInv ==
  ASSUME Inv, NEW p \in Pairs, NEW t \in Texts, ConfirmDynamic(p, t)
  PROVE  Inv'
<1> USE DEF ConfirmDynamic, Inv
<1>1. TypeOK'
  BY DEF TypeOK
<1>2. LinkedIsLive' /\ OwnContext' /\ KeptIsHost'
  BY DEF LinkedIsLive, Relinked, OwnContext, KeptIsHost, In
<1>3. PendingExact'
  BY DEF PendingExact, In
<1> QED  BY <1>1, <1>2, <1>3

\* Every pending entry is decided, and only what was confirmed stays linked.
LEMMA EndParseInv ==
  ASSUME DynamicAssumption, Inv, EndParse
  PROVE  Inv'
<1> USE DEF EndParse, Inv
<1>1. PICK sure \in SUBSET pending :
        Decide(sure) /\ ctx' \in {ctx, [ctx EXCEPT ![run] = @ \cup sure]}
  <2>1. CASE CommitDynamic
    <3>1. pending \cap confirmed \in SUBSET pending
      OBVIOUS
    <3> QED  BY <2>1, <3>1 DEF CommitDynamic
  <2>2. CASE RollbackDynamic
    <3>1. {} \in SUBSET pending
      OBVIOUS
    <3> QED  BY <2>2, <3>1 DEF RollbackDynamic
  <2> QED  BY <2>1, <2>2
<1> USE <1>1 DEF Decide, Put
<1>2. TypeOK'
  BY DEF TypeOK, States
<1>3. LinkedIsLive'
  BY DEF LinkedIsLive, Relinked, TypeOK, PendingExact, In
<1>4. PendingExact'
  BY DEF PendingExact, TypeOK, In
<1>5. OwnContext'
  BY DEF OwnContext, DynamicAssumption
<1>6. KeptIsHost'
  BY DEF KeptIsHost, TypeOK, In, PendingExact
<1> QED  BY <1>2, <1>3, <1>4, <1>5, <1>6

LEMMA EndTooLongInv ==
  ASSUME DynamicAssumption, Inv, EndTooLong
  PROVE  Inv'
  BY DEF EndTooLong, dynamic, Inv, TypeOK, LinkedIsLive, Relinked, PendingExact, OwnContext, KeptIsHost,
         In, DynamicAssumption

\* Inv is inductive.
LEMMA NextInv == ASSUME DynamicAssumption, Inv, [Next]_vars PROVE Inv'
<1>1. CASE \E vs \in SUBSET Entries : AddDynamic(vs) \/ ApplyDynamicValues(vs)
  BY <1>1, AddDynamicInv, ApplyDynamicValuesInv
<1>2. CASE SetEnabledProductions
  BY <1>2, RebuildInv
<1>3. CASE \E e \in Entries : AddOutside(e) \/ \E p \in Pairs : FireDynamicGrow(e, p)
  <2>1. \A e \in Entries : Outside(e) \in Tags
    BY DEF Outside, Tags, Entries
  <2>2. Pairs \subseteq Tags
    BY DEF Tags
  <2> QED  BY <1>3, <2>1, <2>2, GrowInv DEF AddOutside, FireDynamicGrow
<1>4. CASE \E k \in Contexts, g \in BOOLEAN : BeginParse(k, g)
  BY <1>4, BeginParseInv
<1>5. CASE \E p \in Pairs, t \in Texts : ConfirmDynamic(p, t)
  BY <1>5, ConfirmInv
<1>6. CASE EndParse \/ EndTooLong
  BY <1>6, EndParseInv, EndTooLongInv
<1>7. CASE UNCHANGED vars
  BY <1>7 DEF vars, dynamic, Inv, TypeOK, LinkedIsLive, Relinked, PendingExact, OwnContext, KeptIsHost, In
<1> QED  BY <1>1, <1>2, <1>3, <1>4, <1>5, <1>6, <1>7 DEF Next

THEOREM DynamicInv == ASSUME DynamicAssumption PROVE Spec => []Inv
<1>1. Init => Inv
  BY InitInv
<1>2. Inv /\ [Next]_vars => Inv'
  BY NextInv
<1> QED  BY <1>1, <1>2, PTL DEF Spec

-------------------------------------------------------------------------------
\* The tables keep their types (grammar::dynamic_entry and the lists around it).
THEOREM DynamicTypeOK == ASSUME DynamicAssumption PROVE Spec => []TypeOK
<1>1. Inv => TypeOK
  BY DEF Inv
<1> QED  BY <1>1, DynamicInv, PTL

\* The index holds the live alternatives and no other, and the list of
\* undecided ones is exact (link, retire, unpend).
THEOREM DynamicTablesAgree == ASSUME DynamicAssumption PROVE Spec => []TablesAgree
<1>1. Inv => TablesAgree
  BY DEF Inv, TablesAgree
<1> QED  BY <1>1, DynamicInv, PTL

\* A parse with a registered pair matches its own context, the host's and the
\* undecided alternatives (sync_dynamic_context).
THEOREM DynamicOwnContext == ASSUME DynamicAssumption PROVE Spec => []OwnContext
<1>1. Inv => OwnContext
  BY DEF Inv
<1> QED  BY <1>1, DynamicInv, PTL

\* What the parse is to keep for the host when it ends belongs to the host
\* already (confirm_dynamic, commit_dynamic).
THEOREM DynamicKeptIsHost == ASSUME DynamicAssumption PROVE Spec => []KeptIsHost
<1>1. Inv => KeptIsHost
  BY DEF Inv
<1> QED  BY <1>1, DynamicInv, PTL

\* Nothing but a write of the option takes an alternative from the host
\* (rollback_dynamic, commit_dynamic, sync_dynamic_context).
THEOREM DynamicHostStays == ASSUME DynamicAssumption PROVE Spec => HostStays
<1> DEFINE Stays == \A e \in Entries : st[e] = "host" /\ st'[e] # "host" =>
                                       run = None /\ e \notin kept'
<1>1. ASSUME Inv, [Next]_vars PROVE Stays
  <2> SUFFICES ASSUME NEW e \in Entries, st[e] = "host", st'[e] # "host"
               PROVE  run = None /\ e \notin kept'
    OBVIOUS
  <2> USE <1>1 DEF Inv, TypeOK, In, Put
  <2>1. CASE \E vs \in SUBSET Entries : AddDynamic(vs)
    BY <2>1 DEF AddDynamic, HostValues
  <2>2. CASE \E vs \in SUBSET Entries : ApplyDynamicValues(vs)
    BY <2>2 DEF ApplyDynamicValues, HostValues
  <2>3. CASE SetEnabledProductions \/ EndTooLong \/ UNCHANGED vars
    BY <2>3 DEF SetEnabledProductions, EndTooLong, vars, dynamic
  <2>4. CASE \E x \in Entries : AddOutside(x) \/ \E p \in Pairs : FireDynamicGrow(x, p)
    BY <2>4 DEF AddOutside, FireDynamicGrow, Grow, Lasting
  <2>5. CASE \E k \in Contexts, g \in BOOLEAN : BeginParse(k, g)
    BY <2>5 DEF BeginParse, SyncDynamicContext, Lasting, dynamic
  <2>6. CASE \E p \in Pairs, t \in Texts : ConfirmDynamic(p, t)
    BY <2>6 DEF ConfirmDynamic
  <2>7. CASE EndParse
    BY <2>7 DEF EndParse, CommitDynamic, RollbackDynamic, Decide, PendingExact
  <2> QED  BY <1>1, <2>1, <2>2, <2>3, <2>4, <2>5, <2>6, <2>7 DEF Next
<1>2. Spec => [][Stays]_vars
  BY <1>1, DynamicInv, PTL DEF Spec
<1> QED  BY <1>2 DEF HostStays
===============================================================================
